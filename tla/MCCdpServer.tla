---------------------------- MODULE MCCdpServer ------------------------------
(***************************************************************************)
(* Small instances of CdpServer.  Connections are interchangeable.         *)
(***************************************************************************)
EXTENDS CdpServer, TLC

Symmetric == Permutations(Clients)
=============================================================================
