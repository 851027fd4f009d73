--------------------------- MODULE MCRemoteSession ---------------------------
(***************************************************************************)
(* Small instances of RemoteSession.                                       *)
(***************************************************************************)
EXTENDS RemoteSession

ClientRequests == Requests \ {"badhello", "malformed", "oversize"}
==============================================================================
