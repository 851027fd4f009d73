---------------------------- MODULE MCCdpTargets ----------------------------
(* Two targets, two explicit attachments, one browser context.              *)
EXTENDS CdpTargets
=============================================================================
