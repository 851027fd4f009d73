---------------------------- MODULE MCRemoteAgent ----------------------------
(***************************************************************************)
(* Small instances of RemoteAgent.                                         *)
(***************************************************************************)
EXTENDS RemoteAgent

AllRequests  == Requests
ExecRequests == {"hello", "cancel", "exec", "timedexec", "oversize"}
==============================================================================
