--------------------------- MODULE SessionContract ---------------------------
(***************************************************************************)
(* What a remote agent promises the peer of one session, as protocol.rs   *)
(* words it: every request is answered at most once and nothing is        *)
(* answered that was not asked; one program runs at a time; while it runs *)
(* nothing is answered; its verdict comes once, after it stopped, and     *)
(* names why it stopped.  How frames travel, when the agent polls what,   *)
(* and where the output goes are left to RemoteAgent, which implements    *)
(* this module.                                                           *)
(***************************************************************************)
EXTENDS Naturals, Sequences

CONSTANTS Ids,          \* the requests: the n-th one of a session is n
          Replies,      \* kinds of answer other than a verdict
          Causes        \* why a program can have stopped

VARIABLES job,          \* "idle", "running", "stopped", "gone"
          current,      \* the request that started the latest program
          cause,        \* why the latest program stopped, "none" before
          log           \* the answers given, in order

cvars == <<job, current, cause, log>>

Fresh(id) == /\ \A i \in 1..Len(log) : log[i].for # id
             /\ job # "idle" => id # current

Say(type, id, end) == log' = Append(log, [type |-> type, for |-> id, end |-> end])

CInit == job = "idle" /\ current = 0 /\ cause = "none" /\ log = <<>>

(* An idle session answers a request at once. *)
Reply(id, type) ==
    /\ job = "idle" /\ Fresh(id)
    /\ Say(type, id, "none")
    /\ UNCHANGED <<job, current, cause>>

(* A program starts on behalf of a request not answered yet. *)
Start(id) ==
    /\ job = "idle" /\ Fresh(id)
    /\ job' = "running" /\ current' = id /\ cause' = "none"
    /\ UNCHANGED log

Stop(why) ==
    /\ job = "running"
    /\ job' = "stopped" /\ cause' = why
    /\ UNCHANGED <<current, log>>

(* A request that had no business arriving while the program ran is        *)
(* refused once the program is stopped, before the verdict.               *)
Complain(id) ==
    /\ job = "stopped" /\ cause = "Cancelled" /\ Fresh(id)
    /\ Say("Error", id, "none")
    /\ UNCHANGED <<job, current, cause>>

(* The one verdict of a program. *)
Tell ==
    /\ job = "stopped"
    /\ job' = "idle" /\ Say("Exited", current, cause)
    /\ UNCHANGED <<current, cause>>

(* The session ends; whatever ran ends with it. *)
Vanish == job # "gone" /\ job' = "gone" /\ UNCHANGED <<current, cause, log>>

CNext == \/ \E id \in Ids : \/ \E type \in Replies : Reply(id, type)
                            \/ Start(id)
                            \/ Complain(id)
         \/ \E why \in Causes : Stop(why)
         \/ Tell
         \/ Vanish

CSpec == CInit /\ [][CNext]_cvars
==============================================================================
