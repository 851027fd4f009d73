---------------------------- MODULE RemoteSession ----------------------------
(***************************************************************************)
(* The agent of RemoteAgent with the client of                             *)
(* telemaco-remote/src/client.rs at the other end of the stream, and the   *)
(* caller that drives it: one call at a time, each waiting for its answer, *)
(* an exec that may be cancelled and gives up when the cancel is not       *)
(* confirmed.  A caller drops the connection after an error that is not    *)
(* the agent's refusal, and may at any time.                               *)
(***************************************************************************)
EXTENDS RemoteAgent

CONSTANT ReuseAfterCancel   \* may a caller go on with a session after an exec
                            \* it cancelled?  `telemaco remote exec` does not.

VARIABLES cpc,        \* where the client is
          asked,      \* the call it made last
          call,       \* the number of that request
          cancelled,  \* it sent a cancel for this exec
          garbled,    \* it read the head of a frame that was cut short
          last        \* what the latest call to return returned

client == <<cpc, asked, call, cancelled, garbled, last>>
svars  == <<vars, client>>

NoResult == [call |-> 0, refused |-> FALSE, for |-> 0]

ClientTypeOK ==
    /\ cpc \in {"new", "await", "exec", "cancelling", "ready", "failed", "left"}
    /\ asked \in Requests /\ call \in Nat
    /\ cancelled \in BOOLEAN /\ garbled \in BOOLEAN
    /\ call <= sends
    /\ garbled => cpc \notin {"new", "ready"}
    /\ last \in [call : Nat, refused : BOOLEAN, for : Nat]

SInit ==
    /\ Init
    /\ cpc = "new" /\ asked = "hello" /\ call = 0
    /\ cancelled = FALSE /\ garbled = FALSE /\ last = NoResult

----------------------------------------------------------------------------
(* Calls.                                                                  *)

\* The bound on frames leaves room for the cancel of a call.
Ask(f, next) ==
    /\ sends + 2 <= MaxSends /\ PeerSend(f)
    /\ cpc' = next /\ asked' = f /\ call' = sends + 1
    /\ cancelled' = FALSE
    /\ UNCHANGED <<garbled, last>>

SayHello == cpc = "new" /\ Ask("hello", "await")

Call == cpc = "ready" /\ \E f \in Frames \cap {"ping", "status"} : Ask(f, "await")

Exec == cpc = "ready" /\ \E f \in Frames \cap {"exec", "timedexec", "badexec"} : Ask(f, "exec")

\* The caller's `cancel` resolves.  While its frame is being sent the client
\* does not read.
Cancelling ==
    /\ cpc = "exec" /\ ~cancelled
    /\ cpc' = "cancelling" /\ cancelled' = TRUE
    /\ UNCHANGED <<vars, asked, call, garbled, last>>

SendCancel ==
    /\ cpc = "cancelling" /\ PeerSend("cancel")
    /\ cpc' = "exec"
    /\ UNCHANGED <<asked, call, cancelled, garbled, last>>

----------------------------------------------------------------------------
(* Answers.                                                                *)

Fails == cpc' = "failed" /\ UNCHANGED <<cancelled, last>>

Reusable_Always == TRUE

Reusable == ReuseAfterCancel \/ ~cancelled

Returns(m, refused) ==
    /\ last' = [call |-> call, refused |-> refused, for |-> m.for]
    /\ cpc' = IF Reusable THEN "ready" ELSE "failed"
    /\ UNCHANGED cancelled

\* A pong is the answer to its own nonce only.
Expected(m) ==
    CASE asked = "hello"  -> m.type = "Hello"
      [] asked = "ping"   -> m.type = "Pong" /\ m.for = call
      [] asked = "status" -> m.type = "Status"
      [] OTHER            -> m.type = "Exited"

Receive ==
    /\ cpc \in {"await", "exec"} /\ ~garbled /\ Arrived /\ Head(toPeer).whole
    /\ PeerTake
    /\ LET m == Head(toPeer).msg
       IN  CASE Expected(m)       -> Returns(m, FALSE)
             [] m.type = "Error"  -> IF asked = "hello" THEN Fails ELSE Returns(m, TRUE)
             [] m.type = "Output" /\ cpc = "exec" -> UNCHANGED <<cpc, cancelled, last>>
             [] OTHER             -> Fails
    /\ UNCHANGED <<asked, call, garbled>>

\* What follows the head of a cut frame is read as its body: that does not
\* decode, or there is not enough of it and the client reads on.
ReceiveGarbage ==
    /\ cpc \in {"await", "exec"} /\ Arrived
    /\ garbled \/ ~Head(toPeer).whole
    /\ PeerTake
    /\ garbled' = TRUE
    /\ Fails \/ UNCHANGED <<cpc, cancelled, last>>
    /\ UNCHANGED <<asked, call>>

\* The transport breaks, or the agent's process does, under client and agent.
\* Between calls that shows nothing that Leave does not.
Breaks == cpc \in {"await", "exec", "cancelling"} /\ PeerClose /\ UNCHANGED client

\* recv or send finds the end of the stream.
AgentGone ==
    /\ cpc \in {"await", "exec", "cancelling"}
    /\ ~peerOpen \/ (phase = "ended" /\ ~Arrived)
    /\ Fails
    /\ UNCHANGED <<vars, asked, call, garbled>>

\* The agent did not confirm within cancel_grace.
GraceExpires ==
    /\ cpc = "exec" /\ cancelled
    /\ Fails
    /\ UNCHANGED <<vars, asked, call, garbled>>

\* The caller drops the connection: it is done, its own timeout passed, or
\* the call failed.
Leave ==
    /\ cpc # "left" /\ cpc' = "left"
    /\ PeerClose \/ (~peerOpen /\ UNCHANGED vars)
    /\ UNCHANGED <<asked, call, cancelled, garbled, last>>

Client == \/ SayHello \/ Call \/ Exec \/ Cancelling \/ SendCancel
          \/ Receive \/ ReceiveGarbage \/ AgentGone \/ GraceExpires \/ Leave

SNext == \/ (Agent \/ World) /\ UNCHANGED client
         \/ Client
         \/ Breaks

SSpec == SInit /\ [][SNext]_svars

(* The client's futures are polled like the agent's.  No fairness makes a  *)
(* caller call, cancel or leave, but for one whose call failed; none makes *)
(* the grace period pass, so that nothing is confirmed by its mere end.    *)
SFairSpec ==
    /\ SSpec /\ AgentFairness
    /\ WF_svars(Receive) /\ WF_svars(ReceiveGarbage) /\ WF_svars(AgentGone)
    /\ WF_svars(SendCancel) /\ WF_svars(cpc = "failed" /\ Leave)

----------------------------------------------------------------------------
(* Properties.                                                             *)

\* What a call returns, a result or a refusal, is the agent's answer to that
\* very call, though neither errors, statuses nor verdicts name their request
\* (protocol.rs:11, "each request gets exactly one response, in order").
OwnAnswer == last.for = last.call

\* A session whose client waits for nothing is at rest: no frame is under way
\* in either direction and no program runs (client.rs borrows the stream for
\* the next call).
AtRest ==
    cpc = "ready" =>
        /\ toAgent = <<>> /\ held = <<>> /\ inbox = <<>> /\ out = <<>> /\ toPeer = <<>>
        /\ phase = "serving" /\ child # "running"

\* A ping, a status or a handshake returns, whatever went before.
CallsReturn == cpc = "await" ~> cpc # "await"

\* A cancel stops the program and the verdict comes back without the help of
\* the grace period, while the program writes and the streams are full; only
\* a stream cut before the cancel is excepted.
CancelConfirmed ==
    cancelled /\ cpc \in {"exec", "cancelling"} ~>
        (cpc \notin {"exec", "cancelling"} \/ (garbled /\ child # "running"))
==============================================================================
