----------------------------- MODULE RemoteAgent -----------------------------
(***************************************************************************)
(* One session of the remote agent (telemaco-remote/src/agent.rs) over the *)
(* framed byte stream of protocol.rs: the reader future, the session that  *)
(* takes its frames, the program an exec starts, and the stream both ways. *)
(* The peer here may send any frame at any moment; RemoteSession puts the  *)
(* client of client.rs in its place.                                       *)
(*                                                                         *)
(* A request is a frame of one of the types below; the n-th one the agent  *)
(* takes is request n.  A response carries the request it is for, which    *)
(* the wire format does not: only the properties read it.                  *)
(***************************************************************************)
EXTENDS Naturals, Sequences

CONSTANTS Frames,      \* what the peer may send, a subset of Requests
          NetRoom,     \* frames each direction of the transport holds
          PipeRoom,    \* chunks the program's output pipe holds
          MaxSends     \* bound: frames the peer sends

ASSUME BoundsAssumption ==
    /\ NetRoom \in Nat \ {0} /\ PipeRoom \in Nat \ {0}
    /\ MaxSends \in Nat

\* "timedexec" sets timeout_secs, "badexec" fails ExecRequest::validate,
\* "badhello" names another version, "malformed" does not decode, and
\* "oversize" has a length no frame may have.
Requests == {"hello", "badhello", "ping", "status", "cancel", "exec",
             "timedexec", "badexec", "malformed", "oversize"}
Causes   == {"Exited", "TimedOut", "Cancelled"}
Replies  == {"Hello", "Pong", "Status", "Error"}

ASSUME FramesAssumption == Frames \subseteq Requests

VARIABLES allowExec,   \* AgentConfig.allow_exec
          toAgent, sends, peerOpen,    \* the stream from the peer
          held, inbox, reading,        \* the reader and its channel of one
          phase, taken, current, end,  \* the session
          child, heirs, pipe, due, \* the program, its pipe, its deadline
          out, midFrame,               \* responses the session still writes
          toPeer,                      \* the stream to the peer
          log, absorbed                \* ghosts: whole answers sent; cancels
                                       \* that ended an exec

config  == <<allowExec>>
inward  == <<toAgent, sends, peerOpen>>
reader  == <<held, inbox, reading>>
session == <<phase, taken, current, end>>
program == <<child, heirs, pipe, due>>
writer  == <<out, midFrame>>
ghosts  == <<log, absorbed>>
vars    == <<config, inward, reader, session, program, writer, toPeer, ghosts>>

Msg(type, id, why) == [type |-> type, for |-> id, end |-> why]
Error(id) == Msg("Error", id, "none")

TypeOK ==
    /\ allowExec \in BOOLEAN /\ peerOpen \in BOOLEAN /\ reading \in BOOLEAN
    /\ toAgent \in Seq(Requests) /\ sends \in Nat
    /\ held \in Seq(Requests \cup {"eof"}) /\ Len(held) <= 1
    /\ inbox \in Seq(Requests \cup {"eof"}) /\ Len(inbox) <= 1
    /\ phase \in {"handshake", "serving", "exec", "drain", "verdict",
                  "closing", "ended"}
    /\ taken \in Nat /\ current \in Nat
    /\ end \in Causes \cup {"none"}
    /\ child \in {"none", "running", "dead"} /\ heirs \in BOOLEAN
    /\ pipe \in 0..PipeRoom
    /\ due \in {"off", "armed", "due"}
    /\ midFrame \in BOOLEAN /\ absorbed \subseteq Nat
    /\ \A m \in {out[i] : i \in DOMAIN out} \cup {log[i] : i \in DOMAIN log} :
         /\ m.type \in Replies \cup {"Output", "Exited"} /\ m.for \in Nat

Init ==
    /\ allowExec \in BOOLEAN
    /\ toAgent = <<>> /\ sends = 0 /\ peerOpen = TRUE
    /\ held = <<>> /\ inbox = <<>> /\ reading = TRUE
    /\ phase = "handshake" /\ taken = 0 /\ current = 0 /\ end = "none"
    /\ child = "none" /\ heirs = FALSE /\ pipe = 0 /\ due = "off"
    /\ out = <<>> /\ midFrame = FALSE /\ toPeer = <<>>
    /\ log = <<>> /\ absorbed = {}

----------------------------------------------------------------------------
(* The peer's end of the stream.                                           *)

PeerSend(f) ==
    /\ peerOpen /\ sends < MaxSends /\ Len(toAgent) < NetRoom
    /\ toAgent' = Append(toAgent, f) /\ sends' = sends + 1
    /\ UNCHANGED <<config, peerOpen, reader, session, program, writer, toPeer, ghosts>>

\* The peer reads what has arrived; a frame still being written is not there
\* yet, one that was cut short is read as far as it goes.
Arrived == toPeer # <<>> /\ ~(midFrame /\ Len(toPeer) = 1)

PeerTake ==
    /\ peerOpen /\ Arrived
    /\ toPeer' = Tail(toPeer)
    /\ UNCHANGED <<config, inward, reader, session, program, writer, ghosts>>

PeerClose ==
    /\ peerOpen /\ peerOpen' = FALSE
    /\ UNCHANGED <<config, toAgent, sends, reader, session, program, writer, toPeer, ghosts>>

----------------------------------------------------------------------------
(* The reader: one frame after the other into a channel of one, until the  *)
(* stream ends or fails.  It runs beside the session, so it goes on        *)
(* reading while the session writes.                                       *)

ReadFrame ==
    /\ reading /\ held = <<>> /\ phase # "ended"
    /\ IF toAgent # <<>>
       THEN held' = <<Head(toAgent)>> /\ toAgent' = Tail(toAgent)
       ELSE ~peerOpen /\ held' = <<"eof">> /\ UNCHANGED toAgent
    /\ UNCHANGED <<config, sends, peerOpen, inbox, reading, session, program, writer, toPeer, ghosts>>

QueueFrame_Once ==
    /\ held # <<>> /\ inbox = <<>> /\ phase # "ended"
    /\ inbox' = held /\ held' = <<>>
    /\ reading' = FALSE
    /\ UNCHANGED <<config, inward, session, program, writer, toPeer, ghosts>>

QueueFrame ==
    /\ held # <<>> /\ inbox = <<>> /\ phase # "ended"
    /\ inbox' = held /\ held' = <<>>
    /\ reading' = (Head(held) \notin {"eof", "oversize"})
    /\ UNCHANGED <<config, inward, session, program, writer, toPeer, ghosts>>

----------------------------------------------------------------------------
(* The session.  A handler's `send(..).await?` holds the whole session up, *)
(* so nothing else of it moves while a response is unwritten.              *)

Free == out = <<>> /\ phase # "ended"

\* next_frame: the session takes the frame in the channel.
Took(f) ==
    /\ Free /\ inbox # <<>> /\ f = Head(inbox)
    /\ inbox' = <<>>
    /\ taken' = IF f = "eof" THEN taken ELSE taken + 1

\* serve returns: the stream, the reader and a running child are dropped
\* with it (kill_on_drop).
Ends ==
    /\ phase' = "ended" /\ out' = <<>>
    /\ child' = IF child = "running" THEN "dead" ELSE child

Answer(msgs, next) == out' = msgs /\ phase' = next

\* handshake
Handshake ==
    /\ phase = "handshake"
    /\ \E f \in Requests \cup {"eof"} :
        /\ Took(f)
        /\ CASE f = "hello"    -> /\ Answer(<<Msg("Hello", taken + 1, "none")>>, "serving")
                                  /\ UNCHANGED child
             [] f \in {"eof", "oversize"} -> Ends
             [] OTHER          -> /\ Answer(<<Error(taken + 1)>>, "closing")
                                  /\ UNCHANGED child
    /\ UNCHANGED <<config, inward, held, reading, current, end, heirs, pipe,
                   due, midFrame, toPeer, ghosts>>

\* session_loop, for what is answered at once
Serve ==
    /\ phase = "serving"
    /\ \E f \in {"hello", "badhello", "ping", "status", "cancel", "malformed", "oversize"} :
        /\ Took(f)
        /\ LET reply == CASE f = "ping"   -> Msg("Pong", taken + 1, "none")
                          [] f = "status" -> Msg("Status", taken + 1, "none")
                          [] OTHER        -> Error(taken + 1)
           IN  Answer(<<reply>>, IF f = "oversize" THEN "closing" ELSE "serving")
    /\ UNCHANGED <<config, inward, held, reading, current, end, program,
                   midFrame, toPeer, ghosts>>

ServeEof ==
    /\ phase = "serving" /\ Took("eof") /\ Ends
    /\ UNCHANGED <<config, inward, held, reading, current, end, heirs, pipe,
                   due, midFrame, toPeer, ghosts>>

\* exec, up to the child: forbidden, invalid, or it could not be spawned.
RefuseExec_Silent ==
    /\ phase = "serving"
    /\ \E f \in {"exec", "timedexec", "badexec"} : Took(f)
    /\ Answer(<<>>, "serving")
    /\ UNCHANGED <<config, inward, held, reading, current, end, program,
                   midFrame, toPeer, ghosts>>

RefuseExec ==
    /\ phase = "serving"
    /\ \E f \in {"exec", "timedexec", "badexec"} : Took(f)
    /\ Answer(<<Error(taken + 1)>>, "serving")
    /\ UNCHANGED <<config, inward, held, reading, current, end, program,
                   midFrame, toPeer, ghosts>>

StartExec ==
    /\ phase = "serving" /\ allowExec
    /\ \E f \in {"exec", "timedexec"} :
        /\ Took(f)
        /\ due' = IF f = "timedexec" THEN "armed" ELSE "off"
    /\ phase' = "exec" /\ current' = taken + 1 /\ end' = "none"
    /\ child' = "running" /\ heirs' = FALSE /\ pipe' = 0
    /\ UNCHANGED <<config, inward, held, reading, out, midFrame, toPeer, ghosts>>

----------------------------------------------------------------------------
(* The select loop of exec, one disjunct per branch.                       *)

Settle(why, msgs) ==
    /\ end' = why
    /\ Answer(Append(msgs, Msg("Exited", current, why)), "verdict")

\* One pipe stands for stdout and stderr.
ForwardOutput ==
    /\ phase \in {"exec", "drain"} /\ Free /\ pipe > 0
    /\ pipe' = pipe - 1 /\ out' = <<Msg("Output", current, "none")>>
    /\ UNCHANGED <<config, inward, reader, session, child, heirs, due,
                   midFrame, toPeer, ghosts>>

NoticeExit ==
    /\ phase = "exec" /\ Free /\ child = "dead"
    /\ phase' = "drain" /\ end' = "Exited"
    /\ UNCHANGED <<config, inward, reader, taken, current, program, writer, toPeer, ghosts>>

Deadline_Unpolled == FALSE

Deadline ==
    /\ phase = "exec" /\ Free /\ due = "due"
    /\ child' = "dead" /\ Settle("TimedOut", <<>>)
    /\ UNCHANGED <<config, inward, reader, taken, current, heirs, pipe,
                   due, midFrame, toPeer, ghosts>>

CancelExec_Silent ==
    /\ phase = "exec" /\ Took("cancel")
    /\ child' = "dead" /\ end' = "Cancelled" /\ Answer(<<>>, "serving")
    /\ absorbed' = absorbed \cup {taken + 1}
    /\ UNCHANGED <<config, inward, held, reading, current, heirs, pipe,
                   due, midFrame, toPeer, log>>

CancelExec ==
    /\ phase = "exec" /\ Took("cancel")
    /\ child' = "dead" /\ Settle("Cancelled", <<>>)
    /\ absorbed' = absorbed \cup {taken + 1}
    /\ UNCHANGED <<config, inward, held, reading, current, heirs, pipe,
                   due, midFrame, toPeer, log>>

\* Anything else while the program runs: complain and cancel.
MisplacedFrame_GoesOn ==
    /\ phase = "exec"
    /\ \E f \in Requests \ {"cancel", "oversize"} : Took(f)
    /\ Answer(<<Error(taken + 1)>>, "exec")
    /\ UNCHANGED <<config, inward, held, reading, current, end, program,
                   midFrame, toPeer, ghosts>>

MisplacedFrame ==
    /\ phase = "exec"
    /\ \E f \in Requests \ {"cancel", "oversize"} : Took(f)
    /\ child' = "dead" /\ Settle("Cancelled", <<Error(taken + 1)>>)
    /\ UNCHANGED <<config, inward, held, reading, current, heirs, pipe,
                   due, midFrame, toPeer, ghosts>>

ClientGone_Ignored == FALSE

ClientGone ==
    /\ phase = "exec"
    /\ \E f \in {"eof", "oversize"} : Took(f)
    /\ Ends
    /\ UNCHANGED <<config, inward, held, reading, current, end, heirs, pipe,
                   due, midFrame, toPeer, ghosts>>

----------------------------------------------------------------------------
(* After the program exited by itself: what is left in the pipe, for a     *)
(* second at most.                                                         *)

Drained ==
    /\ phase = "drain" /\ Free /\ pipe = 0 /\ ~heirs
    /\ Settle("Exited", <<>>)
    /\ UNCHANGED <<config, inward, reader, taken, current, program, midFrame, toPeer, ghosts>>

\* tokio::time::timeout drops the drain wherever it is, in the middle of
\* writing an output frame too.
DrainTimeout ==
    /\ phase = "drain"
    /\ Settle("Exited", <<>>)
    /\ midFrame' = FALSE
    /\ UNCHANGED <<config, inward, reader, taken, current, program, toPeer, ghosts>>

----------------------------------------------------------------------------
(* write_frame: the head, then the body.                                   *)

WriteHead ==
    /\ out # <<>> /\ ~midFrame /\ Len(toPeer) < NetRoom
    /\ toPeer' = Append(toPeer, [msg |-> Head(out), whole |-> FALSE])
    /\ midFrame' = TRUE
    /\ UNCHANGED <<config, inward, reader, session, program, out, ghosts>>

WriteBody ==
    /\ out # <<>> /\ midFrame
    /\ toPeer' = [toPeer EXCEPT ![Len(toPeer)].whole = TRUE]
    /\ midFrame' = FALSE /\ out' = Tail(out)
    /\ log' = IF Head(out).type = "Output" THEN log ELSE Append(log, Head(out))
    /\ phase' = IF Len(out) > 1 THEN phase
                ELSE IF phase = "verdict" THEN "serving" ELSE phase
    /\ UNCHANGED <<config, inward, reader, taken, current, end, program, absorbed>>

\* The handshake failed or framing is lost: the session returns once the
\* peer was told.
HangUp ==
    /\ phase = "closing" /\ Free /\ Ends
    /\ UNCHANGED <<config, inward, reader, taken, current, end, heirs, pipe,
                   due, midFrame, toPeer, ghosts>>

\* The peer is gone and the write fails: `?` ends the session.
WriteFails ==
    /\ out # <<>> /\ ~peerOpen
    /\ Ends
    /\ UNCHANGED <<config, inward, reader, taken, current, end, heirs, pipe,
                   due, midFrame, toPeer, ghosts>>

----------------------------------------------------------------------------
(* The program and the clock.  A program may leave a process behind that   *)
(* holds its pipe open and goes on writing.                                *)

ProgramWrites ==
    /\ child = "running" \/ heirs
    /\ phase \in {"exec", "drain"} /\ pipe < PipeRoom
    /\ pipe' = pipe + 1
    /\ UNCHANGED <<config, inward, reader, session, child, heirs, due, writer, toPeer, ghosts>>

ProgramExits ==
    /\ child = "running"
    /\ child' = "dead" /\ heirs' \in BOOLEAN
    /\ UNCHANGED <<config, inward, reader, session, pipe, due, writer, toPeer, ghosts>>

HeirExits ==
    /\ heirs /\ heirs' = FALSE
    /\ UNCHANGED <<config, inward, reader, session, child, pipe, due, writer, toPeer, ghosts>>

TimePasses ==
    /\ due = "armed" /\ due' = "due"
    /\ UNCHANGED <<config, inward, reader, session, child, heirs, pipe, writer, toPeer, ghosts>>

----------------------------------------------------------------------------

Agent == \/ ReadFrame \/ QueueFrame
         \/ Handshake \/ Serve \/ ServeEof \/ RefuseExec \/ StartExec
         \/ ForwardOutput \/ NoticeExit \/ Deadline
         \/ CancelExec \/ MisplacedFrame \/ ClientGone
         \/ Drained \/ DrainTimeout
         \/ WriteHead \/ WriteBody \/ HangUp \/ WriteFails

World == ProgramWrites \/ ProgramExits \/ HeirExits \/ TimePasses

Peer == (\E f \in Frames : PeerSend(f)) \/ PeerTake \/ PeerClose

Next == Agent \/ World \/ Peer

Spec == Init /\ [][Next]_vars

(***************************************************************************)
(* tokio polls the reader and the session again whenever something they    *)
(* wait for is there; select! starts at a random branch, so a branch that  *)
(* is ready again and again is taken in the end (strong fairness), however *)
(* much the program writes.  Time passes.  Nothing says that a program     *)
(* writes or exits.  The peer's reading is fair only in PolitePeer.        *)
(***************************************************************************)
AgentFairness ==
    /\ WF_vars(ReadFrame) /\ WF_vars(QueueFrame)
    /\ WF_vars(Handshake \/ Serve \/ ServeEof \/ RefuseExec \/ StartExec)
    /\ SF_vars(NoticeExit) /\ SF_vars(Deadline)
    /\ SF_vars(CancelExec \/ MisplacedFrame \/ ClientGone)
    /\ WF_vars(Drained) /\ WF_vars(DrainTimeout)
    /\ WF_vars(WriteHead) /\ WF_vars(WriteBody) /\ WF_vars(HangUp)
    /\ WF_vars(WriteFails) /\ WF_vars(TimePasses)

StallingPeer == Spec /\ AgentFairness
PolitePeer   == StallingPeer /\ WF_vars(PeerTake)

----------------------------------------------------------------------------
(* Properties.                                                             *)

Job == CASE phase = "ended"                -> "gone"
         [] phase = "exec"                 -> "running"
         [] phase \in {"drain", "verdict"} -> "stopped"
         [] OTHER                          -> "idle"

C == INSTANCE SessionContract WITH Ids <- 0..MaxSends, job <- Job, cause <- end

\* The agent keeps the contract of protocol.rs: one answer per request and
\* none while a program runs, one verdict per program that names why it
\* stopped, whatever the peer sends and wherever a write is interrupted
\* (agent.rs exec, session_loop).
Contract == C!CSpec

\* No program outlives the exec that started it: outside the select loop of
\* exec, and after the session however it ended, no child runs
\* (agent.rs kill_on_drop and the kills before each break).
NoOrphan == phase # "exec" => child # "running"

Answered == {log[i].for : i \in 1..Len(log)}

\* When the session waits for the next request, every request it took has
\* had its answer sent whole, the cancels that ended an exec excepted, which
\* share the verdict's (protocol.rs:11, "each request gets exactly one
\* response").
NothingUnanswered ==
    phase = "serving" /\ out = <<>> => 1..taken = Answered \cup absorbed

\* Framing survives: only the frame being written is incomplete on the wire
\* (protocol.rs:3, "each message is a frame of a 4-byte big-endian length
\* followed by that many bytes").
FramesWhole ==
    \A i \in 1..Len(toPeer) :
        toPeer[i].whole \/ (i = Len(toPeer) /\ (midFrame \/ phase = "ended"))

\* Answers come in the order of the requests (protocol.rs:11, "in order").
AnswersInOrder ==
    \A i, j \in 1..Len(log) : i < j => log[i].for < log[j].for

\* Once the peer is gone the program stops, even one that neither writes nor
\* ends (agent.rs test client_disconnect_kills_the_program).
ClientGoneStops == ~peerOpen ~> child # "running"

\* At its deadline a program stops (protocol.rs:62, "Kill the program after
\* this many seconds").
DeadlineStops == (phase = "exec" /\ due = "due") ~> child # "running"

\* Nobody waits for ever: while the peer reads what it is sent, every frame
\* it sends is taken or the session ends, though each side writes into a
\* stream that only the other side empties.
FramesTaken ==
    \A n \in 1..MaxSends : sends >= n ~> (taken >= n \/ phase = "ended")
==============================================================================
