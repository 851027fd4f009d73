-------------------------- MODULE RemoteAgent_proofs --------------------------
(***************************************************************************)
(* Proofs about RemoteAgent, for any frames a peer may send and any sizes  *)
(* of streams and pipes: typing, that no program outlives its exec, that   *)
(* every request taken is answered, and that the agent implements          *)
(* SessionContract; and about RemoteSession, the agent with its client:    *)
(* that a call returns the answer to its own request, and that between     *)
(* calls nothing is under way.                                             *)
(***************************************************************************)
EXTENDS RemoteSession, SequenceTheorems, TLAPS

USE DEF vars, config, inward, reader, session, program, writer, ghosts

-----------------------------------------------------------------------------
(* Types.                                                                  *)

Messages == [type : Replies \cup {"Output", "Exited"}, for : Nat,
             end : Causes \cup {"none"}]
Tokens   == Requests \cup {"eof"}

\* TypeOK, with the responses typed as sequences.
Typed ==
    /\ allowExec \in BOOLEAN /\ peerOpen \in BOOLEAN /\ reading \in BOOLEAN
    /\ toAgent \in Seq(Requests) /\ sends \in Nat
    /\ held \in Seq(Tokens) /\ Len(held) <= 1
    /\ inbox \in Seq(Tokens) /\ Len(inbox) <= 1
    /\ phase \in {"handshake", "serving", "exec", "drain", "verdict",
                  "closing", "ended"}
    /\ taken \in Nat /\ current \in Nat
    /\ end \in Causes \cup {"none"}
    /\ child \in {"none", "running", "dead"} /\ heirs \in BOOLEAN
    /\ pipe \in 0..PipeRoom
    /\ due \in {"off", "armed", "due"}
    /\ midFrame \in BOOLEAN /\ absorbed \subseteq Nat
    /\ out \in Seq(Messages) /\ log \in Seq(Messages)

\* What a handler writes is a response.
LEMMA MessageTypes ==
    ASSUME NEW id \in Nat, NEW why \in Causes
    PROVE  /\ \A type \in Replies \cup {"Output"} : Msg(type, id, "none") \in Messages
           /\ Msg("Exited", id, why) \in Messages
           /\ Error(id) \in Messages
BY DEF Msg, Error, Messages, Replies

\* Sequences of one or two responses.
LEMMA ShortAnswers ==
    ASSUME NEW m \in Messages, NEW n \in Messages
    PROVE  /\ <<>> \in Seq(Messages) /\ <<m>> \in Seq(Messages)
           /\ Append(<<>>, m) = <<m>> /\ Len(<<m>>) = 1 /\ <<m>>[1] = m
           /\ Append(<<m>>, n) \in Seq(Messages) /\ Len(Append(<<m>>, n)) = 2
           /\ Append(<<m>>, n)[1] = m /\ Append(<<m>>, n)[2] = n
<1>1. /\ <<>> \in Seq(Messages) /\ <<m>> \in Seq(Messages)
      /\ Len(<<m>>) = 1 /\ <<m>>[1] = m
  OBVIOUS
<1>2. Append(<<>>, m) = <<m>>
  OBVIOUS
<1>3. Append(<<m>>, n) \in Seq(Messages) /\ Len(Append(<<m>>, n)) = 2
  BY <1>1
<1>4. Append(<<m>>, n)[1] = m /\ Append(<<m>>, n)[2] = n
  BY <1>1
<1>5. QED BY <1>1, <1>2, <1>3, <1>4

\* The empty queues of the initial state and of a session that ended.
LEMMA Empties == /\ <<>> \in Seq(Messages) /\ <<>> \in Seq(Tokens) /\ <<>> \in Seq(Requests)
                 /\ Len(<<>>) <= 1 /\ 0 \in 0..PipeRoom /\ PipeRoom \in Nat
BY BoundsAssumption

\* The typing the proofs use is the one TLC checks.
LEMMA TypedIsTypeOK == Typed => TypeOK
<1> SUFFICES ASSUME Typed PROVE TypeOK
  OBVIOUS
<1>1. \A m \in Messages : m.type \in Replies \cup {"Output", "Exited"} /\ m.for \in Nat
  BY DEF Messages
<1>2. \A i \in DOMAIN out : out[i] \in Messages
  BY DEF Typed
<1>3. \A i \in DOMAIN log : log[i] \in Messages
  BY DEF Typed
<1>4. \A m \in {out[i] : i \in DOMAIN out} \cup {log[i] : i \in DOMAIN log} : m \in Messages
  BY <1>2, <1>3
<1>5. QED BY <1>1, <1>4 DEF Typed, TypeOK, Tokens

\* The frame the session takes.
LEMMA TakenTypes ==
    ASSUME Typed, NEW f, Took(f)
    PROVE  /\ f \in Tokens /\ inbox' = <<>> /\ inbox' \in Seq(Tokens) /\ Len(inbox') <= 1
           /\ taken' \in Nat /\ taken + 1 \in Nat /\ phase # "ended" /\ out = <<>>
           /\ f # "eof" => taken' = taken + 1
BY DEF Typed, Took, Free

\* No request has come yet.
LEMMA TypedInit == Init => Typed
<1> SUFFICES ASSUME Init PROVE Typed
  OBVIOUS
<1>1. allowExec \in BOOLEAN /\ peerOpen \in BOOLEAN /\ reading \in BOOLEAN
  BY DEF Init
<1>2. heirs \in BOOLEAN /\ midFrame \in BOOLEAN
  BY DEF Init
<1>3. /\ toAgent \in Seq(Requests) /\ out \in Seq(Messages) /\ log \in Seq(Messages)
      /\ held \in Seq(Tokens) /\ Len(held) <= 1 /\ inbox \in Seq(Tokens) /\ Len(inbox) <= 1
  BY Empties DEF Init
<1>4. pipe \in 0..PipeRoom /\ absorbed \subseteq Nat
  BY Empties DEF Init
<1>5. QED BY <1>1, <1>2, <1>3, <1>4 DEF Init, Typed

\* Every handler keeps the types, whatever frame it takes.
LEMMA TypedStep == Typed /\ [Next]_vars => Typed'
<1> SUFFICES ASSUME Typed, [Next]_vars PROVE Typed'
  OBVIOUS
<1>1. ASSUME NEW f \in Frames, PeerSend(f) PROVE Typed'
  <2>1. f \in Requests /\ Append(toAgent, f) \in Seq(Requests)
    BY FramesAssumption DEF Typed
  <2>2. QED BY <1>1, <2>1 DEF Typed, PeerSend
<1>2. CASE PeerTake \/ PeerClose
  BY <1>2 DEF Typed, PeerTake, PeerClose
<1>3. CASE ReadFrame
  <2>1. toAgent # <<>> => Head(toAgent) \in Tokens /\ Tail(toAgent) \in Seq(Requests)
    BY DEF Typed, Tokens
  <2>2. \A x \in Tokens : <<x>> \in Seq(Tokens) /\ Len(<<x>>) <= 1
    OBVIOUS
  <2>3. "eof" \in Tokens
    BY DEF Tokens
  <2>4. held' \in Seq(Tokens) /\ Len(held') <= 1
    BY <1>3, <2>1, <2>2, <2>3 DEF ReadFrame
  <2>5. toAgent' \in Seq(Requests)
    BY <1>3, <2>1 DEF ReadFrame, Typed
  <2>6. QED BY <1>3, <2>4, <2>5 DEF Typed, ReadFrame
<1>4. CASE QueueFrame
  <2>1. <<>> \in Seq(Tokens) /\ Len(<<>>) <= 1
    OBVIOUS
  <2>2. QED BY <1>4, <2>1 DEF Typed, QueueFrame
<1>5. CASE Handshake
  <2>1. PICK f \in Tokens : /\ Took(f)
          /\ \/ f = "hello" /\ Answer(<<Msg("Hello", taken + 1, "none")>>, "serving") /\ UNCHANGED child
             \/ Ends
             \/ Answer(<<Error(taken + 1)>>, "closing") /\ UNCHANGED child
    BY <1>5 DEF Handshake, Tokens
  <2>2. taken + 1 \in Nat
    BY DEF Typed
  <2>3. <<Msg("Hello", taken + 1, "none")>> \in Seq(Messages) /\ <<Error(taken + 1)>> \in Seq(Messages)
    BY <2>2, MessageTypes, ShortAnswers DEF Replies, Causes
  <2>4. out' \in Seq(Messages) /\ phase' \in {"serving", "closing", "ended"}
        /\ child' \in {"none", "running", "dead"}
    BY <2>1, <2>3, Empties DEF Answer, Ends, Typed
  <2>5. inbox' \in Seq(Tokens) /\ Len(inbox') <= 1 /\ taken' \in Nat
    BY <2>1, TakenTypes
  <2>6. QED BY <1>5, <2>4, <2>5 DEF Typed, Handshake
<1>6. CASE Serve
  <2>1. PICK f \in Tokens : Took(f)
    BY <1>6 DEF Serve, Tokens, Requests
  <2>2. taken + 1 \in Nat
    BY DEF Typed
  <2>3. \A type \in Replies : <<Msg(type, taken + 1, "none")>> \in Seq(Messages)
    BY <2>2, MessageTypes, ShortAnswers DEF Causes
  <2>4. out' \in Seq(Messages) /\ phase' \in {"serving", "closing"}
    BY <1>6, <2>3 DEF Serve, Answer, Error, Replies
  <2>5. inbox' \in Seq(Tokens) /\ Len(inbox') <= 1 /\ taken' \in Nat
    BY <2>1, TakenTypes
  <2>6. QED BY <1>6, <2>4, <2>5 DEF Typed, Serve
<1>7. CASE ServeEof \/ ClientGone
  <2>1. PICK f \in Tokens : Took(f)
    BY <1>7 DEF ServeEof, ClientGone, Tokens, Requests
  <2>2. inbox' \in Seq(Tokens) /\ Len(inbox') <= 1 /\ taken' \in Nat
    BY <2>1, TakenTypes
  <2>3. QED BY <1>7, <2>2, Empties DEF Typed, ServeEof, ClientGone, Ends
<1>8. CASE RefuseExec
  <2>1. PICK f \in Tokens : Took(f)
    BY <1>8 DEF RefuseExec, Tokens, Requests
  <2>2. taken + 1 \in Nat
    BY DEF Typed
  <2>3. <<Error(taken + 1)>> \in Seq(Messages)
    BY <2>2, MessageTypes, ShortAnswers DEF Causes
  <2>4. inbox' \in Seq(Tokens) /\ Len(inbox') <= 1 /\ taken' \in Nat
    BY <2>1, TakenTypes
  <2>5. QED BY <1>8, <2>3, <2>4 DEF Typed, RefuseExec, Answer
<1>9. CASE StartExec
  <2>1. PICK f \in Tokens : Took(f)
    BY <1>9 DEF StartExec, Tokens, Requests
  <2>2. inbox' \in Seq(Tokens) /\ Len(inbox') <= 1 /\ taken' \in Nat /\ taken + 1 \in Nat
    BY <2>1, TakenTypes
  <2>3. 0 \in 0..PipeRoom
    BY BoundsAssumption
  <2>4. QED BY <1>9, <2>2, <2>3 DEF Typed, StartExec
<1>10. CASE ForwardOutput
  <2>1. <<Msg("Output", current, "none")>> \in Seq(Messages)
    BY MessageTypes, ShortAnswers DEF Typed, Causes
  <2>2. pipe - 1 \in 0..PipeRoom
    BY <1>10, BoundsAssumption DEF ForwardOutput, Typed
  <2>3. QED BY <1>10, <2>1, <2>2 DEF Typed, ForwardOutput
<1>11. CASE NoticeExit
  BY <1>11 DEF Typed, NoticeExit, Causes
<1>12. ASSUME NEW why \in Causes,
              \/ Settle(why, <<>>)
              \/ taken + 1 \in Nat /\ Settle(why, <<Error(taken + 1)>>)
       PROVE  out' \in Seq(Messages) /\ end' \in Causes /\ phase' = "verdict"
  <2>1. Msg("Exited", current, why) \in Messages
    BY MessageTypes DEF Typed
  <2>2. taken + 1 \in Nat => Error(taken + 1) \in Messages
    BY MessageTypes, <1>12
  <2>3. QED BY <1>12, <2>1, <2>2, ShortAnswers DEF Settle, Answer
<1>13. CASE Deadline
  <2>1. out' \in Seq(Messages) /\ end' \in Causes /\ phase' = "verdict"
    BY <1>12, <1>13 DEF Deadline, Causes
  <2>2. QED BY <1>13, <2>1 DEF Typed, Deadline
<1>14. CASE CancelExec
  <2>1. out' \in Seq(Messages) /\ end' \in Causes /\ phase' = "verdict"
    BY <1>12, <1>14 DEF CancelExec, Causes
  <2>2. inbox' \in Seq(Tokens) /\ Len(inbox') <= 1 /\ taken' \in Nat /\ taken + 1 \in Nat
    BY <1>14, TakenTypes DEF CancelExec
  <2>3. absorbed' \subseteq Nat
    BY <1>14, <2>2 DEF CancelExec, Typed
  <2>4. QED BY <1>14, <2>1, <2>2, <2>3 DEF Typed, CancelExec
<1>15. CASE MisplacedFrame
  <2>1. PICK f \in Tokens : Took(f)
    BY <1>15 DEF MisplacedFrame, Tokens
  <2>2. inbox' \in Seq(Tokens) /\ Len(inbox') <= 1 /\ taken' \in Nat /\ taken + 1 \in Nat
    BY <2>1, TakenTypes
  <2>3. out' \in Seq(Messages) /\ end' \in Causes /\ phase' = "verdict"
    BY <1>12, <1>15, <2>2 DEF MisplacedFrame, Causes
  <2>4. QED BY <1>15, <2>2, <2>3 DEF Typed, MisplacedFrame
<1>16. CASE Drained \/ DrainTimeout
  <2>1. out' \in Seq(Messages) /\ end' \in Causes /\ phase' = "verdict"
    BY <1>12, <1>16 DEF Drained, DrainTimeout, Causes
  <2>2. QED BY <1>16, <2>1 DEF Typed, Drained, DrainTimeout
<1>17. CASE WriteHead
  BY <1>17 DEF Typed, WriteHead
<1>18. CASE WriteBody
  <2>1. Head(out) \in Messages /\ Tail(out) \in Seq(Messages)
    BY <1>18 DEF Typed, WriteBody
  <2>2. log' \in Seq(Messages)
    BY <1>18, <2>1 DEF Typed, WriteBody
  <2>3. QED BY <1>18, <2>1, <2>2 DEF Typed, WriteBody
<1>19. CASE HangUp \/ WriteFails
  BY <1>19, Empties DEF Typed, HangUp, WriteFails, Ends
<1>20. CASE World
  <2>1. ProgramWrites => pipe' \in 0..PipeRoom
    BY Empties DEF ProgramWrites, Typed
  <2>2. CASE ProgramWrites
    BY <2>1, <2>2 DEF Typed, ProgramWrites
  <2>3. CASE ProgramExits \/ HeirExits \/ TimePasses
    BY <2>3 DEF Typed, ProgramExits, HeirExits, TimePasses
  <2>4. QED BY <1>20, <2>2, <2>3 DEF World
<1>21. CASE UNCHANGED vars
  BY <1>21 DEF Typed
<1>22. QED
  BY <1>1, <1>2, <1>3, <1>4, <1>5, <1>6, <1>7, <1>8, <1>9, <1>10, <1>11, <1>13, <1>14,
     <1>15, <1>16, <1>17, <1>18, <1>19, <1>20, <1>21 DEF Next, Agent, Peer

LEMMA TypedInvariant == Spec => []Typed
BY TypedInit, TypedStep, PTL DEF Spec

\* Every variable of the session keeps its type.
THEOREM Typing == Spec => []TypeOK
BY TypedInvariant, TypedIsTypeOK, PTL

-----------------------------------------------------------------------------
(* Programs.                                                               *)

\* A program that is running is one the select loop of exec still watches:
\* no step of the session leaves that loop without stopping it.
LEMMA OrphanStep == Typed /\ NoOrphan /\ [Next]_vars => NoOrphan'
<1> SUFFICES ASSUME Typed, NoOrphan, [Next]_vars PROVE NoOrphan'
  OBVIOUS
<1> USE DEF NoOrphan
<1>1. CASE Peer \/ ReadFrame \/ QueueFrame
  BY <1>1 DEF Peer, PeerSend, PeerTake, PeerClose, ReadFrame, QueueFrame
<1>2. CASE Handshake \/ Serve \/ ServeEof \/ RefuseExec
  BY <1>2 DEF Handshake, Serve, ServeEof, RefuseExec, Ends
<1>3. CASE StartExec
  BY <1>3 DEF StartExec
<1>4. CASE ForwardOutput \/ NoticeExit \/ Drained \/ DrainTimeout
  BY <1>4 DEF ForwardOutput, NoticeExit, Drained, DrainTimeout
<1>5. CASE Deadline \/ CancelExec \/ MisplacedFrame
  BY <1>5 DEF Deadline, CancelExec, MisplacedFrame
<1>6. CASE ClientGone \/ HangUp \/ WriteFails
  BY <1>6 DEF ClientGone, HangUp, WriteFails, Ends
<1>7. CASE WriteHead \/ WriteBody
  BY <1>7 DEF WriteHead, WriteBody
<1>8. CASE World
  BY <1>8 DEF World, ProgramWrites, ProgramExits, HeirExits, TimePasses
<1>9. CASE UNCHANGED vars
  BY <1>9
<1>10. QED BY <1>1, <1>2, <1>3, <1>4, <1>5, <1>6, <1>7, <1>8, <1>9 DEF Next, Agent

\* No program runs outside the select loop of exec: every way out of it,
\* the end of the session included, stops the program first.
THEOREM NoProgramLeft == Spec => []NoOrphan
<1>1. Init => NoOrphan
  BY DEF Init, NoOrphan
<1>2. QED BY <1>1, OrphanStep, TypedInvariant, PTL DEF Spec
-----------------------------------------------------------------------------
(* Answers.                                                                *)

IdsOf(s) == {s[i].for : i \in 1..Len(s)}

\* The requests a queue of at most two responses is for.
LEMMA ShortIds ==
    ASSUME NEW s \in Seq(Messages)
    PROVE  /\ s = <<>> => IdsOf(s) = {}
           /\ Len(s) = 1 => IdsOf(s) = {s[1].for} /\ Tail(s) = <<>>
           /\ Len(s) = 2 => /\ IdsOf(s) = {s[1].for, s[2].for}
                            /\ Len(Tail(s)) = 1 /\ Tail(s)[1] = s[2]
           /\ s # <<>> => Head(s) = s[1] /\ Head(s) \in Messages /\ Len(s) \in Nat \ {0}
           /\ Len(s) \in Nat
<1>1. s = <<>> => IdsOf(s) = {}
  BY DEF IdsOf
<1>2. Len(s) = 1 => IdsOf(s) = {s[1].for}
  <2>1. SUFFICES ASSUME Len(s) = 1 PROVE IdsOf(s) = {s[1].for}
    OBVIOUS
  <2>2. 1..Len(s) = {1}
    BY <2>1
  <2>3. QED BY <2>2 DEF IdsOf
<1>3. Len(s) = 2 => IdsOf(s) = {s[1].for, s[2].for}
  <2>1. SUFFICES ASSUME Len(s) = 2 PROVE IdsOf(s) = {s[1].for, s[2].for}
    OBVIOUS
  <2>2. 1..Len(s) = {1, 2}
    BY <2>1
  <2>3. QED BY <2>2 DEF IdsOf
<1>4. Len(s) = 1 => Tail(s) = <<>>
  <2>1. SUFFICES ASSUME Len(s) = 1 PROVE Tail(s) = <<>>
    OBVIOUS
  <2>2. s # <<>>
    BY <2>1, EmptySeq
  <2>3. Tail(s) \in Seq(Messages) /\ Len(Tail(s)) = 0
    BY <2>1, <2>2, HeadTailProperties
  <2>4. QED BY <2>3, EmptySeq
<1>5. Len(s) = 2 => Len(Tail(s)) = 1 /\ Tail(s)[1] = s[2]
  OBVIOUS
<1>6. s # <<>> => Head(s) = s[1] /\ Head(s) \in Messages /\ Len(s) \in Nat \ {0}
  OBVIOUS
<1>7. QED BY <1>1, <1>2, <1>3, <1>4, <1>5, <1>6

\* One more answer in the log answers one more request.
LEMMA AppendIds ==
    ASSUME NEW s \in Seq(Messages), NEW m \in Messages
    PROVE  IdsOf(Append(s, m)) = IdsOf(s) \cup {m.for}
<1>1. /\ Len(s) \in Nat /\ Len(Append(s, m)) = Len(s) + 1
      /\ \A i \in 1..Len(s) : Append(s, m)[i] = s[i]
      /\ Append(s, m)[Len(s) + 1] = m
  OBVIOUS
<1>2. 1..Len(Append(s, m)) = 1..Len(s) \cup {Len(s) + 1}
  BY <1>1
<1>3. QED BY <1>1, <1>2 DEF IdsOf

\* What the session has taken and not answered yet.
Owes == IdsOf(out) \cup (IF phase \in {"exec", "drain"} THEN {current} ELSE {})

\* What may be unwritten, phase by phase.
OutOK ==
    /\ phase \in {"handshake", "ended"} => out = <<>>
    /\ phase \in {"exec", "drain"} /\ out # <<>> =>
          Len(out) = 1 /\ out[1].type = "Output" /\ out[1].for = current
    /\ phase \in {"serving", "closing"} /\ out # <<>> =>
          /\ Len(out) = 1 /\ out[1].type \in Replies /\ out[1].end = "none"
          /\ out[1].for = taken /\ taken >= 1 /\ taken \notin Answered
    /\ phase = "verdict" =>
          \/ Len(out) = 1 /\ out[1] = Msg("Exited", current, end)
          \/ /\ Len(out) = 2 /\ out[1] = Error(taken) /\ out[2] = Msg("Exited", current, end)
             /\ end = "Cancelled" /\ taken \notin Answered /\ taken # current

\* The request of the program that runs or was stopped last.
CurrentOK ==
    /\ phase \in {"exec", "drain", "verdict"} => current \in 1..taken /\ current \notin Answered
    /\ phase = "drain" => end = "Exited"

Accounted == phase # "ended" => 1..taken = Answered \cup absorbed \cup Owes

AnswerInv == OutOK /\ CurrentOK /\ Answered \subseteq 1..taken /\ Accounted

\* Taking a request adds its number, which nothing has answered.
LEMMA NextRequest ==
    ASSUME Typed, AnswerInv
    PROVE  /\ taken + 1 \notin Answered /\ taken + 1 \notin 1..taken
           /\ 1..(taken + 1) = 1..taken \cup {taken + 1} /\ taken + 1 >= 1
BY DEF Typed, AnswerInv

\* A step that leaves what the invariant speaks of alone.
LEMMA AnswersUntouched ==
    ASSUME AnswerInv, UNCHANGED <<phase, taken, current, end, out, log, absorbed>>
    PROVE  AnswerInv'
BY DEF AnswerInv, OutOK, CurrentOK, Accounted, Owes, Answered, IdsOf

\* Every handler keeps the account of what is taken, answered and owed.
LEMMA AnswerStep == Typed /\ AnswerInv /\ [Next]_vars => AnswerInv'
<1> SUFFICES ASSUME Typed, AnswerInv, [Next]_vars PROVE AnswerInv'
  OBVIOUS
<1>0. /\ OutOK /\ CurrentOK /\ Answered \subseteq 1..taken /\ Accounted
      /\ out \in Seq(Messages) /\ log \in Seq(Messages) /\ taken \in Nat /\ current \in Nat
  BY DEF AnswerInv, Typed
<1>00. /\ out = <<>> => IdsOf(out) = {}
       /\ \A s : s = <<>> => IdsOf(s) = {}
  BY DEF IdsOf
<1>1. CASE Peer \/ ReadFrame \/ QueueFrame \/ World \/ WriteHead \/ UNCHANGED vars
  <2>1. UNCHANGED <<phase, taken, current, end, out, log, absorbed>>
    BY <1>1 DEF Peer, PeerSend, PeerTake, PeerClose, ReadFrame, QueueFrame, World,
       ProgramWrites, ProgramExits, HeirExits, TimePasses, WriteHead
  <2>2. QED BY <2>1, AnswersUntouched
\* The session ends: nothing is owed any more.
<1>2. ASSUME phase' = "ended", out' = <<>>, UNCHANGED log, taken' \in Nat, taken' >= taken
      PROVE  AnswerInv'
  <2>1. Answered' = Answered /\ Answered \subseteq 1..taken'
    BY <1>2, <1>0 DEF Answered
  <2>2. QED BY <1>2, <2>1 DEF AnswerInv, OutOK, CurrentOK, Accounted
\* A request is answered by one message.
<1>3. ASSUME phase \in {"handshake", "serving"}, phase' \in {"serving", "closing"},
             NEW f, f # "eof", Took(f), NEW m \in Messages, m.type \in Replies, m.end = "none",
             m.for = taken + 1, out' = <<m>>, UNCHANGED <<current, end, log, absorbed>>
      PROVE  AnswerInv'
  <2>1. taken' = taken + 1 /\ out = <<>>
    BY <1>3, TakenTypes
  <2>2. Answered' = Answered
    BY <1>3 DEF Answered
  <2>3. Len(out') = 1 /\ out'[1] = m /\ out' \in Seq(Messages)
    BY <1>3, ShortAnswers
  <2>4. IdsOf(out') = {taken + 1}
    BY <1>3, <2>3, ShortIds
  <2>5. Owes = {} /\ Owes' = {taken + 1}
    BY <1>3, <2>1, <2>4, <1>00 DEF Owes, IdsOf
  <2>6. OutOK' /\ CurrentOK'
    BY <1>3, <2>1, <2>2, <2>3, NextRequest DEF OutOK, CurrentOK
  <2>7. Accounted'
    BY <1>3, <1>0, <2>1, <2>2, <2>5, NextRequest DEF Accounted
  <2>8. Answered' \subseteq 1..taken'
    BY <1>0, <2>1, <2>2, NextRequest
  <2>9. QED BY <2>6, <2>7, <2>8 DEF AnswerInv
<1>4. CASE Handshake
  <2>1. PICK f \in Tokens : /\ Took(f)
          /\ \/ f = "hello" /\ Answer(<<Msg("Hello", taken + 1, "none")>>, "serving")
             \/ Ends
             \/ f # "eof" /\ Answer(<<Error(taken + 1)>>, "closing")
    BY <1>4 DEF Handshake, Tokens
  <2>2. phase = "handshake" /\ UNCHANGED <<current, end, log, absorbed>>
    BY <1>4 DEF Handshake
  <2>3. CASE Ends
    <3>1. taken' \in Nat /\ taken' >= taken
      BY <2>1, <1>0 DEF Took
    <3>2. QED BY <2>2, <2>3, <3>1, <1>2 DEF Ends
  <2>4. CASE f = "hello" /\ Answer(<<Msg("Hello", taken + 1, "none")>>, "serving")
    <3>1. Msg("Hello", taken + 1, "none") \in Messages
      BY MessageTypes, <1>0 DEF Replies, Causes
    <3>2. QED BY <2>1, <2>2, <2>4, <3>1, <1>3 DEF Answer, Msg, Replies
  <2>5. CASE f # "eof" /\ Answer(<<Error(taken + 1)>>, "closing")
    <3>1. Error(taken + 1) \in Messages
      BY MessageTypes, <1>0 DEF Causes
    <3>2. QED BY <2>1, <2>2, <2>5, <3>1, <1>3 DEF Answer, Msg, Error, Replies
  <2>6. QED BY <2>1, <2>3, <2>4, <2>5
<1>5. CASE Serve
  <2>1. PICK f \in Requests, type \in Replies :
          /\ Took(f) /\ f # "eof"
          /\ \/ Answer(<<Msg(type, taken + 1, "none")>>, "serving")
             \/ Answer(<<Msg(type, taken + 1, "none")>>, "closing")
    BY <1>5 DEF Serve, Requests, Replies, Error
  <2>2. Msg(type, taken + 1, "none") \in Messages
    BY MessageTypes, <1>0 DEF Causes
  <2>3. phase = "serving" /\ UNCHANGED <<current, end, log, absorbed>>
    BY <1>5 DEF Serve
  <2>4. QED BY <2>1, <2>2, <2>3, <1>3 DEF Answer, Msg
<1>6. CASE RefuseExec
  <2>1. PICK f \in Requests : Took(f) /\ f # "eof"
    BY <1>6 DEF RefuseExec, Requests
  <2>2. Error(taken + 1) \in Messages
    BY MessageTypes, <1>0 DEF Causes
  <2>3. /\ phase = "serving" /\ phase' = "serving" /\ out' = <<Error(taken + 1)>>
        /\ UNCHANGED <<current, end, log, absorbed>>
    BY <1>6 DEF RefuseExec, Answer
  <2>4. QED BY <2>1, <2>2, <2>3, <1>3 DEF Msg, Error, Replies
<1>7. CASE ServeEof \/ ClientGone \/ HangUp \/ WriteFails
  <2>1. taken' \in Nat /\ taken' >= taken
    BY <1>7, <1>0 DEF ServeEof, ClientGone, Took, HangUp, WriteFails
  <2>2. QED BY <1>7, <2>1, <1>2 DEF ServeEof, ClientGone, HangUp, WriteFails, Ends
<1>8. CASE StartExec
  <2>1. PICK f \in Requests : Took(f) /\ f # "eof"
    BY <1>8 DEF StartExec, Requests
  <2>2. taken' = taken + 1 /\ out = <<>>
    BY <2>1, TakenTypes
  <2>3. Answered' = Answered
    BY <1>8 DEF StartExec, Answered
  <2>4. Owes = {} /\ Owes' = {taken + 1}
    BY <1>8, <2>2, <1>00 DEF StartExec, Owes, IdsOf
  <2>5. OutOK' /\ CurrentOK'
    BY <1>8, <2>2, <2>3, NextRequest DEF StartExec, OutOK, CurrentOK
  <2>6. Accounted' /\ Answered' \subseteq 1..taken'
    BY <1>8, <1>0, <2>2, <2>3, <2>4, NextRequest DEF StartExec, Accounted
  <2>7. QED BY <2>5, <2>6 DEF AnswerInv
<1>9. CASE ForwardOutput
  <2> DEFINE m == Msg("Output", current, "none")
  <2>1. m \in Messages /\ m.type = "Output" /\ m.for = current
    <3>1. m \in Messages
      BY MessageTypes, <1>0 DEF Causes
    <3>2. QED BY <3>1 DEF Msg
  <2> HIDE DEF m
  <2>2. /\ phase \in {"exec", "drain"} /\ out = <<>> /\ out' = <<m>>
        /\ UNCHANGED <<phase, taken, current, end, log, absorbed>>
    BY <1>9 DEF ForwardOutput, Free, m
  <2>3. Len(out') = 1 /\ out'[1] = m /\ out' \in Seq(Messages)
    BY <2>1, <2>2, ShortAnswers
  <2>4. IdsOf(out') = {current}
    BY <2>1, <2>3, ShortIds
  <2>5. Owes' = Owes /\ Answered' = Answered
    BY <2>2, <2>4, <1>00 DEF Owes, IdsOf, Answered
  <2>6. OutOK' /\ CurrentOK'
    BY <1>0, <2>1, <2>2, <2>3, <2>5 DEF OutOK, CurrentOK
  <2>7. Accounted' /\ Answered' \subseteq 1..taken'
    BY <1>0, <2>2, <2>5 DEF Accounted
  <2>8. QED BY <2>6, <2>7 DEF AnswerInv
<1>10. CASE NoticeExit
  <2>1. /\ phase = "exec" /\ phase' = "drain" /\ out = <<>> /\ end' = "Exited"
        /\ UNCHANGED <<taken, current, out, log, absorbed>>
    BY <1>10 DEF NoticeExit, Free
  <2>2. Owes' = Owes /\ Answered' = Answered
    BY <2>1 DEF Owes, IdsOf, Answered
  <2>3. QED BY <1>0, <2>1, <2>2 DEF AnswerInv, OutOK, CurrentOK, Accounted
\* While a program runs or its pipe is drained, only its request is owed.
<1>11. phase \in {"exec", "drain"} => Owes = {current}
  <2>1. SUFFICES ASSUME phase \in {"exec", "drain"} PROVE IdsOf(out) \subseteq {current}
    BY DEF Owes
  <2>2. QED BY <2>1, <1>0, ShortIds DEF OutOK
\* The verdict is written, and nothing was taken.
<1>12. CASE Deadline \/ Drained \/ DrainTimeout
  <2>1. PICK why \in Causes : Settle(why, <<>>)
    BY <1>12 DEF Deadline, Drained, DrainTimeout, Causes
  <2>2. phase \in {"exec", "drain"} /\ UNCHANGED <<taken, current, log, absorbed>>
    BY <1>12 DEF Deadline, Drained, DrainTimeout
  <2>3. Msg("Exited", current, why) \in Messages
    BY MessageTypes, <1>0
  <2>4. /\ phase' = "verdict" /\ end' = why /\ out' = <<Msg("Exited", current, why)>>
        /\ Len(out') = 1 /\ out'[1] = Msg("Exited", current, why) /\ out' \in Seq(Messages)
    BY <2>1, <2>3, ShortAnswers DEF Settle, Answer
  <2>5. Msg("Exited", current, why).for = current
    BY DEF Msg
  <2>6. IdsOf(out') = {current}
    BY <2>4, <2>5, ShortIds
  <2>7. Owes' = {current} /\ Answered' = Answered
    BY <2>2, <2>4, <2>6 DEF Owes, IdsOf, Answered
  <2>8. OutOK' /\ CurrentOK'
    BY <1>0, <2>2, <2>4, <2>7 DEF OutOK, CurrentOK
  <2>9. Accounted' /\ Answered' \subseteq 1..taken'
    BY <1>0, <1>11, <2>2, <2>4, <2>7 DEF Accounted
  <2>10. QED BY <2>8, <2>9 DEF AnswerInv
<1>13. CASE CancelExec
  <2>1. /\ phase = "exec" /\ Took("cancel") /\ Settle("Cancelled", <<>>)
        /\ absorbed' = absorbed \cup {taken + 1} /\ UNCHANGED <<current, log>>
    BY <1>13 DEF CancelExec
  <2>2. taken' = taken + 1
    BY <2>1, TakenTypes
  <2>3. Msg("Exited", current, "Cancelled") \in Messages
    BY MessageTypes, <1>0 DEF Causes
  <2>4. /\ phase' = "verdict" /\ end' = "Cancelled" /\ Len(out') = 1
        /\ out'[1] = Msg("Exited", current, "Cancelled") /\ out' \in Seq(Messages)
    BY <2>1, <2>3, ShortAnswers DEF Settle, Answer
  <2>5. Msg("Exited", current, "Cancelled").for = current
    BY DEF Msg
  <2>6. IdsOf(out') = {current}
    BY <2>4, <2>5, ShortIds
  <2>7. Owes' = {current} /\ Answered' = Answered
    BY <2>1, <2>4, <2>6 DEF Owes, IdsOf, Answered
  <2>8. current \in 1..taken /\ current \notin Answered /\ Owes = {current}
    BY <1>0, <1>11, <2>1 DEF CurrentOK
  <2>9. OutOK' /\ CurrentOK'
    BY <2>1, <2>2, <2>4, <2>7, <2>8, NextRequest DEF OutOK, CurrentOK
  <2>10. Accounted' /\ Answered' \subseteq 1..taken'
    BY <1>0, <2>1, <2>2, <2>4, <2>7, <2>8, NextRequest DEF Accounted
  <2>11. QED BY <2>9, <2>10 DEF AnswerInv
<1>14. CASE MisplacedFrame
  <2>1. PICK f \in Requests : Took(f) /\ f # "eof"
    BY <1>14 DEF MisplacedFrame, Requests
  <2>2. /\ phase = "exec" /\ Settle("Cancelled", <<Error(taken + 1)>>)
        /\ UNCHANGED <<current, log, absorbed>> /\ taken' = taken + 1
    BY <1>14, <2>1, TakenTypes DEF MisplacedFrame
  <2>3. Msg("Exited", current, "Cancelled") \in Messages /\ Error(taken + 1) \in Messages
    BY MessageTypes, <1>0 DEF Causes
  <2>4. /\ phase' = "verdict" /\ end' = "Cancelled" /\ Len(out') = 2
        /\ out'[1] = Error(taken') /\ out'[2] = Msg("Exited", current, "Cancelled")
        /\ out' \in Seq(Messages)
    BY <2>2, <2>3, ShortAnswers DEF Settle, Answer
  <2>5. Msg("Exited", current, "Cancelled").for = current /\ Error(taken').for = taken'
    BY DEF Msg, Error
  <2>6. IdsOf(out') = {taken + 1, current}
    BY <2>2, <2>4, <2>5, ShortIds
  <2>7. Owes' = {taken + 1, current} /\ Answered' = Answered
    BY <2>2, <2>4, <2>6 DEF Owes, IdsOf, Answered
  <2>8. current \in 1..taken /\ current \notin Answered /\ Owes = {current}
    BY <1>0, <1>11, <2>2 DEF CurrentOK
  <2>9. OutOK' /\ CurrentOK'
    BY <2>2, <2>4, <2>7, <2>8, NextRequest DEF OutOK, CurrentOK
  <2>10. Accounted' /\ Answered' \subseteq 1..taken'
    BY <1>0, <2>2, <2>4, <2>7, <2>8, NextRequest DEF Accounted
  <2>11. QED BY <2>9, <2>10 DEF AnswerInv
<1>15. CASE WriteBody
  <2>1. /\ out # <<>> /\ out' = Tail(out) /\ Head(out) = out[1] /\ out[1] \in Messages
        /\ Len(out) \in Nat \ {0} /\ UNCHANGED <<taken, current, end, absorbed>>
    BY <1>15, <1>0, ShortIds DEF WriteBody
  <2>2. CASE phase \in {"exec", "drain"}
    <3>1. Len(out) = 1 /\ out[1].type = "Output"
      BY <1>0, <2>1, <2>2 DEF OutOK
    <3>2. out' = <<>> /\ phase' = phase /\ log' = log
      BY <1>15, <1>0, <2>1, <2>2, <3>1, ShortIds DEF WriteBody
    <3>3. Owes' = {current} /\ Answered' = Answered
      BY <2>1, <2>2, <3>2, <1>00 DEF Owes, IdsOf, Answered
    <3>4. QED BY <1>0, <1>11, <2>1, <2>2, <3>2, <3>3 DEF AnswerInv, OutOK, CurrentOK, Accounted
  \* What is written is the answer to out[1].for, and is not owed any more.
  <2>3. ASSUME log' = Append(log, out[1])
        PROVE  Answered' = Answered \cup {out[1].for}
    <3>1. IdsOf(log') = IdsOf(log) \cup {out[1].for}
      BY <2>3, <2>1, <1>0, AppendIds
    <3>2. QED BY <3>1 DEF Answered, IdsOf
  <2>4. CASE phase \in {"serving", "closing"}
    <3>1. /\ Len(out) = 1 /\ out[1].type \in Replies /\ out[1].for = taken /\ taken >= 1
          /\ IdsOf(out) = {taken} /\ out' = <<>>
      BY <1>0, <2>1, <2>4, ShortIds DEF OutOK
    <3>2. phase' = phase /\ log' = Append(log, out[1])
      BY <1>15, <2>1, <2>4, <3>1 DEF WriteBody, Replies
    <3>3. Answered' = Answered \cup {taken} /\ Owes = {taken} /\ Owes' = {}
      BY <2>3, <2>4, <3>1, <3>2, <1>00 DEF Owes, IdsOf
    <3>4. OutOK' /\ CurrentOK'
      BY <2>4, <3>1, <3>2 DEF OutOK, CurrentOK
    <3>5. Accounted' /\ Answered' \subseteq 1..taken'
      BY <1>0, <2>1, <3>1, <3>2, <3>3 DEF Accounted
    <3>6. QED BY <3>4, <3>5 DEF AnswerInv
  <2>5. CASE phase = "verdict" /\ Len(out) = 1
    <3>1. out[1] = Msg("Exited", current, end) /\ out' = <<>>
      BY <1>0, <2>1, <2>5, ShortIds DEF OutOK
    <3>2. out[1].for = current /\ out[1].type = "Exited" /\ IdsOf(out) = {current}
      <4>1. out[1].for = current /\ out[1].type = "Exited"
        BY <3>1 DEF Msg
      <4>2. QED BY <4>1, <2>5, <1>0, ShortIds
    <3>3. phase' = "serving" /\ log' = Append(log, out[1])
      BY <1>15, <2>1, <2>5, <3>2 DEF WriteBody
    <3>4. Answered' = Answered \cup {current} /\ Owes = {current} /\ Owes' = {}
      BY <2>3, <2>5, <3>1, <3>2, <3>3, <1>00 DEF Owes, IdsOf
    <3>5. OutOK' /\ CurrentOK'
      BY <3>1, <3>3 DEF OutOK, CurrentOK
    <3>6. current \in 1..taken
      BY <1>0, <2>5 DEF CurrentOK
    <3>7. Accounted' /\ Answered' \subseteq 1..taken'
      BY <1>0, <2>1, <2>5, <3>3, <3>4, <3>6 DEF Accounted
    <3>8. QED BY <3>5, <3>7 DEF AnswerInv
  <2>6. CASE phase = "verdict" /\ Len(out) = 2
    <3>1. /\ out[1] = Error(taken) /\ out[2] = Msg("Exited", current, end)
          /\ taken \notin Answered /\ taken # current /\ end = "Cancelled"
      BY <1>0, <2>6 DEF OutOK
    <3>2. /\ out[1].for = taken /\ out[1].type = "Error" /\ out[2].for = current
      BY <3>1 DEF Msg, Error
    <3>3. /\ IdsOf(out) = {taken, current} /\ out' \in Seq(Messages)
          /\ Len(out') = 1 /\ out'[1] = out[2]
      BY <1>0, <2>1, <2>6, <3>2, ShortIds
    <3>4. IdsOf(out') = {current}
      BY <3>2, <3>3, ShortIds
    <3>5. phase' = "verdict" /\ log' = Append(log, out[1])
      BY <1>15, <2>1, <2>6, <3>2 DEF WriteBody
    <3>6. Answered' = Answered \cup {taken} /\ Owes = {taken, current} /\ Owes' = {current}
      BY <2>3, <2>6, <3>2, <3>3, <3>4, <3>5 DEF Owes, IdsOf
    <3>7. current \in 1..taken /\ current \notin Answered /\ taken \in 1..taken
      BY <1>0, <2>6 DEF CurrentOK
    <3>8. OutOK' /\ CurrentOK'
      BY <2>1, <3>1, <3>3, <3>5, <3>6, <3>7 DEF OutOK, CurrentOK
    <3>9. Accounted' /\ Answered' \subseteq 1..taken'
      BY <1>0, <2>1, <2>6, <3>5, <3>6, <3>7 DEF Accounted
    <3>10. QED BY <3>8, <3>9 DEF AnswerInv
  <2>7. phase \in {"exec", "drain", "serving", "closing", "verdict"}
    BY <2>1, <1>0 DEF OutOK, Typed
  <2>8. phase = "verdict" => Len(out) \in {1, 2}
    BY <1>0 DEF OutOK
  <2>9. QED BY <2>2, <2>4, <2>5, <2>6, <2>7, <2>8
<1>16. QED
  BY <1>1, <1>4, <1>5, <1>6, <1>7, <1>8, <1>9, <1>10, <1>12, <1>13, <1>14, <1>15
  DEF Next, Agent

LEMMA AnswerInit == Init => AnswerInv
<1> SUFFICES ASSUME Init PROVE AnswerInv
  OBVIOUS
<1>1. Answered = {} /\ Owes = {} /\ 1..taken = {}
  BY DEF Init, Answered, Owes, IdsOf
<1>2. QED BY <1>1 DEF Init, AnswerInv, OutOK, CurrentOK, Accounted

\* The account holds from the handshake to the end of the session.
LEMMA AnswerInvariant == Spec => []AnswerInv
BY AnswerInit, AnswerStep, TypedInvariant, PTL DEF Spec

\* Whenever the session waits for a request, it has answered every request
\* it took, the cancels that ended an exec excepted.
THEOREM EveryRequestAnswered == Spec => []NothingUnanswered
<1>1. AnswerInv => NothingUnanswered
  BY DEF AnswerInv, Accounted, NothingUnanswered, Owes, IdsOf
<1>2. QED BY <1>1, AnswerInvariant, PTL
-----------------------------------------------------------------------------
(* The contract.                                                           *)

\* 1 for a queue of the reader that holds a frame, 0 for none or for eof.
Real(q) == IF q # <<>> /\ Head(q) # "eof" THEN 1 ELSE 0

\* Every frame taken or on its way to the session was sent.
Counted == /\ taken + Real(inbox) + Real(held) + Len(toAgent) <= sends
           /\ sends <= MaxSends

\* How many frames a queue of the reader counts for.
LEMMA RealTypes ==
    /\ \A q : Real(q) \in {0, 1}
    /\ Real(<<>>) = 0
    /\ \A f : f # "eof" => Real(<<f>>) = 1
    /\ Real(<<"eof">>) = 0
<1>1. \A q : Real(q) \in {0, 1}
  BY DEF Real
<1>2. Real(<<>>) = 0
  BY DEF Real
<1>3. \A f : Head(<<f>>) = f /\ <<f>> # <<>>
  OBVIOUS
<1>4. QED BY <1>1, <1>2, <1>3 DEF Real

\* A step that takes the frame in the channel, if it takes any.
LEMMA TakingCounts ==
    ASSUME Typed, Counted, NEW f, Took(f), UNCHANGED <<toAgent, sends, held>>
    PROVE  Counted' /\ (f # "eof" => taken + 1 \in 0..MaxSends)
<1>1. /\ taken \in Nat /\ sends \in Nat /\ MaxSends \in Nat /\ Len(toAgent) \in Nat
      /\ Real(inbox) \in {0, 1} /\ Real(held) \in {0, 1}
  BY RealTypes, BoundsAssumption DEF Typed
<1>2. f # "eof" => Real(inbox) = 1
  BY DEF Took, Real
<1>3. Real(inbox') = 0 /\ Real(held') = Real(held)
  BY RealTypes DEF Took
<1>4. QED BY <1>1, <1>2, <1>3 DEF Counted, Took

\* The session never takes more frames than the peer sent.
LEMMA CountedInvariant == Spec => []Counted
<1>1. Init => Counted
  <2> SUFFICES ASSUME Init PROVE Counted
    OBVIOUS
  <2>1. Real(inbox) = 0 /\ Real(held) = 0 /\ Len(toAgent) = 0
    BY RealTypes DEF Init
  <2>2. QED BY <2>1, BoundsAssumption DEF Init, Counted
<1>2. Typed /\ Counted /\ [Next]_vars => Counted'
  <2> SUFFICES ASSUME Typed, Counted, [Next]_vars PROVE Counted'
    OBVIOUS
  <2>0. /\ taken \in Nat /\ sends \in Nat /\ MaxSends \in Nat /\ Len(toAgent) \in Nat
        /\ Real(inbox) \in {0, 1} /\ Real(held) \in {0, 1} /\ toAgent \in Seq(Requests)
    BY RealTypes, BoundsAssumption DEF Typed
  <2>1. ASSUME NEW f \in Frames, PeerSend(f) PROVE Counted'
    <3>1. Len(Append(toAgent, f)) = Len(toAgent) + 1
      BY <2>0, FramesAssumption
    <3>2. QED BY <2>0, <2>1, <3>1 DEF PeerSend, Counted, Real
  <2>2. CASE ReadFrame
    <3>1. Real(held) = 0
      BY <2>2, RealTypes DEF ReadFrame
    <3>2. CASE toAgent # <<>>
      <4>1. Len(toAgent') = Len(toAgent) - 1
        BY <2>0, <2>2, <3>2 DEF ReadFrame
      <4>2. Real(held') \in {0, 1} /\ Real(inbox') = Real(inbox)
        BY <2>2, RealTypes DEF ReadFrame
      <4>3. QED BY <2>0, <2>2, <3>1, <4>1, <4>2 DEF ReadFrame, Counted
    <3>3. CASE toAgent = <<>>
      <4>1. Real(held') = 0 /\ Real(inbox') = Real(inbox) /\ UNCHANGED <<toAgent, sends, taken>>
        BY <2>2, <3>3, RealTypes DEF ReadFrame
      <4>2. QED BY <2>0, <3>1, <4>1 DEF Counted
    <3>4. QED BY <3>2, <3>3
  <2>3. CASE QueueFrame
    <3>1. Real(inbox) = 0 /\ Real(inbox') = Real(held) /\ Real(held') = 0
      BY <2>3, RealTypes DEF QueueFrame
    <3>2. QED BY <2>0, <2>3, <3>1 DEF QueueFrame, Counted
  <2>4. CASE Handshake \/ Serve \/ ServeEof \/ RefuseExec \/ StartExec
             \/ CancelExec \/ MisplacedFrame \/ ClientGone
    <3>1. PICK f \in Tokens : Took(f)
      BY <2>4 DEF Handshake, Serve, ServeEof, RefuseExec, StartExec, CancelExec,
         MisplacedFrame, ClientGone, Tokens, Requests
    <3>2. UNCHANGED <<toAgent, sends, held>>
      BY <2>4 DEF Handshake, Serve, ServeEof, RefuseExec, StartExec, CancelExec,
         MisplacedFrame, ClientGone
    <3>3. QED BY <3>1, <3>2, TakingCounts
  <2>5. CASE \/ PeerTake \/ PeerClose \/ World \/ UNCHANGED vars
             \/ ForwardOutput \/ NoticeExit \/ Deadline \/ Drained \/ DrainTimeout
             \/ WriteHead \/ WriteBody \/ HangUp \/ WriteFails
    <3>1. UNCHANGED <<taken, inbox, held, toAgent, sends>>
      BY <2>5 DEF PeerTake, PeerClose, World, ProgramWrites, ProgramExits, HeirExits,
         TimePasses, ForwardOutput, NoticeExit, Deadline, Drained, DrainTimeout,
         WriteHead, WriteBody, HangUp, WriteFails
    <3>2. QED BY <3>1 DEF Counted, Real
  <2>6. QED BY <2>1, <2>2, <2>3, <2>4, <2>5 DEF Next, Agent, Peer
<1>3. QED BY <1>1, <1>2, TypedInvariant, PTL DEF Spec

\* A number nothing has answered may be answered next.
LEMMA Unanswered ==
    ASSUME NEW id, id \notin Answered
    PROVE  \A i \in 1..Len(log) : log[i].for # id
BY DEF Answered

\* The phases in which the agent is idle to the peer.
LEMMA IdlePhases ==
    ASSUME Typed
    PROVE  /\ Job = "idle" <=> phase \in {"handshake", "serving", "closing"}
           /\ Job = "running" <=> phase = "exec"
           /\ Job = "stopped" <=> phase \in {"drain", "verdict"}
           /\ Job = "gone" <=> phase = "ended"
BY DEF Typed, Job

\* Every step of the agent is one of the contract, or changes nothing the
\* contract speaks of.
LEMMA ContractStep ==
    Typed /\ Typed' /\ Counted /\ AnswerInv /\ [Next]_vars => [C!CNext]_(C!cvars)
<1> SUFFICES ASSUME Typed, Typed', Counted, AnswerInv, [Next]_vars
             PROVE  C!CNext \/ UNCHANGED C!cvars
  OBVIOUS
<1>0. /\ OutOK /\ CurrentOK /\ Answered \subseteq 1..taken
      /\ out \in Seq(Messages) /\ taken \in Nat /\ current \in Nat
  BY DEF AnswerInv, Typed
<1>1. /\ Job' = "idle" <=> phase' \in {"handshake", "serving", "closing"}
      /\ Job' = "running" <=> phase' = "exec"
      /\ Job' = "stopped" <=> phase' \in {"drain", "verdict"}
      /\ Job' = "gone" <=> phase' = "ended"
  BY DEF Typed, Job
<1>2. ASSUME UNCHANGED <<phase, current, end, log>> PROVE UNCHANGED C!cvars
  BY <1>2 DEF C!cvars, Job
<1>3. CASE Peer \/ ReadFrame \/ QueueFrame \/ World \/ WriteHead \/ ForwardOutput
           \/ UNCHANGED vars
  <2>1. UNCHANGED <<phase, current, end, log>>
    BY <1>3 DEF Peer, PeerSend, PeerTake, PeerClose, ReadFrame, QueueFrame, World,
       ProgramWrites, ProgramExits, HeirExits, TimePasses, WriteHead, ForwardOutput
  <2>2. QED BY <2>1, <1>2
\* The session ends.
<1>4. ASSUME phase # "ended", phase' = "ended", UNCHANGED <<current, end, log>>
      PROVE  C!CNext
  <2>1. C!Vanish
    BY <1>1, <1>4, IdlePhases DEF C!Vanish
  <2>2. QED BY <2>1 DEF C!CNext
\* A request is taken and its answer waits to be written.
<1>5. ASSUME phase \in {"handshake", "serving"}, phase' \in {"serving", "closing"},
             UNCHANGED <<current, end, log>>
      PROVE  UNCHANGED C!cvars
  BY <1>1, <1>5, IdlePhases DEF C!cvars
<1>6. CASE Handshake
  <2>1. /\ phase = "handshake" /\ phase' \in {"serving", "closing", "ended"}
        /\ UNCHANGED <<current, end, log>>
    BY <1>6 DEF Handshake, Answer, Ends
  <2>2. QED BY <2>1, <1>4, <1>5
<1>7. CASE Serve \/ RefuseExec
  <2>1. /\ phase = "serving" /\ phase' \in {"serving", "closing"}
        /\ UNCHANGED <<current, end, log>>
    BY <1>7 DEF Serve, RefuseExec, Answer
  <2>2. QED BY <2>1, <1>5
<1>8. CASE ServeEof \/ ClientGone \/ HangUp \/ WriteFails
  <2>1. phase # "ended"
    BY <1>8, <1>0 DEF ServeEof, ClientGone, HangUp, WriteFails, OutOK
  <2>2. phase' = "ended" /\ UNCHANGED <<current, end, log>>
    BY <1>8 DEF ServeEof, ClientGone, HangUp, WriteFails, Ends
  <2>3. QED BY <2>1, <2>2, <1>4
<1>9. CASE StartExec
  <2>1. PICK f \in Requests : Took(f) /\ f # "eof"
    BY <1>9 DEF StartExec, Requests
  <2>2. taken + 1 \in 0..MaxSends
    BY <1>9, <2>1, TakingCounts DEF StartExec
  <2>3. /\ phase = "serving" /\ phase' = "exec" /\ current' = taken + 1 /\ end' = "none"
        /\ UNCHANGED log
    BY <1>9 DEF StartExec
  <2>4. C!Fresh(taken + 1)
    BY <2>3, NextRequest, Unanswered, IdlePhases DEF C!Fresh
  <2>5. C!Start(taken + 1)
    BY <2>3, <2>4, <1>1, IdlePhases DEF C!Start
  <2>6. QED BY <2>2, <2>5 DEF C!CNext
\* A running program is stopped.
<1>10. ASSUME phase = "exec", phase' \in {"drain", "verdict"}, NEW why \in Causes,
              end' = why, UNCHANGED <<current, log>>
       PROVE  C!CNext
  <2>1. C!Stop(why)
    BY <1>1, <1>10, IdlePhases DEF C!Stop
  <2>2. QED BY <2>1 DEF C!CNext
<1>11. CASE NoticeExit \/ Deadline \/ CancelExec \/ MisplacedFrame
  <2>1. /\ phase = "exec" /\ phase' \in {"drain", "verdict"} /\ end' \in Causes
        /\ UNCHANGED <<current, log>>
    BY <1>11 DEF NoticeExit, Deadline, CancelExec, MisplacedFrame, Settle, Answer, Causes
  <2>2. QED BY <2>1, <1>10
<1>12. CASE Drained \/ DrainTimeout
  <2>1. /\ phase = "drain" /\ phase' = "verdict" /\ end' = "Exited"
        /\ UNCHANGED <<current, log>>
    BY <1>12 DEF Drained, DrainTimeout, Settle, Answer
  <2>2. end = "Exited"
    BY <2>1, <1>0 DEF CurrentOK
  <2>3. QED BY <2>1, <2>2, <1>1, IdlePhases DEF C!cvars
<1>13. CASE WriteBody
  <2>1. /\ out # <<>> /\ Head(out) = out[1] /\ out[1] \in Messages
        /\ Len(out) \in Nat \ {0} /\ UNCHANGED <<taken, current, end>>
    BY <1>13, <1>0, ShortIds DEF WriteBody
  <2>2. taken \in 0..MaxSends
    <3>1. Real(inbox) \in {0, 1} /\ Real(held) \in {0, 1}
      BY RealTypes
    <3>2. Len(toAgent) \in Nat /\ sends \in Nat /\ MaxSends \in Nat
      BY BoundsAssumption DEF Typed
    <3>3. taken + Real(inbox) + Real(held) + Len(toAgent) <= sends /\ sends <= MaxSends
      BY DEF Counted
    <3>4. QED BY <3>1, <3>2, <3>3, <1>0
  <2>3. CASE phase \in {"exec", "drain"}
    <3>1. Len(out) = 1 /\ out[1].type = "Output"
      BY <1>0, <2>1, <2>3 DEF OutOK
    <3>2. UNCHANGED <<phase, current, end, log>>
      BY <1>13, <2>1, <2>3, <3>1 DEF WriteBody
    <3>3. QED BY <3>2, <1>2
  <2>4. CASE phase \in {"serving", "closing"}
    <3>1. /\ Len(out) = 1 /\ out[1].type \in Replies /\ out[1].for = taken
          /\ out[1].end = "none" /\ taken \notin Answered
      BY <1>0, <2>1, <2>4 DEF OutOK
    <3>2. phase' = phase /\ log' = Append(log, out[1])
      BY <1>13, <2>1, <2>4, <3>1 DEF WriteBody, Replies
    <3>3. out[1] = [type |-> out[1].type, for |-> taken, end |-> "none"]
      BY <2>1, <3>1 DEF Messages
    <3>4. C!Fresh(taken)
      BY <2>4, <3>1, Unanswered, IdlePhases DEF C!Fresh
    <3>5. C!Reply(taken, out[1].type)
      BY <2>1, <2>4, <3>2, <3>3, <3>4, <1>1, IdlePhases DEF C!Reply, C!Say
    <3>6. QED BY <2>2, <3>1, <3>5 DEF C!CNext
  <2>5. CASE phase = "verdict" /\ Len(out) = 1
    <3>1. out[1] = [type |-> "Exited", for |-> current, end |-> end]
      BY <1>0, <2>5 DEF OutOK, Msg
    <3>2. phase' = "serving" /\ log' = Append(log, out[1])
      BY <1>13, <2>1, <2>5, <3>1 DEF WriteBody
    <3>3. C!Tell
      BY <2>1, <2>5, <3>1, <3>2, <1>1, IdlePhases DEF C!Tell, C!Say
    <3>4. QED BY <3>3 DEF C!CNext
  <2>6. CASE phase = "verdict" /\ Len(out) = 2
    <3>1. /\ out[1] = [type |-> "Error", for |-> taken, end |-> "none"]
          /\ end = "Cancelled" /\ taken \notin Answered /\ taken # current
      BY <1>0, <2>6 DEF OutOK, Error, Msg
    <3>2. phase' = "verdict" /\ log' = Append(log, out[1])
      BY <1>13, <2>1, <2>6, <3>1 DEF WriteBody
    <3>3. C!Fresh(taken)
      BY <3>1, Unanswered DEF C!Fresh
    <3>4. C!Complain(taken)
      BY <2>1, <2>6, <3>1, <3>2, <3>3, <1>1, IdlePhases DEF C!Complain, C!Say
    <3>5. QED BY <2>2, <3>4 DEF C!CNext
  <2>7. phase \in {"exec", "drain", "serving", "closing", "verdict"}
    BY <2>1, <1>0 DEF OutOK, Typed
  <2>8. phase = "verdict" => Len(out) \in {1, 2}
    BY <1>0 DEF OutOK
  <2>9. QED BY <2>3, <2>4, <2>5, <2>6, <2>7, <2>8
<1>14. QED
  BY <1>3, <1>6, <1>7, <1>8, <1>9, <1>11, <1>12, <1>13 DEF Next, Agent

\* The agent implements SessionContract: its visible answers are those of a
\* session that answers each request once, runs one program at a time and
\* gives each program one verdict.
THEOREM AgentKeepsContract == Spec => Contract
<1>1. Init => C!CInit
  BY DEF Init, C!CInit, Job
<1>2. QED
  BY <1>1, ContractStep, TypedInvariant, CountedInvariant, AnswerInvariant, PTL
  DEF Spec, Contract, C!CSpec

-----------------------------------------------------------------------------
(* The session with its client.  What the client reads are the answers     *)
(* that lie whole on the stream to it; the requests they are for, in the   *)
(* order in which they lie there.                                          *)

Parcels == [msg : Messages, whole : BOOLEAN]
AnswersAt(s) == {i \in 1..Len(s) : s[i].whole /\ s[i].msg.type # "Output"}
AnswersTo(s) == {s[i].msg.for : i \in AnswersAt(s)}
Ordered(s) == \A i, j \in AnswersAt(s) : i < j => s[i].msg.for < s[j].msg.for

\* The client takes what lies first.
LEMMA ParcelTaken ==
    ASSUME NEW s \in Seq(Parcels), s # <<>>, NEW t, t = Tail(s), NEW p, p = Head(s)
    PROVE  /\ t \in Seq(Parcels) /\ Len(t) = Len(s) - 1 /\ p \in Parcels
           /\ Len(t) > 0 => t[Len(t)] = s[Len(s)]
           /\ ~(p.whole /\ p.msg.type # "Output") => AnswersTo(t) = AnswersTo(s)
           /\ p.whole /\ p.msg.type # "Output" =>
                /\ AnswersTo(s) = AnswersTo(t) \cup {p.msg.for}
                /\ Ordered(s) => \A x \in AnswersTo(t) : p.msg.for < x
           /\ Ordered(s) => Ordered(t)
<1>1. PICK n \in Nat : n = Len(s)
  OBVIOUS
<1>2. /\ n >= 1 /\ t \in Seq(Parcels) /\ Len(t) = n - 1 /\ p = s[1] /\ p \in Parcels
      /\ \A i \in 1..(n - 1) : t[i] = s[i + 1]
  BY <1>1
<1>3. \A i \in 1..(n - 1) : i \in AnswersAt(t) <=> i + 1 \in AnswersAt(s)
  BY <1>1, <1>2 DEF AnswersAt
<1>4. \A i \in AnswersAt(t) : i \in 1..(n - 1)
  BY <1>2 DEF AnswersAt
<1>5. \A j \in AnswersAt(s) : j = 1 \/ \E i \in 1..(n - 1) : j = i + 1
  <2>1. \A j \in 1..n : j = 1 \/ (j - 1 \in 1..(n - 1) /\ j = (j - 1) + 1)
    OBVIOUS
  <2>2. QED BY <1>1, <2>1 DEF AnswersAt
<1>6. AnswersTo(t) \subseteq AnswersTo(s)
  BY <1>2, <1>3, <1>4 DEF AnswersTo
<1>7. 1 \in AnswersAt(s) <=> p.whole /\ p.msg.type # "Output"
  BY <1>1, <1>2 DEF AnswersAt
<1>8. ASSUME NEW x \in AnswersTo(s) PROVE x \in AnswersTo(t) \/ (1 \in AnswersAt(s) /\ x = p.msg.for)
  <2>1. PICK j \in AnswersAt(s) : x = s[j].msg.for
    BY DEF AnswersTo
  <2>2. CASE j = 1
    BY <1>2, <2>1, <2>2
  <2>3. CASE j # 1
    <3>1. PICK i \in 1..(n - 1) : j = i + 1
      BY <1>5, <2>3
    <3>2. QED BY <1>2, <1>3, <2>1, <3>1 DEF AnswersTo
  <2>4. QED BY <2>2, <2>3
<1>9. 1 \in AnswersAt(s) => p.msg.for \in AnswersTo(s)
  BY <1>2 DEF AnswersTo
<1>10. ASSUME Ordered(s) PROVE Ordered(t)
  <2>1. ASSUME NEW i \in AnswersAt(t), NEW j \in AnswersAt(t), i < j
        PROVE  t[i].msg.for < t[j].msg.for
    <3>1. i \in 1..(n - 1) /\ j \in 1..(n - 1) /\ i + 1 < j + 1
      BY <1>4, <2>1
    <3>2. i + 1 \in AnswersAt(s) /\ j + 1 \in AnswersAt(s)
      BY <1>3, <2>1, <3>1
    <3>3. QED BY <1>2, <1>10, <3>1, <3>2 DEF Ordered
  <2>2. QED BY <2>1 DEF Ordered
<1>11. ASSUME Ordered(s), 1 \in AnswersAt(s), NEW x \in AnswersTo(t) PROVE p.msg.for < x
  <2>1. PICK i \in AnswersAt(t) : x = t[i].msg.for
    BY DEF AnswersTo
  <2>2. i \in 1..(n - 1) /\ i + 1 \in AnswersAt(s) /\ 1 < i + 1
    BY <1>3, <1>4, <2>1
  <2>3. QED BY <1>2, <1>11, <2>1, <2>2 DEF Ordered
<1>12. Len(t) > 0 => t[Len(t)] = s[Len(s)]
  <2>1. SUFFICES ASSUME n - 1 > 0 PROVE t[n - 1] = s[n]
    BY <1>1, <1>2
  <2>2. n - 1 \in 1..(n - 1) /\ (n - 1) + 1 = n
    BY <2>1
  <2>3. QED BY <1>2, <2>2
<1>13. QED BY <1>1, <1>2, <1>6, <1>7, <1>8, <1>9, <1>10, <1>11, <1>12

\* The head of a frame is written: no answer yet.
LEMMA HeadWritten ==
    ASSUME NEW s \in Seq(Parcels), NEW m \in Messages,
           NEW t, t = Append(s, [msg |-> m, whole |-> FALSE])
    PROVE  /\ t \in Seq(Parcels) /\ t # <<>> /\ t[Len(t)] = [msg |-> m, whole |-> FALSE]
           /\ AnswersTo(t) = AnswersTo(s) /\ (Ordered(s) => Ordered(t))
<1>1. PICK p \in Parcels : p = [msg |-> m, whole |-> FALSE]
  BY DEF Parcels
<1>2. PICK n \in Nat : n = Len(s)
  OBVIOUS
<1>3. /\ t \in Seq(Parcels) /\ Len(t) = n + 1 /\ t[n + 1] = p
      /\ \A i \in 1..n : t[i] = s[i]
  BY <1>1, <1>2
<1>4. ~p.whole
  BY <1>1
<1>5. AnswersAt(t) = AnswersAt(s)
  <2>1. 1..(n + 1) = 1..n \cup {n + 1}
    OBVIOUS
  <2>2. QED BY <1>2, <1>3, <1>4, <2>1 DEF AnswersAt
<1>6. \A i \in AnswersAt(s) : t[i] = s[i]
  BY <1>2, <1>3 DEF AnswersAt
<1>7. t # <<>> /\ t[Len(t)] = p
  BY <1>3
<1>8. QED BY <1>1, <1>3, <1>5, <1>6, <1>7 DEF AnswersTo, Ordered

\* One place of a sequence changes.
LEMMA PlaceChanged ==
    ASSUME NEW S, NEW s \in Seq(S), NEW n \in 1..Len(s), NEW p \in S,
           NEW t, t = [s EXCEPT ![n] = p]
    PROVE  /\ t \in Seq(S) /\ Len(t) = Len(s) /\ t[n] = p
           /\ \A i \in 1..Len(s) : i # n => t[i] = s[i]
OBVIOUS

\* One field of a parcel changes.
LEMMA FieldChanged ==
    ASSUME NEW m, NEW a, NEW b, NEW q, q = [msg |-> m, whole |-> a]
    PROVE  [q EXCEPT !.whole = b] = [msg |-> m, whole |-> b]
OBVIOUS

BodyOf(t, s, m) == /\ s # <<>> /\ s[Len(s)] = [msg |-> m, whole |-> FALSE]
                   /\ t = [s EXCEPT ![Len(s)].whole = TRUE]

\* Its body is written: if it is an answer, it is one now.
LEMMA BodyWritten ==
    ASSUME NEW s \in Seq(Parcels), NEW m \in Messages, NEW t, BodyOf(t, s, m)
    PROVE  /\ t \in Seq(Parcels)
           /\ m.type = "Output" => AnswersTo(t) = AnswersTo(s) /\ (Ordered(s) => Ordered(t))
           /\ m.type # "Output" =>
                /\ AnswersTo(t) = AnswersTo(s) \cup {m.for}
                /\ Ordered(s) /\ (\A x \in AnswersTo(s) : x < m.for) => Ordered(t)
<1> USE DEF BodyOf
<1>1. PICK n \in Nat \ {0} : n = Len(s)
  OBVIOUS
<1>2. PICK p \in Parcels : p = [msg |-> m, whole |-> TRUE]
  BY DEF Parcels
<1>3. t = [s EXCEPT ![n] = [s[n] EXCEPT !.whole = TRUE]]
  BY <1>1
<1>4. [s[n] EXCEPT !.whole = TRUE] = p
  <2>1. PICK q : q = s[n]
    OBVIOUS
  <2>2. q = [msg |-> m, whole |-> FALSE]
    BY <1>1, <2>1
  <2>3. [q EXCEPT !.whole = TRUE] = [msg |-> m, whole |-> TRUE]
    BY ONLY <2>2, FieldChanged
  <2>4. QED BY <1>2, <2>1, <2>3
<1>5. t = [s EXCEPT ![n] = p]
  BY <1>3, <1>4
<1>6. /\ t \in Seq(Parcels) /\ Len(t) = n /\ t[n] = p
      /\ \A i \in 1..n : i # n => t[i] = s[i]
  <2>1. s \in Seq(Parcels) /\ n \in 1..Len(s)
    BY <1>1
  <2>2. QED BY ONLY <1>1, <1>5, <2>1, p \in Parcels, PlaceChanged
<1>7. p.whole /\ p.msg = m /\ ~s[n].whole
  BY <1>1, <1>2
<1>8. n \notin AnswersAt(s)
  BY <1>7 DEF AnswersAt
<1>9. \A i \in AnswersAt(s) : i \in 1..n /\ i < n /\ t[i] = s[i] /\ i \in AnswersAt(t)
  <2>1. \A i \in 1..n : i # n => i < n
    OBVIOUS
  <2>2. QED BY <1>1, <1>6, <1>8, <2>1 DEF AnswersAt
<1>10. \A i \in AnswersAt(t) : i = n \/ i \in AnswersAt(s)
  BY <1>1, <1>6 DEF AnswersAt
<1>11. n \in AnswersAt(t) <=> m.type # "Output"
  BY <1>1, <1>6, <1>7 DEF AnswersAt
<1>12. CASE m.type = "Output"
  BY <1>6, <1>9, <1>10, <1>11, <1>12 DEF AnswersTo, Ordered
<1>13. CASE m.type # "Output"
  <2>1. AnswersTo(t) = AnswersTo(s) \cup {m.for}
    <3>1. \A i \in AnswersAt(s) : i \in AnswersAt(t) /\ t[i].msg.for = s[i].msg.for
      BY <1>9
    <3>2. n \in AnswersAt(t) /\ t[n].msg.for = m.for
      BY <1>6, <1>7, <1>11, <1>13
    <3>3. QED BY <1>10, <3>1, <3>2 DEF AnswersTo
  <2>2. ASSUME Ordered(s), \A x \in AnswersTo(s) : x < m.for PROVE Ordered(t)
    <3>1. ASSUME NEW i \in AnswersAt(t), NEW j \in AnswersAt(t), i < j
          PROVE  t[i].msg.for < t[j].msg.for
      <4>1. i # n /\ i \in AnswersAt(s)
        <5>1. i \in 1..n /\ j \in 1..n
          BY <1>6 DEF AnswersAt
        <5>2. i # n
          <6>1. n \in Nat
            OBVIOUS
          <6>2. QED BY ONLY <3>1, <5>1, <6>1
        <5>3. QED BY <1>10, <5>2
      <4>2. CASE j = n
        BY <1>6, <1>7, <1>9, <2>2, <4>1, <4>2 DEF AnswersTo
      <4>3. CASE j # n
        BY <1>9, <1>10, <2>2, <3>1, <4>1, <4>3 DEF Ordered
      <4>4. QED BY <4>2, <4>3
    <3>2. QED BY <3>1 DEF Ordered
  <2>3. QED BY <1>6, <1>13, <2>1, <2>2
<1>14. QED BY <1>12, <1>13

-----------------------------------------------------------------------------
(* What lies between client and agent while the client may still be        *)
(* answered: its request and the cancel of it that may follow, each in one *)
(* place, and the answers to them in their order.                          *)

Waiting   == cpc \in {"await", "exec", "cancelling"}
Listening == peerOpen /\ ~garbled /\ (Waiting \/ cpc \in {"new", "ready"})

\* The client has sent its latest call, and one cancel at most after it.
Numbered ==
    /\ call \in Nat
    /\ cpc \in {"new", "ready", "await"} => ~cancelled
    /\ cpc = "cancelling" => cancelled
    /\ sends = IF cancelled /\ cpc # "cancelling" THEN call + 1 ELSE call

\* Every frame not taken yet is on the stream, in the reader's hand or in its
\* channel, in that order, and those after the call are cancels.
Underway ==
    /\ sends = taken + Len(inbox) + Len(held) + Len(toAgent)
    /\ \A i \in 1..Len(toAgent) :
          taken + Len(inbox) + Len(held) + i > call => toAgent[i] = "cancel"
    /\ held # <<>> => /\ held[1] # "eof"
                      /\ taken + Len(inbox) + 1 > call => held[1] = "cancel"
    /\ inbox # <<>> => inbox[1] # "eof" /\ (taken + 1 > call => inbox[1] = "cancel")

\* The frame being written is the last on the stream, and one response at a
\* time waits to be written.
Writing ==
    /\ toPeer \in Seq(Parcels) /\ Len(out) <= 1
    /\ midFrame => out # <<>> \/ phase = "ended"
    /\ midFrame /\ out # <<>> =>
          toPeer # <<>> /\ toPeer[Len(toPeer)] = [msg |-> out[1], whole |-> FALSE]

\* Between calls nothing is asked, owed or on its way.
Resting ==
    ~Waiting => /\ taken = call /\ AnswersTo(toPeer) = {} /\ out = <<>>
                /\ phase \notin {"exec", "drain"}

\* The answers on the stream: the call's, then the cancel's.
Arriving ==
    Waiting => LET came == AnswersTo(toPeer)
               IN  /\ Ordered(toPeer)
                   /\ came = {} \/ came = {call} \/ (came = {call, call + 1} /\ taken = call + 1)
                   /\ taken < call => came = {}

\* The answer the session still owes.
Owing ==
    Waiting => LET came == AnswersTo(toPeer)
               IN  /\ call <= taken + 1
                   /\ out # <<>> /\ out[1].type # "Output" =>
                        \/ out[1].for = call /\ taken >= call /\ came = {}
                        \/ out[1].for = call + 1 /\ taken = call + 1 /\ came = {call}
                   /\ phase \in {"exec", "drain"} =>
                        current = call /\ taken = call /\ came = {}
                   /\ taken < call => out = <<>>
                   /\ taken >= call /\ phase \notin {"exec", "drain", "ended"} /\ out = <<>>
                        => call \in came

SessionOK == Numbered /\ Underway /\ Writing /\ Resting /\ Arriving /\ Owing

\* A queue of at most one that is not empty.
LEMMA OnlyOne ==
    ASSUME NEW S, NEW s \in Seq(S), s # <<>>, Len(s) <= 1
    PROVE  Len(s) = 1 /\ Head(s) = s[1]
<1>1. PICK n \in Nat : n = Len(s)
  OBVIOUS
<1>2. Head(s) = s[1]
  OBVIOUS
<1>3. n = 1
  <2>1. n # 0
    BY <1>1, EmptySeq
  <2>2. n <= 1
    BY <1>1
  <2>3. QED BY <2>1, <2>2
<1>4. QED BY <1>1, <1>2, <1>3

\* The frame the session takes: the call, or a cancel of the call, which has
\* its answer on the way then unless its program runs.
LEMMA TakesTheCall ==
    ASSUME Typed, Listening, SessionOK, NEW f, Took(f), UNCHANGED <<toAgent, sends, held, call>>
    PROVE  /\ Waiting /\ f # "eof" /\ taken' = taken + 1 /\ out = <<>> /\ phase # "ended"
           /\ Underway'
           /\ \/ taken + 1 = call
              \/ /\ taken = call /\ f = "cancel"
                 /\ AnswersTo(toPeer) \in {{}, {call}}
<1>1. /\ inbox \in Seq(Tokens) /\ Len(inbox) <= 1 /\ inbox # <<>> /\ inbox' = <<>>
      /\ f = Head(inbox) /\ out = <<>> /\ phase # "ended"
      /\ taken' = IF f = "eof" THEN taken ELSE taken + 1
  BY DEF Took, Free, Typed
<1>2. Len(inbox) = 1 /\ f = inbox[1]
  <2>1. Len(inbox) = 1 /\ Head(inbox) = inbox[1]
    BY ONLY <1>1, OnlyOne
  <2>2. QED BY <1>1, <2>1
<1>3. /\ taken \in Nat /\ sends \in Nat /\ call \in Nat /\ Len(held) \in Nat /\ Len(toAgent) \in Nat
  BY DEF Typed, SessionOK, Numbered
<1>4. f # "eof" /\ taken' = taken + 1
  BY <1>1, <1>2 DEF SessionOK, Underway
<1>5. sends = taken + 1 + Len(held) + Len(toAgent)
  BY <1>2 DEF SessionOK, Underway
<1>6. Waiting
  <2>1. SUFFICES ASSUME ~Waiting PROVE FALSE
    OBVIOUS
  <2>2. sends = call /\ taken = call
    BY <2>1 DEF Listening, SessionOK, Numbered, Resting
  <2>3. QED BY <1>3, <1>5, <2>2
<1>7. call <= taken + 1 /\ sends <= call + 1
  BY <1>3, <1>6 DEF SessionOK, Owing, Numbered
<1>8. taken + 1 = call \/ taken = call
  BY <1>3, <1>5, <1>7
<1>9. ASSUME taken = call PROVE f = "cancel" /\ AnswersTo(toPeer) \in {{}, {call}}
  <2>1. f = "cancel"
    BY <1>1, <1>2, <1>3, <1>9 DEF SessionOK, Underway
  <2>2. taken # call + 1
    BY <1>3, <1>9
  <2>3. QED BY <1>6, <2>1, <2>2 DEF SessionOK, Arriving
<1>10. Underway'
  <2>1. Len(inbox') = 0 /\ inbox' = <<>> /\ taken' + Len(inbox') = taken + Len(inbox)
    BY <1>1, <1>2, <1>3, <1>4
  <2>2. QED BY <1>3, <2>1 DEF SessionOK, Underway
<1>11. QED BY <1>1, <1>4, <1>6, <1>8, <1>9, <1>10

\* A step that changes nothing of all this.
LEMMA SessionStays ==
    ASSUME SessionOK, UNCHANGED <<toAgent, sends, held, inbox, taken, current, phase, out,
                                  midFrame, toPeer, cpc, call, cancelled>>
    PROVE  SessionOK'
<1>1. Numbered'
  BY DEF SessionOK, Numbered
<1>2. Underway'
  BY DEF SessionOK, Underway
<1>3. Writing'
  BY DEF SessionOK, Writing
<1>4. Resting' /\ Arriving'
  BY DEF SessionOK, Resting, Arriving, Waiting
<1>5. Owing'
  BY DEF SessionOK, Owing, Waiting
<1>6. QED BY <1>1, <1>2, <1>3, <1>4, <1>5 DEF SessionOK

\* The reader moves a frame on.
LEMMA ReaderStep ==
    ASSUME Typed, Listening, SessionOK, ReadFrame \/ QueueFrame, UNCHANGED client
    PROVE  SessionOK'
<1>1. /\ taken \in Nat /\ call \in Nat /\ Len(held) \in Nat /\ Len(inbox) \in Nat
      /\ toAgent \in Seq(Requests) /\ held \in Seq(Tokens) /\ inbox \in Seq(Tokens)
      /\ Len(held) <= 1
  BY DEF Typed, SessionOK, Numbered
<1>2. UNCHANGED <<sends, taken, current, phase, out, midFrame, toPeer, cpc, call, cancelled>>
  BY DEF ReadFrame, QueueFrame, client
<1>3. Underway'
  <2>1. CASE ReadFrame
    <3>1. /\ toAgent # <<>> /\ held = <<>> /\ held' = <<Head(toAgent)>>
          /\ toAgent' = Tail(toAgent) /\ inbox' = inbox
      BY <2>1 DEF ReadFrame, Listening
    <3>2. PICK n \in Nat : n = Len(toAgent)
      BY <1>1
    <3>3. /\ n >= 1 /\ Len(toAgent') = n - 1 /\ \A i \in 1..(n - 1) : toAgent'[i] = toAgent[i + 1]
          /\ Head(toAgent) = toAgent[1] /\ toAgent[1] \in Requests
      BY <1>1, <3>1, <3>2
    <3>4. Len(held) = 0 /\ Len(held') = 1 /\ held'[1] = toAgent[1]
      BY <3>1, <3>3
    <3>5. toAgent[1] # "eof"
      BY <3>3 DEF Requests
    <3>6. /\ sends = taken + Len(inbox) + n
          /\ \A i \in 1..n : taken + Len(inbox) + i > call => toAgent[i] = "cancel"
          /\ inbox # <<>> => inbox[1] # "eof" /\ (taken + 1 > call => inbox[1] = "cancel")
      BY <1>1, <3>2, <3>4 DEF SessionOK, Underway
    <3>7. \A i \in 1..(n - 1) : i + 1 \in 1..n /\ taken + Len(inbox) + 1 + i = taken + Len(inbox) + (i + 1)
      BY <1>1
    <3>8. \A i \in 1..(n - 1) :
            taken + Len(inbox) + 1 + i > call => toAgent'[i] = "cancel"
      BY <3>3, <3>6, <3>7
    <3>9. 1 \in 1..n
      BY <3>3
    <3>10. taken + Len(inbox) + 1 > call => held'[1] = "cancel"
      BY <3>4, <3>6, <3>9
    <3>11. sends = taken + Len(inbox) + 1 + (n - 1)
      BY <1>1, <3>6
    <3>12. QED BY <1>2, <3>1, <3>3, <3>4, <3>5, <3>6, <3>8, <3>10, <3>11 DEF Underway
  <2>2. CASE QueueFrame
    <3>1. held # <<>> /\ inbox = <<>> /\ inbox' = held /\ held' = <<>> /\ toAgent' = toAgent
      BY <2>2 DEF QueueFrame
    <3>2. Len(inbox) = 0 /\ Len(held') = 0 /\ Len(held) = 1
      <4>1. Len(held) = 1
        BY ONLY <1>1, <3>1, OnlyOne
      <4>2. QED BY <3>1, <4>1
    <3>3. QED BY <1>1, <1>2, <3>1, <3>2 DEF SessionOK, Underway
  <2>3. QED BY <2>1, <2>2
<1>4. QED BY <1>2, <1>3 DEF SessionOK, Numbered, Writing, Resting, Arriving, Owing, Waiting

\* What a step of the agent leaves alone but for what it writes and takes.
Apart == UNCHANGED <<sends, cpc, call, cancelled>>

\* The numbers the rest of the proof computes with.
LEMMA SessionNumbers ==
    ASSUME Typed, SessionOK
    PROVE  taken \in Nat /\ call \in Nat /\ sends \in Nat /\ current \in Nat
BY DEF Typed, SessionOK, Numbered

\* A request is answered at once.
LEMMA RepliesStep ==
    ASSUME Typed, Listening, SessionOK, Apart, NEW f, Took(f),
           UNCHANGED <<toAgent, held, toPeer, midFrame, current>>,
           NEW m \in Messages, m.type # "Output", m.for = taken + 1, out' = <<m>>,
           phase \in {"handshake", "serving"}, phase' \in {"serving", "closing"}
    PROVE  SessionOK'
<1>1. /\ Waiting /\ taken' = taken + 1 /\ out = <<>> /\ phase # "ended" /\ Underway'
      /\ taken + 1 = call \/ (taken = call /\ AnswersTo(toPeer) \in {{}, {call}})
  BY TakesTheCall DEF Apart
<1>2. taken \in Nat /\ call \in Nat
  BY SessionNumbers
<1>3. Len(out') = 1 /\ out'[1] = m /\ out' # <<>>
  OBVIOUS
<1>4. Numbered' /\ Waiting'
  BY <1>1 DEF Apart, SessionOK, Numbered, Waiting
<1>5. ~midFrame /\ Writing'
  BY <1>1, <1>3 DEF SessionOK, Writing
<1>6. PICK came : came = AnswersTo(toPeer) /\ AnswersTo(toPeer') = came
  OBVIOUS
<1>7. CASE taken + 1 = call
  <2>1. came = {}
    BY <1>1, <1>2, <1>6, <1>7 DEF SessionOK, Arriving
  <2>2. Arriving' /\ Owing'
    BY <1>1, <1>2, <1>3, <1>6, <1>7, <2>1 DEF SessionOK, Arriving, Owing, Apart
  <2>3. QED BY <1>1, <1>4, <1>5, <2>2 DEF SessionOK, Resting
<1>8. CASE taken = call /\ came \in {{}, {call}}
  <2>1. came = {call}
    BY <1>1, <1>2, <1>6, <1>8 DEF SessionOK, Owing
  <2>2. Arriving' /\ Owing'
    BY <1>1, <1>2, <1>3, <1>6, <1>8, <2>1 DEF SessionOK, Arriving, Owing, Apart
  <2>3. QED BY <1>1, <1>4, <1>5, <2>2 DEF SessionOK, Resting
<1>9. QED BY <1>1, <1>6, <1>7, <1>8

\* The session ends, of itself or by what it took.
LEMMA EndsStep ==
    ASSUME Typed, Listening, SessionOK, Apart, Ends,
           UNCHANGED <<toAgent, held, toPeer, midFrame, current>>,
           UNCHANGED <<taken, inbox>> \/ \E f : Took(f)
    PROVE  SessionOK'
<1>1. phase' = "ended" /\ out' = <<>> /\ Len(out') = 0
  BY DEF Ends
<1>2. taken \in Nat /\ call \in Nat
  BY SessionNumbers
<1>3. Numbered' /\ (Waiting' <=> Waiting)
  BY DEF Apart, SessionOK, Numbered, Waiting
<1>4. Writing'
  BY <1>1 DEF SessionOK, Writing
<1>5. CASE UNCHANGED <<taken, inbox>>
  <2>1. Underway'
    BY <1>5 DEF Apart, SessionOK, Underway
  <2>2. Resting' /\ Arriving' /\ Owing'
    BY <1>1, <1>3, <1>5 DEF Apart, SessionOK, Resting, Arriving, Owing
  <2>3. QED BY <1>3, <1>4, <2>1, <2>2 DEF SessionOK
<1>6. ASSUME NEW f, Took(f) PROVE SessionOK'
  <2>1. /\ Waiting /\ taken' = taken + 1 /\ Underway'
        /\ taken + 1 = call \/ (taken = call /\ AnswersTo(toPeer) \in {{}, {call}})
    BY <1>6, TakesTheCall DEF Apart
  <2>2. Resting' /\ Arriving' /\ Owing'
    <3>1. PICK came : came = AnswersTo(toPeer) /\ AnswersTo(toPeer') = came
      OBVIOUS
    <3>2. came \in {{}, {call}}
      BY <1>2, <2>1, <3>1 DEF SessionOK, Arriving
    <3>3. taken + 1 = call => came = {}
      BY <1>2, <2>1, <3>1 DEF SessionOK, Arriving
    <3>4. QED BY <1>1, <1>2, <1>3, <2>1, <3>1, <3>2, <3>3
              DEF Apart, SessionOK, Resting, Arriving, Owing
  <2>3. QED BY <1>3, <1>4, <2>1, <2>2 DEF SessionOK
<1>7. QED BY <1>5, <1>6

\* The program of the call starts.
LEMMA StartStep ==
    ASSUME Typed, Listening, SessionOK, Apart, StartExec
    PROVE  SessionOK'
<1>1. PICK f \in {"exec", "timedexec"} : Took(f)
  BY DEF StartExec
<1>2. /\ phase' = "exec" /\ current' = taken + 1
      /\ UNCHANGED <<toAgent, held, out, midFrame, toPeer>>
  BY DEF StartExec
<1>3. /\ Waiting /\ taken' = taken + 1 /\ out = <<>> /\ phase # "ended" /\ Underway'
      /\ taken + 1 = call
  BY <1>1, <1>2, TakesTheCall DEF Apart
<1>4. taken \in Nat /\ call \in Nat
  BY SessionNumbers
<1>5. Numbered' /\ Waiting'
  BY <1>3 DEF Apart, SessionOK, Numbered, Waiting
<1>6. Writing'
  BY <1>2, <1>3 DEF SessionOK, Writing
<1>7. AnswersTo(toPeer) = {}
  BY <1>3, <1>4 DEF SessionOK, Arriving
<1>8. Arriving' /\ Owing'
  BY <1>2, <1>3, <1>4, <1>7 DEF Apart, SessionOK, Arriving, Owing
<1>9. QED BY <1>3, <1>5, <1>6, <1>8 DEF SessionOK, Resting

\* The program goes on, writes or is noticed to have ended.
LEMMA RunsStep ==
    ASSUME Typed, Listening, SessionOK, Apart, ForwardOutput \/ NoticeExit
    PROVE  SessionOK'
<1>1. /\ phase \in {"exec", "drain"} /\ phase' \in {"exec", "drain"} /\ out = <<>>
      /\ phase # "ended"
      /\ UNCHANGED <<toAgent, held, inbox, taken, current, midFrame, toPeer>>
      /\ out' = out \/ out' = <<Msg("Output", current, "none")>>
  BY DEF ForwardOutput, NoticeExit, Free
<1>2. Numbered' /\ (Waiting' <=> Waiting) /\ Underway'
  BY <1>1 DEF Apart, SessionOK, Numbered, Waiting, Underway
<1>3. ~midFrame /\ Waiting
  BY <1>1 DEF SessionOK, Writing, Resting
<1>4. /\ Len(out') <= 1 /\ (out' # <<>> => out'[1].type = "Output")
  <2>1. CASE out' = out
    BY <1>1, <2>1
  <2>2. CASE out' = <<Msg("Output", current, "none")>>
    BY <2>2 DEF Msg
  <2>3. QED BY <1>1, <2>1, <2>2
<1>5. Writing'
  BY <1>1, <1>3, <1>4 DEF SessionOK, Writing
<1>6. taken = call /\ current = call /\ AnswersTo(toPeer) = {} /\ call \in Nat
  BY <1>1, <1>3, SessionNumbers DEF SessionOK, Owing
<1>7. Arriving' /\ Owing'
  BY <1>1, <1>2, <1>3, <1>4, <1>6 DEF Apart, SessionOK, Arriving, Owing
<1>8. QED BY <1>2, <1>3, <1>5, <1>7 DEF SessionOK, Resting

\* The program was stopped or had ended: its verdict is the call's answer.
LEMMA VerdictStep ==
    ASSUME Typed, Listening, SessionOK, Apart, NEW why \in Causes, Settle(why, <<>>),
           phase \in {"exec", "drain"}, UNCHANGED <<toAgent, held, current, toPeer>>,
           midFrame' = FALSE \/ (midFrame' = midFrame /\ out = <<>>),
           UNCHANGED <<taken, inbox>> \/ \E f : Took(f)
    PROVE  SessionOK'
<1>1. taken \in Nat /\ call \in Nat /\ current \in Nat
  BY SessionNumbers
<1>2. PICK m \in Messages : m = Msg("Exited", current, why)
  BY <1>1, MessageTypes
<1>3. m.type = "Exited" /\ m.for = current
  BY <1>2 DEF Msg
<1>4. out' = <<m>> /\ phase' = "verdict"
  BY <1>2, ShortAnswers DEF Settle, Answer
<1>5. Len(out') = 1 /\ out'[1] = m /\ out' # <<>>
  BY <1>4
<1>6. Waiting
  BY DEF SessionOK, Resting
<1>7. current = call /\ taken = call /\ AnswersTo(toPeer) = {}
  BY <1>6 DEF SessionOK, Owing
<1>8. Numbered' /\ Waiting'
  BY <1>6 DEF Apart, SessionOK, Numbered, Waiting
<1>9. ~midFrame' /\ Writing'
  <2>1. out = <<>> => ~midFrame
    BY DEF SessionOK, Writing
  <2>2. ~midFrame'
    BY <2>1
  <2>3. QED BY <1>5, <2>2 DEF SessionOK, Writing
<1>10. Underway' /\ (taken' = call \/ taken' = call + 1)
  <2>1. CASE UNCHANGED <<taken, inbox>>
    BY <1>1, <1>7, <2>1 DEF Apart, SessionOK, Underway
  <2>2. ASSUME NEW f, Took(f) PROVE Underway' /\ taken' = call + 1
    BY <1>7, <2>2, TakesTheCall DEF Apart
  <2>3. QED BY <2>1, <2>2
<1>12. Arriving' /\ Owing'
  <2>1. PICK came : came = AnswersTo(toPeer) /\ AnswersTo(toPeer') = came
    OBVIOUS
  <2>2. came = {} /\ out'[1].for = call /\ out'[1].type = "Exited"
    BY <1>3, <1>5, <1>7, <2>1
  <2>3. Arriving'
    BY <1>6, <2>1, <2>2 DEF Apart, SessionOK, Arriving
  <2>4. Owing'
    <3>1. call <= taken' + 1 /\ ~(taken' < call) /\ taken' >= call
      BY <1>1, <1>10
    <3>2. phase' \notin {"exec", "drain"} /\ ~(out' = <<>>) /\ call' = call
      BY <1>4, <1>5 DEF Apart
    <3>3. QED BY <2>1, <2>2, <3>1, <3>2 DEF Owing
  <2>5. QED BY <2>3, <2>4
<1>13. QED BY <1>8, <1>9, <1>10, <1>12 DEF SessionOK, Resting

\* A frame is written: its head.
LEMMA HeadStep ==
    ASSUME Typed, Listening, SessionOK, Apart, WriteHead
    PROVE  SessionOK'
<1>1. PICK m \in Messages : m = Head(out) /\ m = out[1]
  BY ShortIds DEF Typed, WriteHead
<1>2. PICK s, t :
         s \in Seq(Parcels) /\ s = toPeer /\ t = toPeer' /\ t = Append(s, [msg |-> m, whole |-> FALSE])
  BY <1>1 DEF WriteHead, SessionOK, Writing
<1>3. /\ t \in Seq(Parcels) /\ t # <<>> /\ t[Len(t)] = [msg |-> m, whole |-> FALSE]
      /\ AnswersTo(t) = AnswersTo(s) /\ (Ordered(s) => Ordered(t))
  BY <1>2, HeadWritten
<1>4. UNCHANGED <<toAgent, held, inbox, taken, current, phase, out>> /\ out # <<>>
  BY DEF WriteHead
<1>5. Numbered' /\ Underway' /\ (Waiting' <=> Waiting)
  BY <1>4 DEF Apart, SessionOK, Numbered, Underway, Waiting
<1>6. Writing'
  BY <1>1, <1>2, <1>3, <1>4 DEF SessionOK, Writing
<1>7. /\ AnswersTo(toPeer') = AnswersTo(toPeer) /\ (Ordered(toPeer) => Ordered(toPeer'))
  BY <1>2, <1>3
<1>8. Resting' /\ Arriving' /\ Owing'
  BY <1>4, <1>5, <1>7 DEF Apart, SessionOK, Resting, Arriving, Owing
<1>9. QED BY <1>5, <1>6, <1>8 DEF SessionOK

\* Its body.
LEMMA BodyStep ==
    ASSUME Typed, OutOK, Listening, SessionOK, Apart, WriteBody
    PROVE  SessionOK'
<1>1. out # <<>> /\ midFrame /\ Len(out) = 1 /\ out[1] \in Messages /\ Tail(out) = <<>>
  <2>1. out \in Seq(Messages) /\ out # <<>> /\ Len(out) <= 1 /\ midFrame
    BY DEF Typed, WriteBody, SessionOK, Writing
  <2>2. Len(out) = 1
    BY ONLY <2>1, OnlyOne
  <2>3. QED BY <2>1, <2>2, ShortIds
<1>2. PICK m \in Messages : m = out[1]
  BY <1>1
<1>3. PICK s, t :
         /\ s \in Seq(Parcels)
         /\ s = toPeer /\ t = toPeer' /\ t = [s EXCEPT ![Len(s)].whole = TRUE]
         /\ s # <<>> /\ s[Len(s)] = [msg |-> m, whole |-> FALSE]
  BY <1>1, <1>2 DEF WriteBody, SessionOK, Writing
<1>4. /\ t \in Seq(Parcels)
      /\ m.type = "Output" => AnswersTo(t) = AnswersTo(s) /\ (Ordered(s) => Ordered(t))
      /\ m.type # "Output" =>
           /\ AnswersTo(t) = AnswersTo(s) \cup {m.for}
           /\ Ordered(s) /\ (\A x \in AnswersTo(s) : x < m.for) => Ordered(t)
  <2>1. BodyOf(t, s, m)
    BY <1>3 DEF BodyOf
  <2>2. s \in Seq(Parcels)
    BY <1>3
  <2>3. QED BY ONLY <2>1, <2>2, m \in Messages, BodyWritten
<1>5. /\ UNCHANGED <<toAgent, held, inbox, taken, current>> /\ out' = <<>> /\ ~midFrame'
      /\ phase' = IF phase = "verdict" THEN "serving" ELSE phase
  BY <1>1 DEF WriteBody
<1>6. Numbered' /\ Underway' /\ (Waiting' <=> Waiting)
  BY <1>5 DEF Apart, SessionOK, Numbered, Underway, Waiting
<1>7. Writing'
  BY <1>3, <1>4, <1>5 DEF SessionOK, Writing
<1>8. Waiting
  BY <1>1 DEF SessionOK, Resting
<1>9. taken \in Nat /\ call \in Nat
  BY SessionNumbers
<1>10. PICK came, now : /\ came = AnswersTo(toPeer) /\ now = AnswersTo(toPeer')
                        /\ came = AnswersTo(s) /\ now = AnswersTo(t)
  BY <1>3
<1>11. CASE m.type = "Output"
  <2>1. phase \in {"exec", "drain"}
    <3>1. phase \in {"serving", "closing"} => m.type \in Replies
      BY <1>1, <1>2 DEF OutOK
    <3>2. phase = "verdict" => m.type # "Output"
      BY <1>1, <1>2 DEF OutOK, Msg
    <3>3. phase \notin {"handshake", "ended"}
      BY <1>1 DEF OutOK
    <3>4. QED BY <1>11, <3>1, <3>2, <3>3 DEF Typed, Replies
  <2>2. now = came /\ (Ordered(toPeer) => Ordered(toPeer'))
    BY <1>3, <1>4, <1>10, <1>11
  <2>3. Arriving' /\ Owing'
    BY <1>5, <1>6, <1>8, <1>9, <1>10, <2>1, <2>2 DEF Apart, SessionOK, Arriving, Owing
  <2>4. QED BY <1>6, <1>7, <1>8, <2>3 DEF SessionOK, Resting
<1>12. CASE m.type # "Output"
  <2>1. \/ m.for = call /\ taken >= call /\ came = {}
        \/ m.for = call + 1 /\ taken = call + 1 /\ came = {call}
    BY <1>1, <1>2, <1>8, <1>10, <1>12 DEF SessionOK, Owing
  <2>2. now = came \cup {m.for} /\ Ordered(toPeer')
    <3>1. \A x \in came : x < m.for
      BY <1>9, <2>1
    <3>2. Ordered(s)
      BY <1>3, <1>8 DEF SessionOK, Arriving
    <3>3. QED BY <1>3, <1>4, <1>10, <1>12, <3>1, <3>2
  <2>3. now = {call} \/ (now = {call, call + 1} /\ taken = call + 1)
    BY <2>1, <2>2
  <2>4. taken >= call /\ phase \notin {"exec", "drain"}
    <3>1. taken >= call
      BY <1>9, <2>1
    <3>2. phase \in {"exec", "drain"} => m.type = "Output"
      BY <1>1, <1>2 DEF OutOK
    <3>3. QED BY <1>12, <3>1, <3>2
  <2>5. Arriving' /\ Owing'
    BY <1>5, <1>6, <1>8, <1>9, <1>10, <2>2, <2>3, <2>4 DEF Apart, SessionOK, Arriving, Owing
  <2>6. QED BY <1>6, <1>7, <1>8, <2>5 DEF SessionOK, Resting
<1>13. QED BY <1>11, <1>12

\* While the client listens, every step of the agent and of its surroundings
\* keeps the account: above all, no frame comes while a program runs but the
\* cancel of it.
LEMMA AgentSide ==
    ASSUME Typed, OutOK, Listening, SessionOK, Agent \/ World, UNCHANGED client
    PROVE  SessionOK'
<1>1. UNCHANGED <<cpc, call, cancelled>> /\ taken \in Nat /\ call \in Nat /\ current \in Nat
  BY SessionNumbers DEF client
<1>2. CASE ReadFrame \/ QueueFrame
  BY <1>2, ReaderStep
<1>3. CASE World
  <2>1. UNCHANGED <<toAgent, sends, held, inbox, taken, current, phase, out, midFrame, toPeer>>
    BY <1>3 DEF World, ProgramWrites, ProgramExits, HeirExits, TimePasses
  <2>2. QED BY <1>1, <2>1, SessionStays
<1>4. CASE Handshake
  <2>1. PICK f \in Tokens : /\ Took(f)
          /\ \/ Answer(<<Msg("Hello", taken + 1, "none")>>, "serving")
             \/ Ends
             \/ Answer(<<Error(taken + 1)>>, "closing")
    BY <1>4 DEF Handshake, Tokens
  <2>2. /\ Apart /\ phase = "handshake"
        /\ UNCHANGED <<toAgent, held, toPeer, midFrame, current>>
    BY <1>1, <1>4 DEF Handshake, Apart
  <2>3. CASE Ends
    BY <2>1, <2>2, <2>3, EndsStep
  <2>4. ASSUME NEW m \in Messages, m.type # "Output", m.for = taken + 1,
               NEW next \in {"serving", "closing"}, Answer(<<m>>, next)
        PROVE  SessionOK'
    BY <2>1, <2>2, <2>4, RepliesStep DEF Answer
  <2>5. /\ Msg("Hello", taken + 1, "none") \in Messages /\ Error(taken + 1) \in Messages
    BY <1>1, MessageTypes DEF Replies, Causes
  <2>6. /\ Msg("Hello", taken + 1, "none").type = "Hello"
        /\ Msg("Hello", taken + 1, "none").for = taken + 1
        /\ Error(taken + 1).type = "Error" /\ Error(taken + 1).for = taken + 1
    BY DEF Msg, Error
  <2>7. QED BY <2>1, <2>3, <2>4, <2>5, <2>6
<1>5. CASE Serve \/ RefuseExec
  <2>1. /\ Apart /\ phase = "serving"
        /\ UNCHANGED <<toAgent, held, toPeer, midFrame, current>>
    BY <1>1, <1>5 DEF Serve, RefuseExec, Apart
  <2>2. ASSUME NEW f, Took(f), NEW type \in Replies,
               out' = <<Msg(type, taken + 1, "none")>>, phase' \in {"serving", "closing"}
        PROVE  SessionOK'
    <3>1. PICK m \in Messages : m = Msg(type, taken + 1, "none")
      BY <1>1, MessageTypes DEF Causes
    <3>2. m.type # "Output" /\ m.for = taken + 1
      BY <3>1 DEF Msg, Replies
    <3>3. QED BY <2>1, <2>2, <3>1, <3>2, RepliesStep
  <2>3. CASE Serve
    <3>1. PICK f \in Requests, type \in Replies :
            /\ Took(f)
            /\ \/ Answer(<<Msg(type, taken + 1, "none")>>, "serving")
               \/ Answer(<<Msg(type, taken + 1, "none")>>, "closing")
      BY <2>3 DEF Serve, Requests, Replies, Error
    <3>2. QED BY <2>2, <3>1 DEF Answer
  <2>4. CASE RefuseExec
    <3>1. PICK f : Took(f)
      BY <2>4 DEF RefuseExec
    <3>2. out' = <<Msg("Error", taken + 1, "none")>> /\ phase' = "serving" /\ "Error" \in Replies
      BY <2>4 DEF RefuseExec, Error, Replies, Answer
    <3>3. QED BY <2>2, <3>1, <3>2
  <2>5. QED BY <1>5, <2>3, <2>4
<1>6. CASE ServeEof \/ ClientGone
  <2>1. PICK f : Took(f)
    BY <1>6 DEF ServeEof, ClientGone
  <2>2. Apart /\ Ends /\ UNCHANGED <<toAgent, held, toPeer, midFrame, current>>
    BY <1>1, <1>6 DEF ServeEof, ClientGone, Apart
  <2>3. QED BY <2>1, <2>2, EndsStep
<1>7. CASE HangUp
  <2>1. /\ Apart /\ Ends /\ UNCHANGED <<toAgent, held, toPeer, midFrame, current>>
        /\ UNCHANGED <<taken, inbox>>
    BY <1>1, <1>7 DEF HangUp, Apart
  <2>2. QED BY <2>1, EndsStep
<1>8. CASE WriteFails
  BY <1>8 DEF WriteFails, Listening
<1>9. CASE StartExec
  BY <1>1, <1>9, StartStep DEF Apart, StartExec
<1>10. CASE ForwardOutput \/ NoticeExit
  <2>1. Apart
    BY <1>1, <1>10 DEF Apart, ForwardOutput, NoticeExit
  <2>2. QED BY <1>10, <2>1, RunsStep
<1>11. CASE Deadline \/ Drained \/ DrainTimeout
  <2>1. PICK why \in Causes : Settle(why, <<>>)
    BY <1>11 DEF Deadline, Drained, DrainTimeout, Causes
  <2>2. /\ Apart /\ phase \in {"exec", "drain"}
        /\ UNCHANGED <<toAgent, held, current, toPeer>> /\ UNCHANGED <<taken, inbox>>
        /\ midFrame' = FALSE \/ (midFrame' = midFrame /\ out = <<>>)
    BY <1>1, <1>11 DEF Deadline, Drained, DrainTimeout, Free, Apart
  <2>3. QED BY <2>1, <2>2, VerdictStep
<1>12. CASE CancelExec
  <2>1. "Cancelled" \in Causes /\ Settle("Cancelled", <<>>) /\ Took("cancel")
    BY <1>12 DEF CancelExec, Causes
  <2>2. /\ Apart /\ phase \in {"exec", "drain"}
        /\ UNCHANGED <<toAgent, held, current, toPeer>>
        /\ midFrame' = midFrame /\ out = <<>>
    BY <1>1, <1>12 DEF CancelExec, Took, Free, Apart
  <2>3. QED BY <2>1, <2>2, VerdictStep
<1>13. ~MisplacedFrame
  <2>1. SUFFICES ASSUME MisplacedFrame PROVE FALSE
    OBVIOUS
  <2>2. PICK f \in Requests : Took(f) /\ f # "cancel"
    BY <2>1 DEF MisplacedFrame
  <2>3. phase = "exec" /\ UNCHANGED <<toAgent, sends, held, call>>
    BY <1>1, <2>1 DEF MisplacedFrame
  <2>4. Waiting /\ taken + 1 = call
    BY <2>2, <2>3, TakesTheCall
  <2>5. taken = call
    BY <2>3, <2>4 DEF SessionOK, Owing
  <2>6. QED BY <1>1, <2>4, <2>5
<1>14. CASE WriteHead
  BY <1>1, <1>14, HeadStep DEF Apart, WriteHead
<1>15. CASE WriteBody
  BY <1>1, <1>15, BodyStep DEF Apart, WriteBody
<1>16. QED
  BY <1>2, <1>3, <1>4, <1>5, <1>6, <1>7, <1>8, <1>9, <1>10, <1>11, <1>12, <1>13, <1>14, <1>15
  DEF Agent

\* The client sends a request with nothing of the last one left.
LEMMA AskStep ==
    ASSUME Typed, Listening, SessionOK, ~Waiting, NEW f \in Requests,
           NEW next \in {"await", "exec"}, Ask(f, next)
    PROVE  SessionOK'
<1>1. /\ toAgent' = Append(toAgent, f) /\ sends' = sends + 1
      /\ UNCHANGED <<held, inbox, taken, current, phase, out, midFrame, toPeer>>
      /\ cpc' = next /\ call' = sends + 1 /\ cancelled' = FALSE
  BY DEF Ask, PeerSend
<1>2. taken \in Nat /\ call \in Nat /\ sends \in Nat
  BY SessionNumbers
<1>3. /\ toAgent \in Seq(Requests) /\ held \in Seq(Tokens) /\ inbox \in Seq(Tokens)
  BY DEF Typed
<1>4. /\ taken = call /\ AnswersTo(toPeer) = {} /\ out = <<>> /\ phase \notin {"exec", "drain"}
      /\ sends = call /\ sends = taken + Len(inbox) + Len(held) + Len(toAgent)
  BY DEF Listening, SessionOK, Resting, Numbered, Underway
<1>5. Len(inbox) = 0 /\ Len(held) = 0 /\ Len(toAgent) = 0
  <2>1. Len(inbox) \in Nat /\ Len(held) \in Nat /\ Len(toAgent) \in Nat
    BY <1>3
  <2>2. QED BY <1>2, <1>4, <2>1
<1>6. inbox = <<>> /\ held = <<>> /\ Len(toAgent') = 1
  <2>1. inbox = <<>> /\ held = <<>>
    BY <1>3, <1>5, EmptySeq
  <2>2. Len(Append(toAgent, f)) = Len(toAgent) + 1
    BY <1>3
  <2>3. QED BY <1>1, <1>5, <2>1, <2>2
<1>7. Numbered' /\ Waiting'
  BY <1>1, <1>2, <1>4 DEF Numbered, Waiting
<1>8. Underway'
  BY <1>1, <1>2, <1>4, <1>5, <1>6 DEF Underway
<1>9. Writing'
  BY <1>1 DEF SessionOK, Writing
<1>10. taken' < call' /\ call' <= taken' + 1
  BY <1>1, <1>2, <1>4
<1>11. Ordered(toPeer')
  <2>1. AnswersAt(toPeer) = {}
    BY <1>4 DEF AnswersTo
  <2>2. QED BY <1>1, <2>1 DEF Ordered
<1>12. Arriving'
  BY <1>1, <1>4, <1>11 DEF Arriving
<1>13. Owing'
  BY <1>1, <1>2, <1>4, <1>10 DEF Owing
<1>14. QED BY <1>7, <1>8, <1>9, <1>12, <1>13 DEF SessionOK, Resting

\* The client sends the cancel of its call.
LEMMA CancelStep ==
    ASSUME Typed, Listening, SessionOK, SendCancel
    PROVE  SessionOK'
<1>1. /\ toAgent' = Append(toAgent, "cancel") /\ sends' = sends + 1
      /\ UNCHANGED <<held, inbox, taken, current, phase, out, midFrame, toPeer>>
      /\ cpc = "cancelling" /\ cpc' = "exec" /\ call' = call /\ cancelled' = cancelled
  BY DEF SendCancel, PeerSend
<1>2. /\ taken \in Nat /\ call \in Nat /\ sends \in Nat
      /\ Len(inbox) \in Nat /\ Len(held) \in Nat /\ Len(toAgent) \in Nat
      /\ toAgent \in Seq(Requests)
  BY SessionNumbers DEF Typed
<1>3. Waiting /\ Waiting'
  BY <1>1 DEF Waiting
<1>4. Numbered'
  BY <1>1, <1>2 DEF SessionOK, Numbered
<1>5. Underway'
  <2>1. PICK n \in Nat : n = Len(toAgent)
    BY <1>2
  <2>2. "cancel" \in Requests
    BY DEF Requests
  <2>3. /\ Len(toAgent') = n + 1 /\ toAgent'[n + 1] = "cancel"
        /\ \A i \in 1..n : toAgent'[i] = toAgent[i]
    BY <1>1, <1>2, <2>1, <2>2
  <2>4. \A i \in 1..(n + 1) : i = n + 1 \/ i \in 1..n
    OBVIOUS
  <2>5. \A i \in 1..Len(toAgent') :
          taken' + Len(inbox') + Len(held') + i > call' => toAgent'[i] = "cancel"
    BY <1>1, <2>1, <2>3, <2>4 DEF SessionOK, Underway
  <2>6. sends' = taken' + Len(inbox') + Len(held') + Len(toAgent')
    BY <1>1, <1>2, <2>1, <2>3 DEF SessionOK, Underway
  <2>7. QED BY <1>1, <2>5, <2>6 DEF SessionOK, Underway
<1>6. Writing'
  BY <1>1 DEF SessionOK, Writing
<1>7. Arriving' /\ Owing'
  BY <1>1, <1>3 DEF SessionOK, Arriving, Owing
<1>8. QED BY <1>3, <1>4, <1>5, <1>6, <1>7 DEF SessionOK, Resting

\* The client reads: what a call returns is its answer, and a client that may
\* go on has left nothing behind.
LEMMA ReceiveStep ==
    ASSUME Typed, OutOK, Listening, SessionOK, Receive, ~ReuseAfterCancel, OwnAnswer
    PROVE  OwnAnswer' /\ (Listening' => SessionOK')
<1>1. PICK p : p = Head(toPeer)
  OBVIOUS
<1>2. PICK s, t : s \in Seq(Parcels) /\ s = toPeer /\ t = toPeer' /\ t = Tail(s) /\ s # <<>>
  BY DEF SessionOK, Writing, Receive, PeerTake, Arrived
<1>3. /\ p.whole /\ ~(midFrame /\ Len(toPeer) = 1) /\ cpc \in {"await", "exec"}
      /\ UNCHANGED <<toAgent, sends, held, inbox, taken, current, phase, out, midFrame>>
      /\ UNCHANGED <<call, garbled, peerOpen>>
  BY <1>1 DEF Receive, PeerTake, Arrived
<1>4. /\ t \in Seq(Parcels) /\ Len(t) = Len(s) - 1 /\ p \in Parcels
      /\ Len(t) > 0 => t[Len(t)] = s[Len(s)]
      /\ p.msg.type = "Output" => AnswersTo(t) = AnswersTo(s)
      /\ p.msg.type # "Output" =>
           /\ AnswersTo(s) = AnswersTo(t) \cup {p.msg.for}
           /\ Ordered(s) => \A x \in AnswersTo(t) : p.msg.for < x
      /\ Ordered(s) => Ordered(t)
  BY <1>1, <1>2, <1>3, ParcelTaken
<1>5. Waiting
  BY <1>3 DEF Waiting
<1>6. taken \in Nat /\ call \in Nat /\ sends \in Nat
  BY SessionNumbers
<1>7. Writing'
  <2>1. midFrame /\ out # <<>> => t # <<>> /\ t[Len(t)] = [msg |-> out[1], whole |-> FALSE]
    <3>1. SUFFICES ASSUME midFrame, out # <<>>
                   PROVE  t # <<>> /\ t[Len(t)] = [msg |-> out[1], whole |-> FALSE]
      OBVIOUS
    <3>2. PICK n \in Nat : n = Len(s) /\ n # 0 /\ n # 1
      BY <1>2, <1>3, <3>1, EmptySeq
    <3>3. Len(t) > 0 /\ t # <<>>
      BY <1>4, <3>2, EmptySeq
    <3>4. QED BY <1>2, <1>4, <3>1, <3>3 DEF SessionOK, Writing
  <2>2. QED BY <1>2, <1>3, <1>4, <2>1 DEF SessionOK, Writing
<1>8. Underway'
  BY <1>3 DEF SessionOK, Underway
<1>9. PICK came, rest : came = AnswersTo(toPeer) /\ rest = AnswersTo(toPeer')
                        /\ came = AnswersTo(s) /\ rest = AnswersTo(t)
  BY <1>2
<1>10. Ordered(s) /\ Ordered(toPeer')
  BY <1>2, <1>4, <1>5 DEF SessionOK, Arriving
<1>11. ASSUME cpc' = "failed", UNCHANGED last PROVE OwnAnswer' /\ ~Listening'
  BY <1>11 DEF OwnAnswer, Listening, Waiting
<1>12. CASE p.msg.type = "Output" /\ UNCHANGED <<cpc, cancelled, last>>
  <2>1. rest = came
    BY <1>4, <1>9, <1>12
  <2>2. Numbered' /\ Waiting'
    BY <1>3, <1>5, <1>12 DEF SessionOK, Numbered, Waiting
  <2>3. Arriving' /\ Owing'
    BY <1>3, <1>5, <1>9, <1>10, <2>1 DEF SessionOK, Arriving, Owing
  <2>4. OwnAnswer'
    BY <1>12 DEF OwnAnswer
  <2>5. QED BY <1>7, <1>8, <2>2, <2>3, <2>4 DEF SessionOK, Resting
<1>13. ASSUME NEW refused, p.msg.type # "Output", Returns(p.msg, refused)
       PROVE  OwnAnswer' /\ (Listening' => SessionOK')
  <2>1. /\ came = {} \/ came = {call} \/ (came = {call, call + 1} /\ taken = call + 1)
        /\ taken < call => came = {}
    BY <1>5, <1>9 DEF SessionOK, Arriving
  <2>2. came = rest \cup {p.msg.for} /\ \A x \in rest : p.msg.for < x
    BY <1>4, <1>9, <1>10, <1>13
  <2>3. p.msg.for = call /\ rest \subseteq {call + 1}
    <3>1. p.msg.for \in came /\ call \in came
      BY <2>1, <2>2
    <3>2. p.msg.for = call \/ p.msg.for = call + 1
      BY <2>1, <3>1
    <3>3. p.msg.for # call + 1
      <4>1. SUFFICES ASSUME p.msg.for = call + 1 PROVE FALSE
        OBVIOUS
      <4>2. call \in rest
        BY <1>6, <2>2, <3>1, <4>1
      <4>3. call + 1 < call
        BY <2>2, <4>1, <4>2
      <4>4. QED BY <1>6, <4>3
    <3>4. call \notin rest
      BY <1>6, <2>2, <3>2, <3>3
    <3>5. QED BY <2>1, <2>2, <3>2, <3>3, <3>4
  <2>4. OwnAnswer'
    <3>1. last' = [call |-> call, refused |-> refused, for |-> p.msg.for]
      BY <1>13 DEF Returns
    <3>2. last'.for = p.msg.for /\ last'.call = call
      BY <3>1
    <3>3. QED BY <2>3, <3>2 DEF OwnAnswer
  <2>5. ASSUME Listening' PROVE SessionOK'
    <3>1. ~cancelled /\ ~cancelled' /\ cpc' = "ready"
      BY <1>13, <2>5 DEF Returns, Reusable, Listening, Waiting
    <3>2. sends = call
      BY <3>1 DEF SessionOK, Numbered
    <3>3. taken <= sends
      <4>1. Len(inbox) \in Nat /\ Len(held) \in Nat /\ Len(toAgent) \in Nat
        BY DEF Typed
      <4>2. QED BY <1>6, <4>1 DEF SessionOK, Underway
    <3>4. taken = call
      <4>1. ~(taken < call)
        BY <2>1, <2>2
      <4>2. QED BY <1>6, <3>2, <3>3, <4>1
    <3>5. rest = {}
      BY <1>6, <2>1, <2>2, <2>3, <3>4
    <3>6. came = {call}
      BY <2>2, <2>3, <3>5
    <3>7. phase \notin {"exec", "drain"}
      BY <1>5, <1>9, <3>6 DEF SessionOK, Owing
    <3>8. out = <<>>
      <4>1. out # <<>> => out[1].type # "Output"
        <5>1. SUFFICES ASSUME out # <<>> PROVE out[1].type # "Output"
          OBVIOUS
        <5>2. phase \in {"serving", "closing"} => out[1].type \in Replies
          BY <5>1 DEF OutOK
        <5>3. phase = "verdict" => out[1].type \in {"Error", "Exited"}
          BY DEF OutOK, Msg, Error
        <5>4. phase \notin {"handshake", "ended"}
          BY <5>1 DEF OutOK
        <5>5. QED BY <3>7, <5>2, <5>3, <5>4 DEF Typed, Replies
      <4>2. QED BY <1>5, <1>6, <1>9, <3>4, <3>6, <4>1 DEF SessionOK, Owing
    <3>9. ~Waiting'
      BY <3>1 DEF Waiting
    <3>10. Numbered'
      BY <1>3, <1>6, <3>1, <3>2 DEF Numbered
    <3>11. Resting'
      BY <1>3, <1>9, <3>4, <3>5, <3>7, <3>8 DEF Resting
    <3>12. QED BY <1>7, <1>8, <3>9, <3>10, <3>11 DEF SessionOK, Arriving, Owing
  <2>6. QED BY <2>4, <2>5
<1>14. Expected(p.msg) => p.msg.type # "Output"
  BY DEF Expected
<1>15. \/ cpc' = "failed" /\ UNCHANGED last
       \/ p.msg.type = "Output" /\ UNCHANGED <<cpc, cancelled, last>>
       \/ \E refused \in BOOLEAN : p.msg.type # "Output" /\ Returns(p.msg, refused)
  BY <1>1, <1>14 DEF Receive, Fails
<1>16. QED BY <1>11, <1>12, <1>13, <1>15

\* Every other step of the client.
LEMMA ClientSide ==
    ASSUME Typed, OutOK, SessionOK, Listening, OwnAnswer, ~ReuseAfterCancel,
           Client \/ Breaks
    PROVE  OwnAnswer' /\ (Listening' => SessionOK')
<1>1. CASE SayHello \/ Call \/ Exec
  <2>1. PICK f \in Requests, next \in {"await", "exec"} : Ask(f, next)
    BY <1>1, FramesAssumption DEF SayHello, Call, Exec, Requests
  <2>2. ~Waiting /\ UNCHANGED last
    BY <1>1, <2>1 DEF SayHello, Call, Exec, Waiting, Ask
  <2>3. QED BY <2>1, <2>2, AskStep DEF OwnAnswer
<1>2. CASE Cancelling
  <2>1. /\ cpc = "exec" /\ cpc' = "cancelling" /\ ~cancelled /\ cancelled' = TRUE
        /\ UNCHANGED <<call, last>>
        /\ UNCHANGED <<toAgent, sends, held, inbox, taken, current, phase, out, midFrame, toPeer>>
    BY <1>2 DEF Cancelling
  <2>2. Waiting /\ Waiting'
    BY <2>1 DEF Waiting
  <2>3. Numbered' /\ Underway' /\ Writing'
    BY <2>1 DEF SessionOK, Numbered, Underway, Writing
  <2>4. Arriving' /\ Owing'
    BY <2>1, <2>2 DEF SessionOK, Arriving, Owing
  <2>5. QED BY <2>1, <2>2, <2>3, <2>4 DEF SessionOK, Resting, OwnAnswer
<1>3. CASE SendCancel
  BY <1>3, CancelStep DEF SendCancel, OwnAnswer
<1>4. CASE Receive
  BY <1>4, ReceiveStep
<1>5. CASE ReceiveGarbage \/ AgentGone \/ GraceExpires \/ Leave
  <2>1. UNCHANGED last
    BY <1>5 DEF ReceiveGarbage, AgentGone, GraceExpires, Leave, Fails
  <2>2. ~Listening'
    BY <1>5 DEF ReceiveGarbage, AgentGone, GraceExpires, Leave, Fails, Listening, Waiting
  <2>3. QED BY <2>1, <2>2 DEF OwnAnswer
<1>6. CASE Breaks
  BY <1>6 DEF Breaks, PeerClose, client, Listening, OwnAnswer
<1>7. QED BY <1>1, <1>2, <1>3, <1>4, <1>5, <1>6 DEF Client

\* A client that no longer listens never does again, and is told nothing.
LEMMA DeafSide ==
    ASSUME ~Listening, SNext, OwnAnswer
    PROVE  OwnAnswer' /\ ~Listening'
<1>1. CASE (Agent \/ World) /\ UNCHANGED client
  <2>1. UNCHANGED peerOpen
    BY <1>1 DEF Agent, World, ReadFrame, QueueFrame, Handshake, Serve, ServeEof, RefuseExec,
       StartExec, ForwardOutput, NoticeExit, Deadline, CancelExec, MisplacedFrame, ClientGone,
       Drained, DrainTimeout, WriteHead, WriteBody, HangUp, WriteFails,
       ProgramWrites, ProgramExits, HeirExits, TimePasses
  <2>2. QED BY <1>1, <2>1 DEF client, Listening, Waiting, OwnAnswer
<1>2. CASE SayHello \/ Call \/ Exec \/ Cancelling \/ SendCancel
  BY <1>2 DEF SayHello, Call, Exec, Cancelling, SendCancel, Ask, PeerSend, Listening, Waiting,
     OwnAnswer
<1>3. CASE Receive
  BY <1>3 DEF Receive, PeerTake, Listening, Waiting
<1>4. CASE ReceiveGarbage \/ AgentGone \/ GraceExpires \/ Leave
  BY <1>4 DEF ReceiveGarbage, AgentGone, GraceExpires, Leave, Fails, PeerTake, PeerClose,
     Listening, Waiting, OwnAnswer
<1>5. CASE Breaks
  BY <1>5 DEF Breaks, PeerClose, client, Listening, Waiting, OwnAnswer
<1>6. QED BY <1>1, <1>2, <1>3, <1>4, <1>5 DEF SNext, Client

\* Every step of the session is one of the agent's model, in which the peer
\* may do all the client does.
LEMMA SessionSteps == [SNext]_svars => [Next]_vars \/ \E f \in Requests : PeerSend(f)
<1> SUFFICES ASSUME [SNext]_svars PROVE [Next]_vars \/ \E f \in Requests : PeerSend(f)
  OBVIOUS
<1>1. CASE Client
  <2>1. CASE SayHello \/ Call \/ Exec \/ SendCancel
    BY <2>1 DEF SayHello, Call, Exec, SendCancel, Ask, Requests
  <2>2. CASE Cancelling \/ AgentGone \/ GraceExpires
    BY <2>2 DEF Cancelling, AgentGone, GraceExpires
  <2>3. CASE Receive \/ ReceiveGarbage \/ Leave
    BY <2>3 DEF Receive, ReceiveGarbage, Leave, Next, Peer
  <2>4. QED BY <1>1, <2>1, <2>2, <2>3 DEF Client
<1>2. CASE Agent \/ World \/ Breaks
  BY <1>2 DEF Breaks, Next, Peer
<1>3. CASE UNCHANGED svars
  BY <1>3 DEF svars
<1>4. QED BY <1>1, <1>2, <1>3 DEF SNext

\* The agent's invariants hold in the session too: all its client does to it
\* is what any peer may do.
LEMMA AgentInSession ==
    ASSUME Typed, AnswerInv, [SNext]_svars
    PROVE  Typed' /\ AnswerInv'
<1>1. \/ [Next]_vars
      \/ \E f \in Requests : PeerSend(f)
  BY SessionSteps
<1>2. CASE [Next]_vars
  BY <1>2, TypedStep, AnswerStep
<1>3. ASSUME NEW f \in Requests, PeerSend(f) PROVE Typed' /\ AnswerInv'
  <2>1. Append(toAgent, f) \in Seq(Requests) /\ sends + 1 \in Nat
    BY DEF Typed
  <2>2. Typed'
    BY <1>3, <2>1 DEF Typed, PeerSend
  <2>3. QED BY <1>3, <2>2, AnswersUntouched DEF PeerSend
<1>4. QED BY <1>1, <1>2, <1>3

\* What is true of a session whose caller keeps none after a cancelled exec.
SessionInv == /\ Typed /\ AnswerInv
              /\ OwnAnswer /\ (Listening => SessionOK)

\* The first state has nothing under way.
LEMMA SessionInit == SInit => SessionInv
<1> SUFFICES ASSUME SInit PROVE SessionInv
  OBVIOUS
<1>1. Typed /\ AnswerInv
  BY TypedInit, AnswerInit DEF SInit
<1>2. AnswersTo(toPeer) = {} /\ toPeer \in Seq(Parcels) /\ Len(out) = 0 /\ ~Waiting
  BY DEF SInit, Init, AnswersTo, AnswersAt, Waiting
<1>3. Len(inbox) = 0 /\ Len(held) = 0 /\ Len(toAgent) = 0
  BY DEF SInit, Init
<1>4. Numbered /\ Underway /\ Writing /\ Resting
  BY <1>2, <1>3 DEF SInit, Init, Numbered, Underway, Writing, Resting
<1>5. Arriving /\ Owing
  BY <1>2 DEF Arriving, Owing
<1>6. QED BY <1>1, <1>4, <1>5 DEF SInit, NoResult, SessionInv, SessionOK, OwnAnswer

\* With the agent's side, the client's side and the client that no longer
\* listens, every step of the session keeps the invariant.
LEMMA SessionNext == ~ReuseAfterCancel /\ SessionInv /\ [SNext]_svars => SessionInv'
<1> SUFFICES ASSUME ~ReuseAfterCancel, SessionInv, [SNext]_svars PROVE SessionInv'
  OBVIOUS
<1>1. Typed /\ AnswerInv /\ OutOK /\ OwnAnswer /\ Typed' /\ AnswerInv'
  BY AgentInSession DEF SessionInv, AnswerInv
<1>2. CASE Listening /\ SNext
  <2>1. SessionOK
    BY <1>2 DEF SessionInv
  <2>2. CASE (Agent \/ World) /\ UNCHANGED client
    <3>1. SessionOK'
      BY <1>1, <1>2, <2>1, <2>2, AgentSide
    <3>2. QED BY <1>1, <2>2, <3>1 DEF SessionInv, OwnAnswer, client
  <2>3. CASE Client \/ Breaks
    BY <1>1, <1>2, <2>1, <2>3, ClientSide DEF SessionInv
  <2>4. QED BY <1>2, <2>2, <2>3 DEF SNext
<1>3. CASE ~Listening /\ SNext
  BY <1>1, <1>3, DeafSide DEF SessionInv
<1>4. CASE UNCHANGED svars
  <2>1. UNCHANGED <<toAgent, sends, held, inbox, taken, current, phase, out, midFrame, toPeer,
                    cpc, call, cancelled, last, peerOpen, garbled>>
    BY <1>4 DEF svars, client
  <2>2. SessionOK => SessionOK'
    BY <2>1, SessionStays
  <2>3. Listening' => Listening
    BY <2>1 DEF Listening, Waiting
  <2>4. QED BY <1>1, <2>1, <2>2, <2>3 DEF SessionInv, OwnAnswer
<1>5. QED BY <1>2, <1>3, <1>4

\* Whatever a call of the client returns, a result or a refusal, is the
\* agent's answer to that very call, however the frames and the steps of the
\* two interleave, if the caller gives a session up after an exec it
\* cancelled, as `telemaco remote exec` does.
THEOREM AnswerIsOwn == ~ReuseAfterCancel => (SSpec => []OwnAnswer)
<1>1. SUFFICES ASSUME ~ReuseAfterCancel PROVE SSpec => []OwnAnswer
  OBVIOUS
<1>2. SessionInv /\ [SNext]_svars => SessionInv'
  BY <1>1, SessionNext
<1>3. SessionInv => OwnAnswer
  BY DEF SessionInv
<1>4. QED BY <1>2, <1>3, SessionInit, PTL DEF SSpec

-----------------------------------------------------------------------------
(* The session between calls.  The client sends what fits the phase the     *)
(* agent is in, so the agent neither hangs up nor complains, and the answer *)
(* to a call without a cancel is the last that comes.                       *)

Asks == {"ping", "status", "exec", "timedexec", "badexec"}

\* The agent's phase, as the client may rely on it.
Phases ==
    /\ phase \notin {"closing", "ended"}
    /\ cpc = "new" => phase = "handshake"
    /\ cpc = "ready" => phase = "serving"
    /\ Waiting /\ taken < call => \/ phase = "handshake" /\ asked = "hello"
                                  \/ phase = "serving" /\ asked \in Asks
    /\ Waiting /\ taken >= call => phase # "handshake"

\* The frame with the call's number is the one the client asked with.
Sending ==
    /\ inbox # <<>> /\ taken + 1 = call => inbox[1] = asked
    /\ held # <<>> /\ taken + Len(inbox) + 1 = call => held[1] = asked
    /\ \A i \in 1..Len(toAgent) :
          taken + Len(inbox) + Len(held) + i = call => toAgent[i] = asked

\* Nothing follows the answer to a call that was not cancelled, and once it is
\* read the stream is empty.
Emptied ==
    /\ ~cancelled => \A i \in AnswersAt(toPeer) : i = Len(toPeer)
    /\ ~Waiting => toPeer = <<>>

RestOK == Phases /\ Sending /\ Emptied

\* The agent's step is one it may take towards a client that waits.
LEMMA PhaseMoves ==
    ASSUME RestOK, UNCHANGED <<toAgent, held, inbox, taken, toPeer>>,
           UNCHANGED <<asked, call, cpc, cancelled>>,
           \/ phase' = phase
           \/ phase \in {"exec", "drain", "verdict"} /\ phase' \in {"exec", "drain", "verdict", "serving"}
    PROVE  RestOK'
<1>1. Sending' /\ Emptied'
  BY DEF RestOK, Sending, Emptied, Waiting
<1>2. Phases'
  BY DEF RestOK, Phases, Waiting
<1>3. QED BY <1>1, <1>2 DEF RestOK

\* What the session takes is the call, or the cancel of a call it has taken.
LEMMA TakesWhatWasAsked ==
    ASSUME Typed, Listening, SessionOK, RestOK, NEW f, Took(f),
           UNCHANGED <<toAgent, sends, held, toPeer>>, UNCHANGED client
    PROVE  /\ \/ phase = "handshake" /\ f = "hello"
              \/ phase = "serving" /\ f \in Asks
              \/ phase \notin {"handshake", "ended", "closing"} /\ f = "cancel"
           /\ f = "cancel" \/ phase \notin {"exec", "drain"}
           /\ phase' \in {"serving", "exec", "verdict"} => RestOK'
<1>1. /\ Waiting /\ taken' = taken + 1
      /\ taken + 1 = call \/ (taken = call /\ f = "cancel")
  BY TakesTheCall DEF client
<1>2. taken \in Nat /\ call \in Nat /\ Len(held) \in Nat /\ Len(toAgent) \in Nat
  BY SessionNumbers DEF Typed
<1>3. inbox \in Seq(Tokens) /\ Len(inbox) <= 1 /\ inbox # <<>> /\ inbox' = <<>> /\ f = Head(inbox)
  BY DEF Took, Typed
<1>4. Len(inbox) = 1 /\ f = inbox[1] /\ Len(inbox') = 0
  <2>1. Len(inbox) = 1 /\ Head(inbox) = inbox[1]
    BY ONLY <1>3, OnlyOne
  <2>2. QED BY <1>3, <2>1
<1>5. CASE taken + 1 = call
  <2>1. f = asked /\ taken < call
    BY <1>2, <1>3, <1>4, <1>5 DEF RestOK, Sending
  <2>2. \/ phase = "handshake" /\ f = "hello"
        \/ phase = "serving" /\ f \in Asks
    BY <1>1, <2>1 DEF RestOK, Phases
  <2>3. QED BY <1>1, <1>2, <1>3, <1>4, <1>5, <2>2 DEF RestOK, Phases, Sending, Emptied, Waiting, client
<1>6. CASE taken = call /\ f = "cancel"
  <2>1. phase \notin {"handshake", "closing", "ended"}
    BY <1>1, <1>2, <1>6 DEF RestOK, Phases
  <2>2. QED BY <1>1, <1>2, <1>3, <1>4, <1>6, <2>1 DEF RestOK, Phases, Sending, Emptied, Waiting, client
<1>7. QED BY <1>1, <1>5, <1>6

\* The reader moves a frame on.
LEMMA ReaderRests ==
    ASSUME Typed, Listening, RestOK, ReadFrame \/ QueueFrame, UNCHANGED client
    PROVE  RestOK'
<1>1. /\ taken \in Nat /\ Len(held) \in Nat /\ Len(inbox) \in Nat
      /\ toAgent \in Seq(Requests) /\ held \in Seq(Tokens) /\ inbox \in Seq(Tokens)
      /\ Len(held) <= 1
  BY DEF Typed
<1>2. UNCHANGED <<taken, phase, toPeer>> /\ UNCHANGED <<cpc, asked, call, cancelled>>
  BY DEF ReadFrame, QueueFrame, client
<1>3. Phases' /\ Emptied'
  BY <1>2 DEF RestOK, Phases, Emptied, Waiting
<1>4. Sending'
  <2>1. CASE ReadFrame
    <3>1. /\ toAgent # <<>> /\ held = <<>> /\ held' = <<Head(toAgent)>>
          /\ toAgent' = Tail(toAgent) /\ inbox' = inbox
      BY <2>1 DEF ReadFrame, Listening
    <3>2. PICK n \in Nat : n = Len(toAgent)
      BY <1>1
    <3>3. /\ n >= 1 /\ Len(toAgent') = n - 1 /\ \A i \in 1..(n - 1) : toAgent'[i] = toAgent[i + 1]
          /\ Head(toAgent) = toAgent[1]
      BY <1>1, <3>1, <3>2
    <3>4. Len(held) = 0 /\ Len(held') = 1 /\ held'[1] = toAgent[1]
      BY <3>1, <3>3
    <3>5. \A i \in 1..n : taken + Len(inbox) + i = call => toAgent[i] = asked
      BY <1>1, <3>2, <3>4 DEF RestOK, Sending
    <3>6. \A i \in 1..(n - 1) : i + 1 \in 1..n /\ taken + Len(inbox) + 1 + i = taken + Len(inbox) + (i + 1)
      BY <1>1
    <3>7. \A i \in 1..(n - 1) : taken + Len(inbox) + 1 + i = call => toAgent'[i] = asked
      BY <3>3, <3>5, <3>6
    <3>8. 1 \in 1..n
      BY <3>3
    <3>9. taken + Len(inbox) + 1 = call => held'[1] = asked
      BY <3>4, <3>5, <3>8
    <3>10. inbox' # <<>> /\ taken + 1 = call => inbox'[1] = asked
      BY <3>1 DEF RestOK, Sending
    <3>11. QED BY <1>2, <3>1, <3>3, <3>4, <3>7, <3>9, <3>10 DEF Sending
  <2>2. CASE QueueFrame
    <3>1. held # <<>> /\ inbox = <<>> /\ inbox' = held /\ held' = <<>> /\ toAgent' = toAgent
      BY <2>2 DEF QueueFrame
    <3>2. Len(inbox) = 0 /\ Len(held') = 0 /\ Len(held) = 1
      <4>1. Len(held) = 1
        BY ONLY <1>1, <3>1, OnlyOne
      <4>2. QED BY <3>1, <4>1
    <3>3. QED BY <1>1, <1>2, <3>1, <3>2 DEF RestOK, Sending
  <2>3. QED BY <2>1, <2>2
<1>5. QED BY <1>3, <1>4 DEF RestOK

\* A call that was not cancelled has no answer on the stream while the session
\* has something to write.
LEMMA NoAnswerYet ==
    ASSUME Typed, OutOK, SessionOK, out # <<>>, ~cancelled
    PROVE  Waiting /\ AnswersAt(toPeer) = {}
<1>1. Waiting
  BY DEF SessionOK, Resting
<1>2. taken \in Nat /\ call \in Nat /\ sends \in Nat
  BY SessionNumbers
<1>3. taken # call + 1
  <2>1. Len(inbox) \in Nat /\ Len(held) \in Nat /\ Len(toAgent) \in Nat
    BY DEF Typed
  <2>2. sends = call /\ sends = taken + Len(inbox) + Len(held) + Len(toAgent)
    BY DEF SessionOK, Numbered, Underway
  <2>3. QED BY <1>2, <2>1, <2>2
<1>4. AnswersTo(toPeer) = {}
  <2>1. CASE phase \in {"exec", "drain"}
    BY <1>1, <2>1 DEF SessionOK, Owing
  <2>2. CASE phase \notin {"exec", "drain"}
    <3>1. phase \in {"serving", "closing"} => out[1].type \in Replies
      BY DEF OutOK
    <3>2. phase = "verdict" => out[1].type \in {"Error", "Exited"}
      BY DEF OutOK, Msg, Error
    <3>3. phase \notin {"handshake", "ended"}
      BY DEF OutOK
    <3>4. out[1].type # "Output"
      BY <2>2, <3>1, <3>2, <3>3 DEF Typed, Replies
    <3>5. QED BY <1>1, <1>3, <3>4 DEF SessionOK, Owing
  <2>3. QED BY <2>1, <2>2
<1>5. QED BY <1>1, <1>4 DEF AnswersTo

\* A frame is begun or completed.
LEMMA WriterRests ==
    ASSUME Typed, OutOK, SessionOK, RestOK, WriteHead \/ WriteBody, UNCHANGED client
    PROVE  RestOK'
<1>1. out # <<>> /\ UNCHANGED <<toAgent, held, inbox, taken>>
      /\ UNCHANGED <<cpc, asked, call, cancelled>>
  BY DEF WriteHead, WriteBody, client
<1>2. phase' = phase \/ (phase = "verdict" /\ phase' = "serving")
  BY DEF WriteHead, WriteBody
<1>3. Phases' /\ Sending'
  BY <1>1, <1>2 DEF RestOK, Phases, Sending, Waiting
<1>4. Waiting /\ Waiting'
  BY <1>1 DEF SessionOK, Resting, Waiting
<1>5. ASSUME ~cancelled, NEW i \in AnswersAt(toPeer') PROVE i = Len(toPeer')
  <2>1. AnswersAt(toPeer) = {}
    BY <1>1, <1>5, NoAnswerYet
  <2>2. PICK s : s \in Seq(Parcels) /\ s = toPeer
    BY DEF SessionOK, Writing
  <2>3. PICK n \in Nat : n = Len(s)
    BY <2>2
  <2>4. CASE WriteHead
    <3>1. Len(toPeer') = n + 1 /\ \A j \in 1..n : toPeer'[j] = s[j]
      <4>1. PICK p : toPeer' = Append(s, p)
        BY <2>2, <2>4 DEF WriteHead
      <4>2. QED BY <2>2, <2>3, <4>1
    <3>2. i \in 1..n \/ i = n + 1
      BY <3>1 DEF AnswersAt
    <3>3. i \notin 1..n
      BY <2>1, <2>2, <2>3, <3>1 DEF AnswersAt
    <3>4. QED BY <3>1, <3>2, <3>3
  <2>5. CASE WriteBody
    <3>1. PICK t : t = toPeer' /\ t = [s EXCEPT ![n].whole = TRUE]
      BY <2>2, <2>3, <2>5 DEF WriteBody
    <3>2. Len(t) = n /\ \A j \in 1..n : j # n => t[j] = s[j]
      BY <2>2, <2>3, <3>1
    <3>3. i \in 1..n
      BY <3>1, <3>2 DEF AnswersAt
    <3>4. i # n => i \in AnswersAt(toPeer)
      BY <2>2, <2>3, <3>1, <3>2, <3>3 DEF AnswersAt
    <3>5. QED BY <2>1, <3>1, <3>2, <3>4
  <2>6. QED BY <2>4, <2>5
<1>6. Emptied'
  BY <1>1, <1>4, <1>5 DEF Emptied
<1>7. QED BY <1>3, <1>6 DEF RestOK

\* The agent's side: it never has a reason to hang up.
LEMMA AgentRests ==
    ASSUME Typed, OutOK, Listening, SessionOK, RestOK, Agent \/ World, UNCHANGED client
    PROVE  RestOK'
<1>1. UNCHANGED <<cpc, asked, call, cancelled>> /\ peerOpen
  BY DEF client, Listening
<1>2. CASE ReadFrame \/ QueueFrame
  BY <1>2, ReaderRests
<1>3. CASE WriteHead \/ WriteBody
  BY <1>3, WriterRests
<1>4. CASE World \/ ForwardOutput \/ NoticeExit \/ Deadline \/ Drained \/ DrainTimeout
  <2>1. UNCHANGED <<toAgent, held, inbox, taken, toPeer>>
    BY <1>4 DEF World, ProgramWrites, ProgramExits, HeirExits, TimePasses, ForwardOutput,
       NoticeExit, Deadline, Drained, DrainTimeout
  <2>2. \/ phase' = phase
        \/ phase \in {"exec", "drain", "verdict"} /\ phase' \in {"exec", "drain", "verdict", "serving"}
    BY <1>4 DEF World, ProgramWrites, ProgramExits, HeirExits, TimePasses, ForwardOutput,
       NoticeExit, Deadline, Drained, DrainTimeout, Settle, Answer
  <2>3. QED BY <1>1, <2>1, <2>2, PhaseMoves
<1>5. ASSUME NEW f, Took(f), UNCHANGED <<toAgent, sends, held, toPeer>>
      PROVE  /\ \/ phase = "handshake" /\ f = "hello"
                \/ phase = "serving" /\ f \in Asks
                \/ phase \notin {"handshake", "ended", "closing"} /\ f = "cancel"
             /\ f = "cancel" \/ phase \notin {"exec", "drain"}
             /\ phase' \in {"serving", "exec", "verdict"} => RestOK'
  BY ONLY <1>5, Typed, Listening, SessionOK, RestOK, UNCHANGED client, TakesWhatWasAsked
<1>6. CASE Handshake
  <2>1. PICK f : /\ Took(f)
                 /\ f = "hello" => phase' = "serving"
    BY <1>6 DEF Handshake, Answer
  <2>2. phase = "handshake" /\ UNCHANGED <<toAgent, sends, held, toPeer>>
    BY <1>6 DEF Handshake
  <2>3. QED BY <1>5, <2>1, <2>2
<1>7. CASE Serve
  <2>1. PICK f : /\ Took(f)
                 /\ phase' = IF f = "oversize" THEN "closing" ELSE "serving"
    BY <1>7 DEF Serve, Answer
  <2>2. phase = "serving" /\ UNCHANGED <<toAgent, sends, held, toPeer>>
    BY <1>7 DEF Serve
  <2>3. f # "oversize"
    BY <1>5, <2>1, <2>2 DEF Asks
  <2>4. QED BY <1>5, <2>1, <2>2, <2>3
<1>8. CASE RefuseExec \/ StartExec
  <2>1. PICK f : Took(f)
    BY <1>8 DEF RefuseExec, StartExec
  <2>2. phase' \in {"serving", "exec"} /\ UNCHANGED <<toAgent, sends, held, toPeer>>
    BY <1>8 DEF RefuseExec, StartExec, Answer
  <2>3. QED BY <1>5, <2>1, <2>2
<1>9. CASE CancelExec
  <2>1. Took("cancel") /\ phase' = "verdict" /\ UNCHANGED <<toAgent, sends, held, toPeer>>
    BY <1>9 DEF CancelExec, Settle, Answer
  <2>2. QED BY <1>5, <2>1
<1>10. CASE ServeEof \/ ClientGone
  <2>1. PICK f : Took(f) /\ f \in {"eof", "oversize"}
    BY <1>10 DEF ServeEof, ClientGone
  <2>2. UNCHANGED <<toAgent, sends, held, toPeer>>
    BY <1>10 DEF ServeEof, ClientGone
  <2>3. QED BY <1>5, <2>1, <2>2 DEF Asks
<1>11. CASE MisplacedFrame
  <2>1. PICK f : Took(f) /\ f # "cancel"
    BY <1>11 DEF MisplacedFrame
  <2>2. phase = "exec" /\ UNCHANGED <<toAgent, sends, held, toPeer>>
    BY <1>11 DEF MisplacedFrame
  <2>3. QED BY <1>5, <2>1, <2>2
<1>12. CASE HangUp \/ WriteFails
  BY <1>1, <1>12 DEF HangUp, WriteFails, RestOK, Phases
<1>13. QED BY <1>2, <1>3, <1>4, <1>6, <1>7, <1>8, <1>9, <1>10, <1>11, <1>12 DEF Agent

\* The client asks what fits the phase.
LEMMA AskRests ==
    ASSUME Typed, Listening, SessionOK, RestOK, NEW f \in Requests, NEW next \in {"await", "exec"},
           Ask(f, next), \/ cpc = "new" /\ f = "hello"
                         \/ cpc = "ready" /\ f \in Asks
    PROVE  RestOK'
<1>1. /\ toAgent' = Append(toAgent, f) /\ sends' = sends + 1
      /\ UNCHANGED <<held, inbox, taken, phase, toPeer>>
      /\ cpc' = next /\ call' = sends + 1 /\ asked' = f /\ ~Waiting
  BY DEF Ask, PeerSend, Waiting
<1>2. taken \in Nat /\ call \in Nat /\ sends \in Nat
  BY SessionNumbers
<1>3. toAgent \in Seq(Requests) /\ held \in Seq(Tokens) /\ inbox \in Seq(Tokens)
  BY DEF Typed
<1>4. taken = call /\ sends = call /\ sends = taken + Len(inbox) + Len(held) + Len(toAgent)
  BY <1>1 DEF Listening, SessionOK, Resting, Numbered, Underway
<1>5. Len(inbox) = 0 /\ Len(held) = 0 /\ Len(toAgent) = 0
  <2>1. Len(inbox) \in Nat /\ Len(held) \in Nat /\ Len(toAgent) \in Nat
    BY <1>3
  <2>2. QED BY <1>2, <1>4, <2>1
<1>6. inbox = <<>> /\ held = <<>> /\ Len(toAgent') = 1 /\ toAgent'[1] = f
  <2>1. inbox = <<>> /\ held = <<>> /\ toAgent = <<>>
    BY <1>3, <1>5, EmptySeq
  <2>2. QED BY <1>1, <2>1
<1>7. Sending'
  BY <1>1, <1>6 DEF Sending
<1>8. AnswersAt(toPeer') = {} /\ Waiting'
  BY <1>1 DEF RestOK, Emptied, AnswersAt, Waiting
<1>9. taken' < call'
  BY <1>1, <1>2, <1>4
<1>10. Phases'
  BY <1>1, <1>2, <1>8, <1>9 DEF RestOK, Phases, Waiting
<1>11. QED BY <1>7, <1>8, <1>10 DEF RestOK, Emptied

\* It sends the cancel.
LEMMA CancelRests ==
    ASSUME Typed, SessionOK, RestOK, SendCancel
    PROVE  RestOK'
<1>1. /\ toAgent' = Append(toAgent, "cancel")
      /\ UNCHANGED <<held, inbox, taken, phase, toPeer>>
      /\ UNCHANGED <<asked, call, cancelled>>
      /\ cpc = "cancelling" /\ cpc' = "exec"
  BY DEF SendCancel, PeerSend
<1>2. /\ taken \in Nat /\ call \in Nat /\ Len(inbox) \in Nat /\ Len(held) \in Nat
      /\ toAgent \in Seq(Requests)
  BY SessionNumbers DEF Typed
<1>3. PICK n \in Nat : n = Len(toAgent)
  BY <1>2
<1>4. Len(toAgent') = n + 1 /\ \A i \in 1..n : toAgent'[i] = toAgent[i]
  <2>1. "cancel" \in Requests
    BY DEF Requests
  <2>2. QED BY <1>1, <1>2, <1>3, <2>1
<1>5. taken + Len(inbox) + Len(held) + (n + 1) # call
  <2>1. sends = call /\ sends = taken + Len(inbox) + Len(held) + n
    BY <1>1, <1>3 DEF SessionOK, Numbered, Underway
  <2>2. QED BY <1>2, <2>1
<1>6. \A i \in 1..(n + 1) : i = n + 1 \/ i \in 1..n
  OBVIOUS
<1>7. Sending'
  BY <1>1, <1>3, <1>4, <1>5, <1>6 DEF RestOK, Sending
<1>8. Phases' /\ Emptied'
  BY <1>1 DEF RestOK, Phases, Emptied, Waiting
<1>9. QED BY <1>7, <1>8 DEF RestOK

\* It reads: the answer to a call it did not cancel leaves nothing behind.
LEMMA ReceiveRests ==
    ASSUME Typed, OutOK', Listening, SessionOK, RestOK, Receive, ~ReuseAfterCancel,
           Listening', SessionOK', Typed'
    PROVE  RestOK'
<1>1. PICK s, t : s \in Seq(Parcels) /\ s = toPeer /\ t = toPeer' /\ t = Tail(s) /\ s # <<>>
  BY DEF SessionOK, Writing, Receive, PeerTake, Arrived
<1>2. PICK p : p = Head(s)
  OBVIOUS
<1>3. PICK n \in Nat : n = Len(s)
  BY <1>1
<1>4. /\ n >= 1 /\ p = s[1] /\ Len(t) = n - 1 /\ t \in Seq(Parcels)
      /\ \A i \in 1..(n - 1) : t[i] = s[i + 1]
  BY <1>1, <1>2, <1>3
<1>5. /\ p.whole /\ cpc \in {"await", "exec"} /\ UNCHANGED <<toAgent, held, inbox, taken, phase, out>>
      /\ UNCHANGED <<asked, call>>
  BY <1>1, <1>2 DEF Receive, PeerTake
<1>6. Sending'
  BY <1>5 DEF RestOK, Sending
<1>7. ASSUME ~cancelled, NEW i \in AnswersAt(t) PROVE i = Len(t)
  <2>1. i \in 1..(n - 1) /\ i + 1 \in AnswersAt(s)
    BY <1>3, <1>4, <1>7 DEF AnswersAt
  <2>2. i + 1 = n
    BY <1>1, <1>3, <1>7, <2>1 DEF RestOK, Emptied
  <2>3. QED BY <1>4, <2>1, <2>2
<1>8. CASE UNCHANGED <<cpc, cancelled>>
  <2>1. Waiting /\ Waiting'
    BY <1>5, <1>8 DEF Waiting
  <2>2. Emptied'
    BY <1>1, <1>7, <1>8, <2>1 DEF Emptied
  <2>3. Phases'
    BY <1>5, <1>8, <2>1 DEF RestOK, Phases, Waiting
  <2>4. QED BY <1>6, <2>2, <2>3 DEF RestOK
<1>9. CASE cpc' = "failed"
  BY <1>9 DEF Listening, Waiting
<1>10. ASSUME NEW refused, p.msg.type # "Output", Returns(p.msg, refused) PROVE RestOK'
  <2>1. ~cancelled /\ ~cancelled' /\ cpc' = "ready" /\ ~Waiting'
    BY <1>10 DEF Returns, Reusable, Listening, Waiting
  <2>2. t = <<>> /\ Len(t) = 0
    <3>1. 1 \in AnswersAt(s)
      BY <1>3, <1>4, <1>5, <1>10 DEF AnswersAt
    <3>2. n = 1
      BY <1>1, <1>3, <2>1, <3>1 DEF RestOK, Emptied
    <3>3. Len(t) = 0
      BY <1>4, <3>2
    <3>4. QED BY <1>4, <3>3, EmptySeq
  <2>3. AnswersAt(t) = {} /\ Emptied'
    <3>1. AnswersAt(t) = {}
      BY ONLY <2>2 DEF AnswersAt
    <3>2. (\A i \in AnswersAt(toPeer') : i = Len(toPeer')) /\ toPeer' = <<>>
      BY ONLY <1>1, <2>2, <3>1
    <3>3. QED BY <3>1, <3>2 DEF Emptied
  <2>4. phase' = "serving"
    <3>1. taken' = call' /\ out' = <<>> /\ phase' \notin {"exec", "drain"}
      BY <2>1 DEF SessionOK, Resting
    <3>2. phase' # "verdict"
      BY <3>1 DEF OutOK
    <3>3. phase' # "handshake"
      <4>1. Waiting /\ taken = call /\ taken \in Nat
        BY <1>5, <3>1 DEF Waiting, Typed
      <4>2. QED BY <1>5, <4>1 DEF RestOK, Phases
    <3>4. phase' \notin {"closing", "ended"}
      BY <1>5 DEF RestOK, Phases
    <3>5. QED BY <3>1, <3>2, <3>3, <3>4 DEF Typed
  <2>5. Phases'
    BY <2>1, <2>4 DEF Phases
  <2>6. QED BY <1>6, <2>3, <2>5 DEF RestOK
<1>11. Expected(p.msg) => p.msg.type # "Output"
  BY DEF Expected
<1>12. \/ cpc' = "failed"
       \/ UNCHANGED <<cpc, cancelled>>
       \/ \E refused \in BOOLEAN : p.msg.type # "Output" /\ Returns(p.msg, refused)
  BY <1>1, <1>2, <1>11 DEF Receive, Fails
<1>13. QED BY <1>8, <1>9, <1>10, <1>12

\* Every step of the client.
LEMMA ClientRests ==
    ASSUME Typed, OutOK', Listening, SessionOK, RestOK, ~ReuseAfterCancel, Client \/ Breaks,
           Listening', SessionOK', Typed'
    PROVE  RestOK'
<1>1. CASE SayHello \/ Call \/ Exec
  <2>1. PICK f \in Requests, next \in {"await", "exec"} :
          Ask(f, next) /\ \/ cpc = "new" /\ f = "hello"
                          \/ cpc = "ready" /\ f \in Asks
    BY <1>1, FramesAssumption DEF SayHello, Call, Exec, Requests, Asks
  <2>2. QED BY <2>1, AskRests
<1>2. CASE Cancelling
  BY <1>2 DEF Cancelling, RestOK, Phases, Sending, Emptied, Waiting
<1>3. CASE SendCancel
  BY <1>3, CancelRests
<1>4. CASE Receive
  BY <1>4, ReceiveRests
<1>5. CASE ReceiveGarbage \/ AgentGone \/ GraceExpires \/ Leave
  BY <1>5 DEF ReceiveGarbage, AgentGone, GraceExpires, Leave, Fails, Listening, Waiting
<1>6. CASE Breaks
  BY <1>6 DEF Breaks, PeerClose, Listening
<1>7. QED BY <1>1, <1>2, <1>3, <1>4, <1>5, <1>6 DEF Client

\* A client that may ask is one that may be answered.
AsksOpenly == cpc \in {"new", "ready"} => peerOpen /\ ~garbled

\* A client that hung up, broke off or read garbage asks no more.
LEMMA OpenStep == AsksOpenly /\ [SNext]_svars => AsksOpenly'
<1> SUFFICES ASSUME AsksOpenly, [SNext]_svars PROVE AsksOpenly'
  OBVIOUS
<1> USE DEF AsksOpenly
<1>1. CASE (Agent \/ World) /\ UNCHANGED client
  <2>1. UNCHANGED peerOpen
    BY <1>1 DEF Agent, World, ReadFrame, QueueFrame, Handshake, Serve, ServeEof, RefuseExec,
       StartExec, ForwardOutput, NoticeExit, Deadline, CancelExec, MisplacedFrame, ClientGone,
       Drained, DrainTimeout, WriteHead, WriteBody, HangUp, WriteFails,
       ProgramWrites, ProgramExits, HeirExits, TimePasses
  <2>2. QED BY <1>1, <2>1 DEF client
<1>2. CASE SayHello \/ Call \/ Exec \/ Cancelling \/ SendCancel
  BY <1>2 DEF SayHello, Call, Exec, Cancelling, SendCancel, Ask
<1>3. CASE Receive
  BY <1>3 DEF Receive, PeerTake
<1>4. CASE ReceiveGarbage \/ AgentGone \/ GraceExpires \/ Leave
  BY <1>4 DEF ReceiveGarbage, AgentGone, GraceExpires, Leave, Fails, PeerTake
<1>5. CASE Breaks
  BY <1>5 DEF Breaks, PeerClose, client
<1>6. CASE UNCHANGED svars
  BY <1>6 DEF svars, client
<1>7. QED BY <1>1, <1>2, <1>3, <1>4, <1>5, <1>6 DEF SNext, Client

\* A client that no longer listens does not listen again.
LEMMA ListensNoMore == ASSUME [SNext]_svars, OwnAnswer, Listening' PROVE Listening
<1>1. CASE SNext
  BY <1>1, DeafSide
<1>2. CASE UNCHANGED svars
  BY <1>2 DEF svars, client, Listening, Waiting
<1>3. QED BY <1>1, <1>2

\* What is true besides of such a session, as long as its client listens.
RestInv == SessionInv /\ NoOrphan /\ AsksOpenly /\ (Listening => RestOK)

\* At first the client is new and the agent waits for its hello.
LEMMA RestInit == SInit => RestInv
<1> SUFFICES ASSUME SInit PROVE RestInv
  OBVIOUS
<1>1. SessionInv
  BY SessionInit
<1>2. NoOrphan /\ AsksOpenly
  BY DEF SInit, Init, NoOrphan, AsksOpenly
<1>3. ~Waiting /\ AnswersAt(toPeer) = {}
  BY DEF SInit, Init, Waiting, AnswersAt
<1>4. Phases /\ Sending /\ Emptied
  BY <1>3 DEF SInit, Init, Phases, Sending, Emptied
<1>5. QED BY <1>1, <1>2, <1>4 DEF RestInv, RestOK

\* With the agent's side and the client's side, every step of the session
\* keeps the invariant.
LEMMA RestNext == ~ReuseAfterCancel /\ RestInv /\ [SNext]_svars => RestInv'
<1> SUFFICES ASSUME ~ReuseAfterCancel, RestInv, [SNext]_svars PROVE RestInv'
  OBVIOUS
<1>1. SessionInv /\ SessionInv'
  BY SessionNext DEF RestInv
<1>2. /\ Typed /\ OutOK /\ OwnAnswer /\ (Listening => SessionOK)
      /\ Typed' /\ OutOK' /\ (Listening' => SessionOK')
  BY <1>1 DEF SessionInv, AnswerInv
<1>3. NoOrphan'
  <2>1. CASE [Next]_vars
    BY <1>2, <2>1, OrphanStep DEF RestInv
  <2>2. CASE \E f \in Requests : PeerSend(f)
    BY <2>2 DEF RestInv, PeerSend, NoOrphan
  <2>3. QED BY <2>1, <2>2, SessionSteps
<1>4. AsksOpenly'
  BY OpenStep DEF RestInv
<1>5. ASSUME Listening' PROVE RestOK'
  <2>1. Listening /\ SessionOK /\ SessionOK' /\ RestOK
    BY <1>2, <1>5, ListensNoMore DEF RestInv
  <2>2. CASE (Agent \/ World) /\ UNCHANGED client
    BY <1>2, <2>1, <2>2, AgentRests
  <2>3. CASE Client \/ Breaks
    BY <1>2, <1>5, <2>1, <2>3, ClientRests
  <2>4. CASE UNCHANGED svars
    BY <2>1, <2>4, PhaseMoves DEF svars, client
  <2>5. QED BY <2>2, <2>3, <2>4 DEF SNext
<1>6. QED BY <1>1, <1>3, <1>4, <1>5 DEF RestInv

\* A client that is ready for its next call finds the session at rest: nothing
\* of an earlier call is on its way in either direction, the agent serves, and
\* no program runs.
THEOREM ReadyIsAtRest == ~ReuseAfterCancel => (SSpec => []AtRest)
<1>1. SUFFICES ASSUME ~ReuseAfterCancel PROVE SSpec => []AtRest
  OBVIOUS
<1>2. RestInv /\ [SNext]_svars => RestInv'
  BY <1>1, RestNext
<1>3. RestInv => AtRest
  <2> SUFFICES ASSUME RestInv, cpc = "ready"
               PROVE  /\ toAgent = <<>> /\ held = <<>> /\ inbox = <<>> /\ out = <<>> /\ toPeer = <<>>
                      /\ phase = "serving" /\ child # "running"
    BY DEF AtRest
  <2>1. Listening /\ ~Waiting
    BY DEF RestInv, AsksOpenly, Listening, Waiting
  <2>2. SessionOK /\ RestOK /\ Typed
    BY <2>1 DEF RestInv, SessionInv
  <2>3. phase = "serving" /\ toPeer = <<>> /\ out = <<>> /\ child # "running"
    BY <2>1, <2>2 DEF RestInv, NoOrphan, RestOK, Phases, Emptied, SessionOK, Resting
  <2>4. taken = call /\ sends = call /\ sends = taken + Len(inbox) + Len(held) + Len(toAgent)
    BY <2>1, <2>2 DEF SessionOK, Resting, Numbered, Underway
  <2>5. /\ inbox \in Seq(Tokens) /\ held \in Seq(Tokens) /\ toAgent \in Seq(Requests)
        /\ taken \in Nat /\ call \in Nat
    BY <2>2 DEF Typed, SessionOK, Numbered
  <2>6. Len(inbox) = 0 /\ Len(held) = 0 /\ Len(toAgent) = 0
    <3>1. Len(inbox) \in Nat /\ Len(held) \in Nat /\ Len(toAgent) \in Nat
      BY <2>5
    <3>2. QED BY <2>4, <2>5, <3>1
  <2>7. inbox = <<>> /\ held = <<>> /\ toAgent = <<>>
    BY <2>5, <2>6, EmptySeq
  <2>8. QED BY <2>3, <2>7
<1>4. QED BY <1>2, <1>3, RestInit, PTL DEF SSpec

-----------------------------------------------------------------------------
(* Types of the session.                                                   *)

\* The stream to the client holds frames of the protocol, cut ones included.
StreamTyped == toPeer \in Seq(Parcels)

\* So it does when a frame is begun, completed or read.
LEMMA StreamTypedStep ==
    ASSUME Typed, StreamTyped, [Next]_vars \/ \E f \in Requests : PeerSend(f)
    PROVE  StreamTyped'
<1> USE DEF StreamTyped
<1>1. CASE WriteHead
  <2>1. Head(out) \in Messages
    BY <1>1 DEF WriteHead, Typed
  <2>2. PICK p \in Parcels : p = [msg |-> Head(out), whole |-> FALSE]
    BY <2>1 DEF Parcels
  <2>3. toPeer' = Append(toPeer, p)
    BY <1>1, <2>2 DEF WriteHead
  <2>4. QED BY <2>3
<1>2. CASE WriteBody
  <2>1. PICK n \in Nat : n = Len(toPeer)
    OBVIOUS
  <2>2. toPeer' = [toPeer EXCEPT ![n].whole = TRUE] /\ toPeer \in [1..n -> Parcels]
    BY <1>2, <2>1 DEF WriteBody
  <2>3. toPeer' \in [1..n -> Parcels]
    BY <2>2 DEF Parcels
  <2>4. QED BY <2>3
<1>3. CASE PeerTake
  <2>1. toPeer # <<>> /\ toPeer' = Tail(toPeer)
    BY <1>3 DEF PeerTake, Arrived
  <2>2. QED BY <2>1
<1>4. CASE UNCHANGED toPeer
  BY <1>4
<1>5. WriteHead \/ WriteBody \/ PeerTake \/ UNCHANGED toPeer
  <2>1. CASE (\E f \in Requests : PeerSend(f)) \/ (\E f \in Frames : PeerSend(f)) \/ PeerClose
    BY <2>1 DEF PeerSend, PeerClose
  <2>2. CASE World
    BY <2>2 DEF World, ProgramWrites, ProgramExits, HeirExits, TimePasses
  <2>3. CASE Agent
    BY <2>3 DEF Agent, ReadFrame, QueueFrame, Handshake, Serve, ServeEof, RefuseExec,
       StartExec, ForwardOutput, NoticeExit, Deadline, CancelExec, MisplacedFrame, ClientGone,
       Drained, DrainTimeout, HangUp, WriteFails
  <2>4. CASE UNCHANGED vars
    BY <2>4
  <2>5. QED BY <2>1, <2>2, <2>3, <2>4 DEF Next, Peer
<1>6. QED BY <1>1, <1>2, <1>3, <1>4, <1>5

\* The client's variables keep their types.
LEMMA ClientTyped ==
    ASSUME Typed, ClientTypeOK, AsksOpenly, StreamTyped, [SNext]_svars, Typed'
    PROVE  ClientTypeOK'
<1> USE DEF ClientTypeOK
<1>1. sends \in Nat /\ sends' \in Nat /\ sends <= sends'
  <2>1. sends \in Nat /\ sends' \in Nat
    BY DEF Typed
  <2>2. CASE [Next]_vars
    <3>1. CASE Peer
      BY <2>1, <3>1 DEF Peer, PeerSend, PeerTake, PeerClose
    <3>2. CASE World
      BY <2>1, <3>2 DEF World, ProgramWrites, ProgramExits, HeirExits, TimePasses
    <3>3. CASE Agent
      BY <2>1, <3>3 DEF Agent, ReadFrame, QueueFrame, Handshake, Serve, ServeEof, RefuseExec,
         StartExec, ForwardOutput, NoticeExit, Deadline, CancelExec, MisplacedFrame, ClientGone,
         Drained, DrainTimeout, WriteHead, WriteBody, HangUp, WriteFails
    <3>4. QED BY <2>1, <2>2, <3>1, <3>2, <3>3 DEF Next
  <2>3. CASE \E f \in Requests : PeerSend(f)
    BY <2>1, <2>3 DEF PeerSend
  <2>4. QED BY <2>2, <2>3, SessionSteps
<1>2. CASE (Agent \/ World) /\ UNCHANGED client
  <2>1. UNCHANGED <<cpc, asked, call, cancelled, garbled, last>>
    BY <1>2 DEF client
  <2>2. call' <= sends'
    BY <1>1, <2>1
  <2>3. QED BY <2>1, <2>2
<1>3. CASE SayHello \/ Call \/ Exec
  <2>1. PICK f \in Requests : Ask(f, "await") \/ Ask(f, "exec")
    BY <1>3 DEF SayHello, Call, Exec, Requests
  <2>2. ~garbled
    BY <1>3 DEF SayHello, Call, Exec, AsksOpenly
  <2>3. sends' = sends + 1 /\ call' = sends + 1 /\ asked' = f /\ cancelled' = FALSE
    BY <2>1 DEF Ask, PeerSend
  <2>4. UNCHANGED <<garbled, last>> /\ cpc' \in {"await", "exec"}
    BY <2>1 DEF Ask
  <2>5. call' \in Nat /\ call' <= sends'
    BY <1>1, <2>3
  <2>6. QED BY <2>2, <2>3, <2>4, <2>5
<1>4. CASE Cancelling \/ SendCancel \/ AgentGone \/ GraceExpires
  <2>1. UNCHANGED <<asked, call, garbled, last>> /\ cancelled' \in BOOLEAN
    BY <1>4 DEF Cancelling, SendCancel, AgentGone, GraceExpires, Fails
  <2>2. cpc' \in {"cancelling", "exec", "failed"}
    BY <1>4 DEF Cancelling, SendCancel, AgentGone, GraceExpires, Fails
  <2>3. call' <= sends'
    BY <1>1, <2>1
  <2>4. QED BY <2>1, <2>2, <2>3
<1>5. CASE Receive
  <2>1. UNCHANGED <<asked, call, garbled>> /\ ~garbled
    BY <1>5 DEF Receive
  <2>2. Head(toPeer).msg.for \in Nat
    <3>1. toPeer # <<>> /\ toPeer \in Seq(Parcels)
      BY <1>5 DEF Receive, Arrived, StreamTyped
    <3>2. Head(toPeer) \in Parcels
      BY <3>1
    <3>3. QED BY <3>2 DEF Parcels, Messages
  <2>3. \/ \E refused \in BOOLEAN : Returns(Head(toPeer).msg, refused)
        \/ Fails
        \/ UNCHANGED <<cpc, cancelled, last>>
    BY <1>5 DEF Receive
  <2>4. cpc' \in {"new", "await", "exec", "cancelling", "ready", "failed", "left"}
    BY <2>3 DEF Returns, Fails
  <2>5. cancelled' \in BOOLEAN /\ last' \in [call : Nat, refused : BOOLEAN, for : Nat]
    BY <2>2, <2>3 DEF Returns, Fails
  <2>6. QED BY <1>1, <2>1, <2>4, <2>5
<1>6. CASE ReceiveGarbage
  BY <1>1, <1>6 DEF ReceiveGarbage, Fails
<1>7. CASE Leave \/ Breaks
  BY <1>1, <1>7 DEF Leave, Breaks, client
<1>8. CASE UNCHANGED svars
  BY <1>1, <1>8 DEF svars, client
<1>9. QED BY <1>2, <1>3, <1>4, <1>5, <1>6, <1>7, <1>8 DEF SNext, Client

\* Every variable of agent and client keeps its type, whatever the caller does
\* after a cancel.
THEOREM SessionTypeCorrect == SSpec => [](TypeOK /\ ClientTypeOK)
<1> DEFINE I == Typed /\ AnswerInv /\ StreamTyped /\ AsksOpenly /\ ClientTypeOK
<1>1. SInit => I
  <2> SUFFICES ASSUME SInit PROVE I
    OBVIOUS
  <2>1. Typed /\ AnswerInv
    BY TypedInit, AnswerInit DEF SInit
  <2>2. sends = 0 /\ toPeer = <<>> /\ peerOpen
    BY DEF SInit, Init
  <2>3. last \in [call : Nat, refused : BOOLEAN, for : Nat] /\ asked \in Requests
    BY DEF SInit, NoResult, Requests
  <2>4. StreamTyped
    BY <2>2 DEF StreamTyped
  <2>5. cpc = "new" /\ call = 0 /\ cancelled = FALSE /\ garbled = FALSE
    BY DEF SInit
  <2>6. call \in Nat /\ call <= sends
    BY <2>2, <2>5
  <2>7. ClientTypeOK
    BY <2>3, <2>5, <2>6 DEF ClientTypeOK
  <2>8. AsksOpenly
    BY <2>2, <2>5 DEF AsksOpenly
  <2>9. QED BY <2>1, <2>4, <2>7, <2>8
<1>2. I /\ [SNext]_svars => I'
  <2> SUFFICES ASSUME I, [SNext]_svars PROVE I'
    OBVIOUS
  <2>1. Typed' /\ AnswerInv'
    BY AgentInSession
  <2>2. StreamTyped'
    BY SessionSteps, StreamTypedStep
  <2>3. AsksOpenly'
    BY OpenStep
  <2>4. ClientTypeOK'
    BY <2>1, ClientTyped
  <2>5. QED BY <2>1, <2>2, <2>3, <2>4
<1>3. I => TypeOK /\ ClientTypeOK
  BY TypedIsTypeOK
<1> HIDE DEF I
<1>4. QED BY <1>1, <1>2, <1>3, PTL DEF SSpec
=============================================================================
