--------------------------- MODULE CdpServer_proofs ---------------------------
(***************************************************************************)
(* Proofs about CdpServer, for every number of clients and every limit:    *)
(* its type invariant, the exactness of the slot count, that no socket is  *)
(* lost or held twice, and that a drain which did not give up has merged   *)
(* every connection's cookies.                                             *)
(***************************************************************************)
EXTENDS CdpServer, FiniteSetTheorems, TLAPS

-----------------------------------------------------------------------------
(* The members of a queue without repetitions.                             *)

Elems(s) == {s[i] : i \in 1..Len(s)}
Distinct(s) == \A i, j \in 1..Len(s) : s[i] = s[j] => i = j

\* Taking the head of a queue without repetitions removes exactly that member.
LEMMA TailElems ==
  ASSUME NEW S, NEW s \in Seq(S), s # <<>>, Distinct(s)
  PROVE  /\ Tail(s) \in Seq(S)
         /\ Head(s) \in S /\ Head(s) \in Elems(s)
         /\ Elems(Tail(s)) = Elems(s) \ {Head(s)}
         /\ Distinct(Tail(s))
<1>1. /\ Len(s) \in Nat \ {0} /\ Tail(s) \in Seq(S) /\ Len(Tail(s)) = Len(s) - 1
      /\ Head(s) = s[1] /\ \A i \in 1..(Len(s) - 1) : Tail(s)[i] = s[i + 1]
      /\ Head(s) \in S
  OBVIOUS
<1>2. Distinct(Tail(s))
  BY <1>1 DEF Distinct
<1>3. Elems(Tail(s)) \subseteq Elems(s) \ {Head(s)}
  <2>1. SUFFICES ASSUME NEW i \in 1..Len(Tail(s))
                 PROVE  Tail(s)[i] \in Elems(s) \ {Head(s)}
    BY DEF Elems
  <2>2. i \in 1..(Len(s) - 1) /\ i + 1 \in 1..Len(s) /\ 1 \in 1..Len(s) /\ i + 1 # 1
    BY <1>1
  <2>3. QED BY <1>1, <2>2 DEF Distinct, Elems
<1>4. Elems(s) \ {Head(s)} \subseteq Elems(Tail(s))
  <2>1. SUFFICES ASSUME NEW i \in 1..Len(s), s[i] # Head(s)
                 PROVE  s[i] \in Elems(Tail(s))
    BY DEF Elems
  <2>2. i - 1 \in 1..Len(Tail(s)) /\ Tail(s)[i - 1] = s[i]
    BY <1>1, <2>1
  <2>3. QED BY <2>2 DEF Elems
<1>5. Head(s) \in Elems(s)
  BY <1>1 DEF Elems
<1>6. QED BY <1>1, <1>2, <1>3, <1>4, <1>5

\* Appending adds exactly the new member.
LEMMA AppendElems ==
  ASSUME NEW S, NEW s \in Seq(S), NEW x \in S
  PROVE  /\ Append(s, x) \in Seq(S)
         /\ Elems(Append(s, x)) = Elems(s) \cup {x}
         /\ Distinct(s) /\ x \notin Elems(s) => Distinct(Append(s, x))
<1>1. /\ Len(s) \in Nat /\ Append(s, x) \in Seq(S) /\ Len(Append(s, x)) = Len(s) + 1
      /\ \A i \in 1..Len(s) : Append(s, x)[i] = s[i]
      /\ Append(s, x)[Len(s) + 1] = x
  OBVIOUS
<1>2. Elems(Append(s, x)) \subseteq Elems(s) \cup {x}
  <2>1. SUFFICES ASSUME NEW i \in 1..Len(Append(s, x))
                 PROVE  Append(s, x)[i] \in Elems(s) \cup {x}
    BY DEF Elems
  <2>2. i \in 1..Len(s) \/ i = Len(s) + 1
    BY <1>1
  <2>3. QED BY <1>1, <2>2 DEF Elems
<1>3. Elems(s) \cup {x} \subseteq Elems(Append(s, x))
  <2>1. \A i \in 1..Len(s) : i \in 1..Len(Append(s, x))
    BY <1>1
  <2>2. Len(s) + 1 \in 1..Len(Append(s, x))
    BY <1>1
  <2>3. QED BY <1>1, <2>1, <2>2 DEF Elems
<1>4. Distinct(s) /\ x \notin Elems(s) => Distinct(Append(s, x))
  <2>1. SUFFICES ASSUME Distinct(s), x \notin Elems(s),
                        NEW i \in 1..Len(Append(s, x)), NEW j \in 1..Len(Append(s, x)),
                        Append(s, x)[i] = Append(s, x)[j]
                 PROVE  i = j
    BY DEF Distinct
  <2>2. i \in 1..Len(s) \/ i = Len(s) + 1
    BY <1>1
  <2>3. j \in 1..Len(s) \/ j = Len(s) + 1
    BY <1>1
  <2>4. \A k \in 1..Len(s) : s[k] # x
    BY <2>1 DEF Elems
  <2>5. QED BY <1>1, <2>1, <2>2, <2>3, <2>4 DEF Distinct
<1>5. QED BY <1>1, <1>2, <1>3, <1>4

\* The empty queue and the queue of one.
LEMMA SmallElems ==
  ASSUME NEW x
  PROVE  /\ Elems(<<>>) = {} /\ Distinct(<<>>)
         /\ Elems(<<x>>) = {x} /\ Distinct(<<x>>)
BY DEF Elems, Distinct


-----------------------------------------------------------------------------
(* The type invariant.                                                     *)

LEMMA NobodyIsNoClient == Nobody \notin Clients
BY LimitsAssumption

\* Queues of clients stay queues of clients.
LEMMA QueueTypes ==
  /\ <<>> \in Seq(Clients)
  /\ \A c \in Clients : <<c>> \in Seq(Clients)
  /\ \A s \in Seq(Clients), c \in Clients : Append(s, c) \in Seq(Clients)
  /\ \A s \in Seq(Clients) : s # <<>> => Head(s) \in Clients /\ Tail(s) \in Seq(Clients)
OBVIOUS

\* Type correctness: every program counter, queue and set of the server stays
\* in its range, and the main loop holds a connection exactly while it deals
\* with one.
THEOREM Typing == Spec => []TypeOK
<1>1. Init => TypeOK
  <2> SUFFICES ASSUME Init PROVE TypeOK
    OBVIOUS
  <2> USE DEF Init
  <2>1. /\ peer \in [Clients -> {"new", "open", "closed"}]
        /\ said \in [Clients -> {"nothing", "partial", "http", "ws"}]
        /\ proc \in [Clients -> {"none", "on", "off"}]
        /\ procHeard \in [Clients -> BOOLEAN]
        /\ outcome \in [Clients -> {"none", "served", "dropped", "refused", "session"}]
    OBVIOUS
  <2>2. thread \in [Clients -> {"none", "start", "handshake", "init", "reading", "deaf",
                               "merge", "done"}]
    OBVIOUS
  <2>3. /\ backlog \in Seq(Clients) /\ pending \in Seq(Clients)
        /\ todo \in Seq(Clients) /\ wsQueue \in Seq(Clients)
    BY QueueTypes
  <2>4. /\ inHand \in Clients \cup {Nobody}
        /\ inHand # Nobody <=> mainPc \in {"reserve", "refuse", "spawn"}
    OBVIOUS
  <2>5. /\ acceptPc \in {"check", "accept", "drain", "sweep", "exited"}
        /\ mainPc \in {"select", "reserve", "refuse", "spawn", "drain", "save", "exited"}
        /\ live \in Int
        /\ aged \subseteq Clients /\ wedged \subseteq Clients /\ unarmed \subseteq Clients
        /\ merged \subseteq Clients
        /\ signal \in {"none", "flagged", "notified"}
    OBVIOUS
  <2>6. heard \in BOOLEAN /\ deadline \in BOOLEAN
    OBVIOUS
  <2>7. QED BY <2>1, <2>2, <2>3, <2>4, <2>5, <2>6 DEF TypeOK
<1>2. TypeOK /\ [Next]_vars => TypeOK'
  <2> SUFFICES ASSUME TypeOK, [Next]_vars PROVE TypeOK'
    OBVIOUS
  <2> USE NobodyIsNoClient DEF TypeOK, vars, clientVars, acceptVars, mainVars, threadVars
  <2>1. CASE AcceptCheck
    <3>1. pending' \in Seq(Clients) /\ backlog' \in Seq(Clients)
      BY <2>1, QueueTypes DEF AcceptCheck
    <3>2. outcome' \in [Clients -> {"none", "served", "dropped", "refused", "session"}]
      BY <2>1 DEF AcceptCheck
    <3>3. acceptPc' \in {"check", "accept", "drain", "sweep", "exited"}
      BY <2>1 DEF AcceptCheck
    <3>4. QED BY <2>1, <3>1, <3>2, <3>3 DEF AcceptCheck
  <2>2. CASE AcceptBlocking
    BY QueueTypes, <2>2 DEF AcceptBlocking
  <2>3. CASE AcceptDrain
    <3>1. Head(backlog) \in Clients /\ Tail(backlog) \in Seq(Clients)
      BY <2>3 DEF AcceptDrain
    <3>2. Append(pending, Head(backlog)) \in Seq(Clients)
      BY <3>1
    <3>3. QED BY <2>3, <3>1, <3>2 DEF AcceptDrain
  <2>4. CASE AcceptDrained
    BY <2>4 DEF AcceptDrained, ToSweep
  <2>5. CASE AcceptError
    BY <2>5 DEF AcceptError, ToSweep
  <2>6. CASE Sweep
    <3>1. Head(todo) \in Clients /\ Tail(todo) \in Seq(Clients)
      BY <2>6 DEF Sweep
    <3>2. /\ Append(wsQueue, Head(todo)) \in Seq(Clients)
          /\ Append(pending, Head(todo)) \in Seq(Clients)
      BY <3>1
    <3>3. QED BY <2>6, <3>1, <3>2 DEF Sweep
  <2>7. CASE SweepDone
    BY <2>7 DEF SweepDone
  <2>8. CASE MainReceive
    BY QueueTypes, <2>8 DEF MainReceive
  <2>9. CASE MainBreak
    BY <2>9 DEF MainBreak
  <2>10. CASE MainReserve
    BY <2>10 DEF MainReserve
  <2>11. CASE MainRefuse
    BY <2>11 DEF MainRefuse, BackToSelect
  <2>12. CASE MainSpawn
    BY <2>12 DEF MainSpawn, BackToSelect
  <2>13. CASE MainSpawnFails
    <3>1. inHand \in Clients /\ live' \in Int
      BY <2>13 DEF MainSpawnFails, LiveAfterFailedSpawn
    <3>2. outcome' \in [Clients -> {"none", "served", "dropped", "refused", "session"}]
      BY <2>13, <3>1 DEF MainSpawnFails
    <3>3. QED BY <2>13, <3>1, <3>2 DEF MainSpawnFails, BackToSelect
  <2>14. CASE MainDrained
    BY <2>14 DEF MainDrained
  <2>15. CASE MainExit
    BY <2>15 DEF MainExit
  <2>16. CASE SignalArrives
    BY <2>16 DEF SignalArrives
  <2>17. CASE NotifyWaiters
    BY <2>17 DEF NotifyWaiters
  <2>18. ASSUME NEW c \in Clients, Connect(c) PROVE TypeOK'
    BY <2>18 DEF Connect
  <2>19. ASSUME NEW c \in Clients, Leave(c) PROVE TypeOK'
    BY <2>19 DEF Leave
  <2>20. ASSUME NEW c \in Clients, Age(c) PROVE TypeOK'
    BY <2>20 DEF Age
  <2>21. ASSUME NEW c \in Clients, ThreadFails(c) PROVE TypeOK'
    BY <2>21 DEF ThreadFails, Unwind, ThreadStep
  <2>22. ASSUME NEW c \in Clients, ThreadRuns(c) PROVE TypeOK'
    BY <2>22 DEF ThreadRuns
  <2>23. ASSUME NEW c \in Clients, HandshakeFails(c) PROVE TypeOK'
    BY <2>23 DEF HandshakeFails
  <2>24. ASSUME NEW c \in Clients, Handshake(c) PROVE TypeOK'
    BY <2>24 DEF Handshake
  <2>25. ASSUME NEW c \in Clients, ProcessorInit(c) PROVE TypeOK'
    BY <2>25 DEF ProcessorInit
  <2>26. ASSUME NEW c \in Clients, ProcessorStops(c) PROVE TypeOK'
    BY <2>26 DEF ProcessorStops
  <2>27. ASSUME NEW c \in Clients, ReaderEnds(c) PROVE TypeOK'
    BY <2>27 DEF ReaderEnds
  <2>28. ASSUME NEW c \in Clients, NEW armed \in BOOLEAN, Wedge(c, armed) PROVE TypeOK'
    BY <2>28 DEF Wedge
  <2>29. ASSUME NEW c \in Clients, Unwedge(c) PROVE TypeOK'
    BY <2>29 DEF Unwedge
  <2>30. ASSUME NEW c \in Clients, Merge(c) PROVE TypeOK'
    BY <2>30 DEF Merge
  <2>31. ASSUME NEW c \in Clients, ThreadExits(c) PROVE TypeOK'
    BY <2>31 DEF ThreadExits, Unwind, ThreadStep
  <2>32. ASSUME NEW c \in Clients, NEW head \in Heads, Speak(c, head) PROVE TypeOK'
    BY <2>32, LimitsAssumption DEF Speak
  <2>33. CASE UNCHANGED vars
    BY <2>33
  <2>34. QED
    BY <2>1, <2>2, <2>3, <2>4, <2>5, <2>6, <2>7, <2>8, <2>9, <2>10, <2>11, <2>12, <2>13, <2>14, <2>15, <2>16, <2>17, <2>18, <2>19, <2>20, <2>21, <2>22, <2>23, <2>24, <2>25, <2>26, <2>27, <2>28, <2>29, <2>30, <2>31, <2>32, <2>33
       DEF Next, AcceptThread, MainLoop, Client, Thread
<1>3. QED BY <1>1, <1>2, PTL DEF Spec

-----------------------------------------------------------------------------
(* Where a connection is.                                                  *)

InServer(c) ==
  \/ c \in Elems(backlog) \/ c \in Elems(pending) \/ c \in Elems(todo)
  \/ c \in Elems(wsQueue) \/ c = inHand

\* No connection is in two places of the server or twice in one.
Apart ==
  /\ Distinct(backlog) /\ Distinct(pending) /\ Distinct(todo) /\ Distinct(wsQueue)
  /\ Elems(backlog) \cap Elems(pending) = {}
  /\ Elems(backlog) \cap Elems(todo) = {}
  /\ Elems(backlog) \cap Elems(wsQueue) = {}
  /\ Elems(pending) \cap Elems(todo) = {}
  /\ Elems(pending) \cap Elems(wsQueue) = {}
  /\ Elems(todo) \cap Elems(wsQueue) = {}
  /\ inHand \notin Elems(backlog) \cup Elems(pending) \cup Elems(todo) \cup Elems(wsQueue)

\* The undecided connections are the ones in the server; the sessions are the
\* ones that were given a thread.
Decided ==
  /\ \A c \in Clients : InServer(c) <=> peer[c] # "new" /\ outcome[c] = "none"
  /\ \A c \in Clients : peer[c] = "new" => outcome[c] = "none"
  /\ \A c \in Clients : thread[c] = "none" <=> outcome[c] # "session"

Placement == Apart /\ Decided /\ (todo # <<>> => acceptPc = "sweep")

\* Placement is preserved by every step: a socket moves from one place to the
\* next, and leaves the server when its outcome is decided.
LEMMA PlacementStep == TypeOK /\ Placement /\ [Next]_vars => Placement'
<1> SUFFICES ASSUME TypeOK, Placement, [Next]_vars PROVE Placement'
  OBVIOUS
<1> USE NobodyIsNoClient DEF Placement, Apart, Decided, InServer
<1> USE DEF vars, clientVars, acceptVars, mainVars, threadVars
<1>t. /\ backlog \in Seq(Clients) /\ pending \in Seq(Clients)
      /\ todo \in Seq(Clients) /\ wsQueue \in Seq(Clients)
      /\ peer \in [Clients -> {"new", "open", "closed"}]
      /\ outcome \in [Clients -> {"none", "served", "dropped", "refused", "session"}]
      /\ thread \in [Clients -> {"none", "start", "handshake", "init", "reading", "deaf",
                                "merge", "done"}]
      /\ inHand \in Clients \cup {Nobody}
      /\ inHand # Nobody <=> mainPc \in {"reserve", "refuse", "spawn"}
  BY DEF TypeOK
<1>e. Elems(<<>>) = {} /\ Distinct(<<>>)
  BY SmallElems
<1>1. CASE AcceptCheck
  <2>1. CASE signal # "none"
    <3>1. \A c \in Clients :
            outcome'[c] = IF c \in Elems(pending) \/ c \in Elems(backlog) THEN "dropped"
                          ELSE outcome[c]
      <4> TAKE c \in Clients
      <4>1. outcome'[c] =
              IF \E i \in 1..Len(pending) : pending[i] = c THEN "dropped"
              ELSE IF \E i \in 1..Len(backlog) : backlog[i] = c THEN "dropped"
              ELSE outcome[c]
        BY <1>1, <2>1 DEF AcceptCheck
      <4>2. c \in Elems(pending) <=> \E i \in 1..Len(pending) : pending[i] = c
        BY DEF Elems
      <4>3. c \in Elems(backlog) <=> \E i \in 1..Len(backlog) : backlog[i] = c
        BY DEF Elems
      <4>4. QED BY <4>1, <4>2, <4>3
    <3>2. pending' = <<>> /\ backlog' = <<>> /\ todo = <<>>
      BY <1>1, <2>1 DEF AcceptCheck
    <3>3. UNCHANGED <<peer, todo, wsQueue, inHand, thread>>
      BY <1>1 DEF AcceptCheck
    <3>4. Elems(pending') = {} /\ Elems(backlog') = {} /\ Distinct(pending') /\ Distinct(backlog')
      BY <1>e, <3>2
    <3>5. Apart' /\ (todo' # <<>> => acceptPc' = "sweep")
      BY <3>2, <3>3, <3>4
    <3>6. Decided'
      BY <1>t, <3>1, <3>3, <3>4
    <3>7. QED BY <3>5, <3>6
  <2>2. CASE signal = "none"
    BY <1>1, <1>t, <2>2 DEF AcceptCheck
  <2>3. QED BY <2>1, <2>2
<1>2. CASE AcceptBlocking
  <2>1. /\ Elems(backlog') = Elems(backlog) \ {Head(backlog)} /\ Distinct(backlog')
        /\ Head(backlog) \in Elems(backlog)
    BY <1>2, <1>t, TailElems DEF AcceptBlocking
  <2>2. Elems(todo') = {Head(backlog)} /\ Distinct(todo')
    BY <1>2, SmallElems DEF AcceptBlocking
  <2>3. todo = <<>>
    BY <1>2 DEF AcceptBlocking
  <2>4. UNCHANGED <<peer, pending, wsQueue, inHand, outcome, thread>> /\ acceptPc' = "sweep"
    BY <1>2 DEF AcceptBlocking
  <2>5. QED BY <1>t, <1>e, <2>1, <2>2, <2>3, <2>4
<1>3. CASE AcceptDrain
  <2>1. /\ Elems(backlog') = Elems(backlog) \ {Head(backlog)} /\ Distinct(backlog')
        /\ Head(backlog) \in Elems(backlog) /\ Head(backlog) \in Clients
    BY <1>3, <1>t, TailElems DEF AcceptDrain
  <2>2. UNCHANGED <<peer, todo, wsQueue, inHand, thread, acceptPc>>
    BY <1>3 DEF AcceptDrain
  <2>3. CASE Room
    <3>1. Elems(pending') = Elems(pending) \cup {Head(backlog)} /\ Distinct(pending')
      <4>1. pending' = Append(pending, Head(backlog)) /\ Head(backlog) \notin Elems(pending)
        BY <1>3, <2>1, <2>3 DEF AcceptDrain
      <4>2. QED BY <1>t, <2>1, <4>1, AppendElems
    <3>2. UNCHANGED outcome
      BY <1>3, <2>3 DEF AcceptDrain
    <3>3. QED BY <1>t, <2>1, <2>2, <3>1, <3>2
  <2>4. CASE ~Room
    <3>1. outcome' = [outcome EXCEPT ![Head(backlog)] = "dropped"] /\ UNCHANGED pending
      BY <1>3, <2>4 DEF AcceptDrain
    <3>2. QED BY <1>t, <2>1, <2>2, <3>1
  <2>5. QED BY <2>3, <2>4
<1>4. CASE AcceptDrained \/ AcceptError
  <2>1. /\ todo' = pending /\ pending' = <<>> /\ todo = <<>> /\ acceptPc' = "sweep"
        /\ UNCHANGED <<peer, backlog, wsQueue, inHand, outcome, thread>>
    BY <1>4 DEF AcceptDrained, AcceptError, ToSweep
  <2>2. QED BY <1>t, <1>e, <2>1
<1>5. CASE Sweep
  <2> DEFINE c == Head(todo)
  <2>1. /\ Elems(todo') = Elems(todo) \ {c} /\ Distinct(todo')
        /\ c \in Elems(todo) /\ c \in Clients
    BY <1>5, <1>t, TailElems DEF Sweep
  <2>2. UNCHANGED <<peer, backlog, inHand, thread, acceptPc>> /\ acceptPc = "sweep"
    BY <1>5 DEF Sweep
  <2>3. ASSUME NEW o \in {"dropped", "served"}, outcome' = [outcome EXCEPT ![c] = o],
               UNCHANGED <<pending, wsQueue>>
        PROVE  Placement'
    BY <1>t, <2>1, <2>2, <2>3
  <2>4. ASSUME wsQueue' = Append(wsQueue, c), UNCHANGED <<pending, outcome>>
        PROVE  Placement'
    <3>1. Elems(wsQueue') = Elems(wsQueue) \cup {c} /\ Distinct(wsQueue')
      BY <1>t, <2>1, <2>4, AppendElems
    <3>2. QED BY <1>t, <2>1, <2>2, <2>4, <3>1
  <2>5. ASSUME pending' = Append(pending, c), UNCHANGED <<wsQueue, outcome>>
        PROVE  Placement'
    <3>1. Elems(pending') = Elems(pending) \cup {c} /\ Distinct(pending')
      BY <1>t, <2>1, <2>5, AppendElems
    <3>2. QED BY <1>t, <2>1, <2>2, <2>5, <3>1
  <2>6. QED BY <1>5, <2>3, <2>4, <2>5 DEF Sweep
<1>6. CASE SweepDone \/ MainBreak \/ MainReserve \/ MainDrained \/ MainExit
           \/ SignalArrives \/ NotifyWaiters \/ UNCHANGED vars
  <2>1. UNCHANGED <<peer, backlog, pending, todo, wsQueue, inHand, outcome, thread>>
    BY <1>6 DEF SweepDone, MainBreak, MainReserve, MainDrained, MainExit, SignalArrives,
                NotifyWaiters
  <2>2. todo # <<>> => acceptPc' = "sweep"
    BY <1>6 DEF SweepDone, MainBreak, MainReserve, MainDrained, MainExit, SignalArrives,
                NotifyWaiters
  <2>3. QED BY <2>1, <2>2
<1>7. CASE MainReceive
  <2>1. /\ Elems(wsQueue') = Elems(wsQueue) \ {Head(wsQueue)} /\ Distinct(wsQueue')
        /\ Head(wsQueue) \in Elems(wsQueue) /\ Head(wsQueue) \in Clients
    BY <1>7, <1>t, TailElems DEF MainReceive
  <2>2. /\ inHand' = Head(wsQueue) /\ inHand = Nobody
        /\ UNCHANGED <<peer, backlog, pending, todo, outcome, thread, acceptPc>>
    BY <1>7, <1>t DEF MainReceive
  <2>3. QED BY <1>t, <2>1, <2>2
<1>8. CASE MainRefuse \/ MainSpawnFails
  <2>1. PICK o \in {"refused", "dropped"} : outcome' = [outcome EXCEPT ![inHand] = o]
    BY <1>8 DEF MainRefuse, MainSpawnFails
  <2>2. /\ inHand' = Nobody /\ inHand \in Clients
        /\ UNCHANGED <<peer, backlog, pending, todo, wsQueue, thread, acceptPc>>
    BY <1>8, <1>t DEF MainRefuse, MainSpawnFails, BackToSelect
  <2>3. Nobody \notin Elems(backlog) \cup Elems(pending) \cup Elems(todo) \cup Elems(wsQueue)
    BY <1>t DEF Elems
  <2>4. QED BY <1>t, <2>1, <2>2, <2>3
<1>9. CASE MainSpawn
  <2>1. /\ outcome' = [outcome EXCEPT ![inHand] = "session"]
        /\ thread' = [thread EXCEPT ![inHand] = "start"]
    BY <1>9 DEF MainSpawn
  <2>2. /\ inHand' = Nobody /\ inHand \in Clients
        /\ UNCHANGED <<peer, backlog, pending, todo, wsQueue, acceptPc>>
    BY <1>9, <1>t DEF MainSpawn, BackToSelect
  <2>3. Nobody \notin Elems(backlog) \cup Elems(pending) \cup Elems(todo) \cup Elems(wsQueue)
    BY <1>t DEF Elems
  <2>4. QED BY <1>t, <2>1, <2>2, <2>3
<1>10. ASSUME NEW c \in Clients, Connect(c) PROVE Placement'
  <2>1. Elems(backlog') = Elems(backlog) \cup {c}
        /\ (c \notin Elems(backlog) => Distinct(backlog'))
    BY <1>10, <1>t, AppendElems DEF Connect
  <2>2. /\ peer[c] = "new" /\ peer' = [peer EXCEPT ![c] = "open"]
        /\ UNCHANGED <<pending, todo, wsQueue, inHand, outcome, thread, acceptPc>>
    BY <1>10 DEF Connect
  <2>3. QED BY <1>t, <2>1, <2>2
<1>11. ASSUME NEW c \in Clients, NEW head \in Heads, Speak(c, head) PROVE Placement'
  BY <1>11 DEF Speak
<1>12. ASSUME NEW c \in Clients, Leave(c) PROVE Placement'
  <2>1. /\ peer[c] = "open" /\ peer' = [peer EXCEPT ![c] = "closed"]
        /\ UNCHANGED <<backlog, pending, todo, wsQueue, inHand, outcome, thread, acceptPc>>
    BY <1>12 DEF Leave
  <2>2. QED BY <1>t, <2>1
<1>13. ASSUME NEW c \in Clients, Age(c) PROVE Placement'
  BY <1>13 DEF Age
<1>14. ASSUME NEW c \in Clients, Thread(c) PROVE Placement'
  <2>1. UNCHANGED <<peer, backlog, pending, todo, wsQueue, inHand, outcome, acceptPc>>
    BY <1>14 DEF Thread, ThreadFails, ThreadRuns, HandshakeFails, Handshake, ProcessorInit,
                 ProcessorStops, ReaderEnds, Wedge, Unwedge, Merge, ThreadExits
  <2>2. \/ UNCHANGED thread
        \/ /\ thread[c] # "none"
           /\ \E p \in {"handshake", "init", "reading", "deaf", "merge", "done"} :
                thread' = [thread EXCEPT ![c] = p]
    BY <1>14 DEF Thread, ThreadFails, ThreadRuns, HandshakeFails, Handshake, ProcessorInit,
                 ProcessorStops, ReaderEnds, Wedge, Unwedge, Merge, ThreadExits, Unwind
  <2>3. QED BY <1>t, <2>1, <2>2
<1>15. QED
  BY <1>1, <1>2, <1>3, <1>4, <1>5, <1>6, <1>7, <1>8, <1>9, <1>10, <1>11, <1>12, <1>13, <1>14
     DEF Next, AcceptThread, MainLoop, Client

-----------------------------------------------------------------------------
(* The slot count.                                                         *)

LEMMA ThreadsFinite == IsFiniteSet(Threads) /\ Cardinality(Threads) \in Nat
<1>1. Threads \subseteq Clients
  BY DEF Threads
<1>2. QED BY <1>1, LimitsAssumption, FS_Subset, FS_CardinalityType

\* A step that touches neither the count, nor the reservation, nor which
\* threads run, keeps the count exact.
LEMMA SlotsUntouched ==
  ASSUME SlotsExact, UNCHANGED live, Threads' = Threads,
         mainPc' = "spawn" <=> mainPc = "spawn"
  PROVE  SlotsExact'
BY DEF SlotsExact

\* The count stays exact: a slot is reserved before the thread exists, passes
\* to the thread when it is spawned, and is given back by whoever has it.
LEMMA SlotStep == TypeOK /\ Placement /\ SlotsExact /\ [Next]_vars => SlotsExact'
<1> SUFFICES ASSUME TypeOK, Placement, SlotsExact, [Next]_vars PROVE SlotsExact'
  OBVIOUS
<1> USE DEF vars, clientVars, acceptVars, mainVars, threadVars
<1>l. live \in Int /\ MaxConnections \in Nat
  BY LimitsAssumption DEF TypeOK
<1>1. CASE MainReserve
  <2>1. Threads' = Threads /\ mainPc = "reserve"
    BY <1>1 DEF MainReserve, Threads, Running
  <2>2. QED BY <1>1, <1>l, <2>1, ThreadsFinite DEF MainReserve, SlotsExact
<1>2. CASE MainSpawn
  <2>1. inHand \in Clients /\ thread[inHand] = "none"
    BY <1>2, NobodyIsNoClient DEF MainSpawn, TypeOK, Placement, Decided, InServer
  <2>2. Threads' = Threads \cup {inHand} /\ inHand \notin Threads
    BY <1>2, <2>1 DEF MainSpawn, TypeOK, Threads, Running
  <2>3. Cardinality(Threads') = Cardinality(Threads) + 1
    BY <2>2, ThreadsFinite, FS_AddElement
  <2>4. mainPc = "spawn" /\ mainPc' = "select" /\ live' = live
    BY <1>2 DEF MainSpawn, BackToSelect
  <2>5. QED BY <1>l, <2>3, <2>4, ThreadsFinite DEF SlotsExact
<1>3. CASE MainSpawnFails
  <2>1. /\ mainPc = "spawn" /\ mainPc' = "select" /\ live' = live - 1
        /\ Threads' = Threads
    BY <1>3 DEF MainSpawnFails, BackToSelect, LiveAfterFailedSpawn, Threads, Running
  <2>2. QED BY <1>l, <2>1, ThreadsFinite DEF SlotsExact
<1>4. ASSUME NEW c \in Clients, ThreadFails(c) \/ ThreadExits(c) PROVE SlotsExact'
  <2>1. /\ Running(c) /\ thread' = [thread EXCEPT ![c] = "done"] /\ live' = live - 1
        /\ mainPc' = mainPc
    BY <1>4 DEF ThreadFails, ThreadExits, ThreadStep, Unwind
  <2>2. Threads' = Threads \ {c} /\ c \in Threads
    BY <2>1 DEF TypeOK, Threads, Running
  <2>3. Cardinality(Threads') = Cardinality(Threads) - 1
    BY <2>2, ThreadsFinite, FS_RemoveElement
  <2>4. QED BY <1>l, <2>1, <2>3, ThreadsFinite DEF SlotsExact
<1>5. ASSUME NEW c \in Clients,
             \/ ThreadRuns(c) \/ HandshakeFails(c) \/ Handshake(c) \/ ProcessorInit(c)
             \/ ProcessorStops(c) \/ ReaderEnds(c) \/ (\E armed \in BOOLEAN : Wedge(c, armed))
             \/ Unwedge(c) \/ Merge(c)
      PROVE  SlotsExact'
  <2>1. UNCHANGED <<live, mainPc>>
    BY <1>5 DEF ThreadRuns, HandshakeFails, Handshake, ProcessorInit, ProcessorStops,
                ReaderEnds, Wedge, Unwedge, Merge
  <2>2. \/ UNCHANGED thread
        \/ /\ Running(c)
           /\ \E p \in {"handshake", "init", "reading", "deaf", "merge"} :
                thread' = [thread EXCEPT ![c] = p]
    BY <1>5 DEF ThreadRuns, HandshakeFails, Handshake, ProcessorInit, ProcessorStops,
                ReaderEnds, Wedge, Unwedge, Merge, ThreadStep
  <2>3. Threads' = Threads
    BY <2>2 DEF TypeOK, Threads, Running
  <2>4. QED BY <2>1, <2>3, SlotsUntouched
<1>6. CASE AcceptThread \/ SignalArrives \/ NotifyWaiters \/ UNCHANGED vars
  <2>1. UNCHANGED <<live, mainPc, thread>>
    BY <1>6 DEF AcceptThread, AcceptCheck, AcceptBlocking, AcceptDrain, AcceptDrained,
                AcceptError, ToSweep, Sweep, SweepDone, SignalArrives, NotifyWaiters
  <2>2. QED BY <2>1, SlotsUntouched DEF Threads, Running
<1>7. ASSUME NEW c \in Clients, Client(c) \/ Age(c) PROVE SlotsExact'
  <2>1. UNCHANGED <<live, mainPc, thread>>
    BY <1>7 DEF Client, Connect, Speak, Leave, Age
  <2>2. QED BY <2>1, SlotsUntouched DEF Threads, Running
<1>8. CASE MainReceive \/ MainBreak \/ MainRefuse \/ MainDrained \/ MainExit
  <2>1. UNCHANGED <<live, thread>> /\ mainPc # "spawn" /\ mainPc' # "spawn"
    BY <1>8 DEF MainReceive, MainBreak, MainRefuse, BackToSelect, MainDrained, MainExit
  <2>2. QED BY <2>1, SlotsUntouched DEF Threads, Running
<1>9. QED BY <1>1, <1>2, <1>3, <1>4, <1>5, <1>6, <1>7, <1>8 DEF Next, MainLoop, Thread

LEMMA PlacementInit == Init => Placement
<1> SUFFICES ASSUME Init PROVE Placement
  OBVIOUS
<1>1. Elems(<<>>) = {} /\ Distinct(<<>>)
  BY SmallElems
<1>2. QED BY <1>1, NobodyIsNoClient DEF Init, Placement, Apart, Decided, InServer

LEMMA SlotsInit == Init => SlotsExact
<1> SUFFICES ASSUME Init PROVE SlotsExact
  OBVIOUS
<1>1. Threads = {}
  BY DEF Init, Threads, Running
<1>2. QED BY <1>1, FS_EmptySet, LimitsAssumption DEF Init, SlotsExact

\* A connection that was accepted is in exactly one place of the server until
\* its outcome is decided.
THEOREM Placed == Spec => []Placement
<1>1. Init => Placement
  BY PlacementInit
<1>2. TypeOK /\ Placement /\ [Next]_vars => Placement'
  BY PlacementStep
<1>3. QED BY <1>1, <1>2, Typing, PTL DEF Spec

\* live_connections counts exactly the running threads and the reserved slot,
\* and never passes --max-connections (server.rs, SlotGuard and fetch_update).
THEOREM SlotCount == Spec => []SlotsExact
<1>1. Init => SlotsExact
  BY SlotsInit
<1>2. TypeOK /\ Placement /\ SlotsExact /\ [Next]_vars => SlotsExact'
  BY SlotStep
<1>3. QED BY <1>1, <1>2, Typing, Placed, PTL DEF Spec

-----------------------------------------------------------------------------
(* No socket is lost.                                                      *)

\* An undecided connection has one holder, a running session has its thread,
\* and nothing else is held (HeldOnce).
THEOREM NoSocketLost == Spec => []HeldOnce
<1>1. TypeOK /\ Placement => HeldOnce
  <2> SUFFICES ASSUME TypeOK, Placement, NEW c \in Clients
               PROVE  Cardinality(Holders(c)) =
                        IF \/ peer[c] # "new" /\ outcome[c] = "none"
                           \/ outcome[c] = "session" /\ thread[c] # "done"
                        THEN 1 ELSE 0
    BY DEF HeldOnce
  <2>1. /\ In(backlog, c) <=> c \in Elems(backlog)
        /\ In(pending, c) <=> c \in Elems(pending)
        /\ In(todo, c) <=> c \in Elems(todo)
        /\ In(wsQueue, c) <=> c \in Elems(wsQueue)
    BY DEF In, Elems
  <2>2. CASE InServer(c)
    <3>1. thread[c] = "none" /\ outcome[c] = "none" /\ peer[c] # "new"
      BY <2>2 DEF Placement, Decided
    <3>2. ~Running(c)
      BY <3>1 DEF Running
    <3>3. \E h : Holders(c) = {h}
      <4>1. CASE c \in Elems(backlog)
        <5>1. Holders(c) = {"backlog"}
          BY <2>1, <3>2, <4>1 DEF Holders, Placement, Apart
        <5>2. QED BY <5>1
      <4>2. CASE c \in Elems(pending)
        <5>1. Holders(c) = {"pending"}
          BY <2>1, <3>2, <4>2 DEF Holders, Placement, Apart
        <5>2. QED BY <5>1
      <4>3. CASE c \in Elems(todo)
        <5>1. Holders(c) = {"todo"}
          BY <2>1, <3>2, <4>3 DEF Holders, Placement, Apart
        <5>2. QED BY <5>1
      <4>4. CASE c \in Elems(wsQueue)
        <5>1. Holders(c) = {"queue"}
          BY <2>1, <3>2, <4>4 DEF Holders, Placement, Apart
        <5>2. QED BY <5>1
      <4>5. CASE c = inHand
        <5>1. Holders(c) = {"main"}
          BY <2>1, <3>2, <4>5 DEF Holders, Placement, Apart
        <5>2. QED BY <5>1
      <4>6. QED BY <2>2, <4>1, <4>2, <4>3, <4>4, <4>5 DEF InServer
    <3>4. Cardinality(Holders(c)) = 1
      BY <3>3, FS_Singleton
    <3>5. QED BY <3>1, <3>4
  <2>3. CASE ~InServer(c)
    <3>1. ~(peer[c] # "new" /\ outcome[c] = "none")
      BY <2>3 DEF Placement, Decided
    <3>2. Running(c) <=> outcome[c] = "session" /\ thread[c] # "done"
      BY DEF Running, Placement, Decided
    <3>3. Holders(c) = IF Running(c) THEN {"thread"} ELSE {}
      BY <2>1, <2>3 DEF Holders, InServer
    <3>4. Cardinality(Holders(c)) = IF Running(c) THEN 1 ELSE 0
      BY <3>3, FS_Singleton, FS_EmptySet
    <3>5. QED BY <3>1, <3>2, <3>4
  <2>4. QED BY <2>2, <2>3
<1>2. QED BY <1>1, Typing, Placed, PTL

-----------------------------------------------------------------------------
(* The drain.                                                              *)

\* A thread that ends normally has merged, and once the drain is over without
\* having given up there is no thread left.
DrainInv ==
  /\ \A c \in Clients : thread[c] \in {"none", "start"} => proc[c] = "none"
  /\ \A c \in Clients : thread[c] = "done" /\ proc[c] # "none" => c \in merged
  /\ mainPc \in {"save", "exited"} /\ ~deadline => Threads = {}

LEMMA DrainStep == TypeOK /\ Placement /\ SlotsExact /\ DrainInv /\ [Next]_vars => DrainInv'
<1> SUFFICES ASSUME TypeOK, Placement, SlotsExact, DrainInv, [Next]_vars PROVE DrainInv'
  OBVIOUS
<1> USE DEF DrainInv, vars, clientVars, acceptVars, mainVars, threadVars
<1>1. CASE AcceptThread \/ SignalArrives \/ NotifyWaiters \/ UNCHANGED vars
  <2>1. UNCHANGED <<mainPc, deadline, thread, proc, merged>>
    BY <1>1 DEF AcceptThread, AcceptCheck, AcceptBlocking, AcceptDrain, AcceptDrained,
                AcceptError, ToSweep, Sweep, SweepDone, SignalArrives, NotifyWaiters
  <2>2. QED BY <2>1 DEF Threads, Running
<1>2. ASSUME NEW c \in Clients, Client(c) \/ Age(c) PROVE DrainInv'
  <2>1. UNCHANGED <<mainPc, deadline, thread, proc, merged>>
    BY <1>2 DEF Client, Connect, Speak, Leave, Age
  <2>2. QED BY <2>1 DEF Threads, Running
<1>3. CASE MainReceive \/ MainBreak \/ MainReserve \/ MainRefuse \/ MainSpawnFails
  <2>1. UNCHANGED <<thread, proc, merged>> /\ mainPc' \notin {"save", "exited"}
    BY <1>3 DEF MainReceive, MainBreak, MainReserve, MainRefuse, MainSpawnFails, BackToSelect
  <2>2. QED BY <2>1
<1>4. CASE MainSpawn
  <2>1. /\ thread' = [thread EXCEPT ![inHand] = "start"] /\ UNCHANGED <<proc, merged>>
        /\ mainPc' = "select" /\ inHand \in Clients /\ proc[inHand] = "none"
    <3>1. inHand \in Clients
      BY <1>4, NobodyIsNoClient DEF MainSpawn, TypeOK
    <3>2. QED BY <1>4, <3>1 DEF MainSpawn, BackToSelect, Placement, Decided, InServer
  <2>2. QED BY <2>1 DEF TypeOK
<1>5. CASE MainDrained
  <2>1. UNCHANGED <<thread, proc, merged>>
    BY <1>5 DEF MainDrained
  <2>2. ASSUME ~deadline' PROVE Threads' = {}
    <3>1. live = 0 /\ mainPc = "drain"
      BY <1>5, <2>2 DEF MainDrained
    <3>2. Cardinality(Threads) = 0
      BY <3>1, ThreadsFinite DEF SlotsExact
    <3>3. Threads = {}
      BY <3>2, ThreadsFinite, FS_EmptySet
    <3>4. QED BY <2>1, <3>3 DEF Threads, Running
  <2>3. QED BY <2>1, <2>2
<1>6. CASE MainExit
  <2>1. UNCHANGED <<thread, proc, merged, deadline>> /\ mainPc = "save"
    BY <1>6 DEF MainExit
  <2>2. QED BY <2>1 DEF Threads, Running
<1>7. ASSUME NEW c \in Clients, Thread(c) PROVE DrainInv'
  <2>1. UNCHANGED <<mainPc, deadline>>
    BY <1>7 DEF Thread, ThreadFails, ThreadRuns, HandshakeFails, Handshake, ProcessorInit,
                ProcessorStops, ReaderEnds, Wedge, Unwedge, Merge, ThreadExits
  <2>2. Running(c) \/ (Unwedge(c) /\ UNCHANGED thread)
    BY <1>7 DEF Thread, ThreadFails, ThreadRuns, HandshakeFails, Handshake, ProcessorInit,
                ProcessorStops, ReaderEnds, Wedge, Unwedge, Merge, ThreadExits, ThreadStep
  <2>3. mainPc' \in {"save", "exited"} /\ ~deadline' => Threads' = {}
    BY <2>1, <2>2 DEF Threads, Running
  <2>4. \A d \in Clients \ {c} :
          thread'[d] = thread[d] /\ proc'[d] = proc[d] /\ (d \in merged => d \in merged')
    BY <1>7 DEF TypeOK, Thread, ThreadFails, ThreadRuns, HandshakeFails, Handshake,
                ProcessorInit, ProcessorStops, ReaderEnds, Wedge, Unwedge, Merge,
                ThreadExits, Unwind
  <2>5. /\ thread'[c] \in {"none", "start"} => proc'[c] = "none"
        /\ thread'[c] = "done" /\ proc'[c] # "none" => c \in merged'
    BY <1>7 DEF TypeOK, Thread, ThreadFails, ThreadRuns, HandshakeFails, Handshake,
                ProcessorInit, ProcessorStops, ReaderEnds, Wedge, Unwedge, Merge,
                ThreadExits, Unwind, MayExit
  <2>6. QED BY <2>3, <2>4, <2>5
<1>8. QED BY <1>1, <1>2, <1>3, <1>4, <1>5, <1>6, <1>7 DEF Next, MainLoop

\* When the drain ends without giving up, every connection that had a running
\* processor has merged its cookies before the final save.
THEOREM DrainComplete == Spec => []DrainedMeansMerged
<1>1. Init => DrainInv
  BY DEF Init, DrainInv, Threads, Running
<1>2. TypeOK /\ Placement /\ SlotsExact /\ DrainInv /\ [Next]_vars => DrainInv'
  BY DrainStep
<1>3. TypeOK /\ Placement /\ DrainInv => DrainedMeansMerged
  BY DEF DrainInv, DrainedMeansMerged, Threads, Running, Placement, Decided
<1>4. QED BY <1>1, <1>2, <1>3, Typing, Placed, SlotCount, PTL DEF Spec

-----------------------------------------------------------------------------
(* The bounds of the queues.                                               *)

BoundInv == QueuesBounded /\ (acceptPc = "accept" => pending = <<>>)

LEMMA BoundStep == TypeOK /\ Placement /\ BoundInv /\ [Next]_vars => BoundInv'
<1> SUFFICES ASSUME TypeOK, Placement, BoundInv, [Next]_vars PROVE BoundInv'
  OBVIOUS
<1> USE DEF BoundInv, QueuesBounded, vars, clientVars, acceptVars, mainVars, threadVars
<1>t. /\ backlog \in Seq(Clients) /\ pending \in Seq(Clients)
      /\ todo \in Seq(Clients) /\ wsQueue \in Seq(Clients)
      /\ MaxPending \in Nat \ {0} /\ HandoffCap \in Nat \ {0}
      /\ todo # <<>> => acceptPc = "sweep"
      /\ Len(<<>>) = 0
  BY LimitsAssumption DEF TypeOK, Placement
<1>1. CASE AcceptCheck
  <2>1. UNCHANGED <<todo, wsQueue>> /\ acceptPc = "check"
    BY <1>1 DEF AcceptCheck
  <2>2. pending' = <<>> \/ UNCHANGED pending
    BY <1>1 DEF AcceptCheck
  <2>3. Len(pending') <= Len(pending)
    BY <1>t, <2>2
  <2>4. acceptPc' = "accept" => pending' = <<>>
    BY <1>1 DEF AcceptCheck
  <2>5. QED BY <1>t, <2>1, <2>2, <2>3, <2>4
<1>2. CASE AcceptBlocking
  <2>1. /\ pending = <<>> /\ UNCHANGED <<pending, wsQueue>> /\ acceptPc' = "sweep"
        /\ todo' = <<Head(backlog)>>
    BY <1>2 DEF AcceptBlocking
  <2>2. Len(todo') = 1
    BY <2>1
  <2>3. QED BY <1>t, <2>1, <2>2
<1>3. CASE AcceptDrain
  <2>1. /\ acceptPc = "drain" /\ UNCHANGED <<todo, wsQueue, acceptPc>>
        /\ \/ pending' = pending
           \/ Len(pending) < MaxPending /\ pending' = Append(pending, Head(backlog))
    BY <1>3 DEF AcceptDrain, Room
  <2>2. Len(todo) = 0
    BY <1>t, <2>1
  <2>3. \/ Len(pending') <= Len(pending)
        \/ Len(pending) < MaxPending /\ Len(pending') = Len(pending) + 1
    BY <1>t, <2>1
  <2>4. Len(pending') \in Nat
    BY <1>t, <2>1
  <2>5. QED BY <1>t, <2>1, <2>2, <2>3, <2>4
<1>4. CASE AcceptDrained \/ AcceptError
  <2>1. todo' = pending /\ pending' = <<>> /\ acceptPc' = "sweep" /\ UNCHANGED wsQueue
    BY <1>4 DEF AcceptDrained, AcceptError, ToSweep
  <2>2. Len(todo') = Len(pending) /\ Len(pending') = 0 /\ Len(pending) \in Nat /\ Len(todo) \in Nat
    BY <1>t, <2>1
  <2>3. QED BY <2>1, <2>2, <1>t
<1>5. CASE Sweep
  <2>1. /\ todo' = Tail(todo) /\ todo # <<>> /\ acceptPc' = "sweep"
    BY <1>5 DEF Sweep
  <2>2. Len(todo') = Len(todo) - 1
    BY <1>t, <2>1
  <2>3. \/ pending' = Append(pending, Head(todo)) /\ UNCHANGED wsQueue
        \/ Len(wsQueue) < HandoffCap /\ wsQueue' = Append(wsQueue, Head(todo)) /\ UNCHANGED pending
        \/ UNCHANGED <<pending, wsQueue>>
    BY <1>5 DEF Sweep
  <2>4. Len(pending') = Len(pending) + 1 \/ Len(pending') = Len(pending)
    BY <1>t, <2>3
  <2>5. Len(wsQueue') <= HandoffCap
    BY <1>t, <2>3
  <2>6. Len(pending) \in Nat /\ Len(todo) \in Nat
    BY <1>t
  <2>7. Len(pending') + Len(todo') <= MaxPending
    BY <1>t, <2>2, <2>4, <2>6
  <2>8. acceptPc' # "accept"
    BY <2>1
  <2>9. QED BY <2>5, <2>7, <2>8
<1>6. CASE SweepDone \/ SignalArrives \/ NotifyWaiters \/ UNCHANGED vars
  BY <1>6 DEF SweepDone, SignalArrives, NotifyWaiters
<1>7. CASE MainReceive
  <2>1. wsQueue' = Tail(wsQueue) /\ wsQueue # <<>> /\ UNCHANGED <<pending, todo, acceptPc>>
    BY <1>7 DEF MainReceive
  <2>2. Len(wsQueue') = Len(wsQueue) - 1 /\ Len(wsQueue) \in Nat /\ HandoffCap \in Nat
    BY <1>t, <2>1
  <2>3. Len(wsQueue') <= HandoffCap
    BY <2>2
  <2>4. QED BY <2>1, <2>3
<1>8. CASE MainBreak \/ MainReserve \/ MainRefuse \/ MainSpawn \/ MainSpawnFails
           \/ MainDrained \/ MainExit
  BY <1>8 DEF MainBreak, MainReserve, MainRefuse, MainSpawn, MainSpawnFails, MainDrained,
              MainExit
<1>9. ASSUME NEW c \in Clients, Client(c) \/ Age(c) \/ Thread(c) PROVE BoundInv'
  <2>1. UNCHANGED <<pending, todo, wsQueue, acceptPc>>
    BY <1>9 DEF Client, Connect, Speak, Leave, Age, Thread, ThreadFails, ThreadRuns,
                HandshakeFails, Handshake, ProcessorInit, ProcessorStops, ReaderEnds, Wedge,
                Unwedge, Merge, ThreadExits
  <2>2. QED BY <2>1
<1>10. QED
  BY <1>1, <1>2, <1>3, <1>4, <1>5, <1>6, <1>7, <1>8, <1>9 DEF Next, AcceptThread, MainLoop

\* However many sockets are opened, the parking list with the sweep's share of
\* it stays within MAX_SILENT_PENDING and the channel within its capacity.
THEOREM Bounded == Spec => []QueuesBounded
<1>1. Init => BoundInv
  <2>1. Len(<<>>) = 0
    OBVIOUS
  <2>2. QED BY <2>1, LimitsAssumption DEF Init, BoundInv, QueuesBounded
<1>2. TypeOK /\ Placement /\ BoundInv /\ [Next]_vars => BoundInv'
  BY BoundStep
<1>3. BoundInv => QueuesBounded
  BY DEF BoundInv
<1>4. QED BY <1>1, <1>2, <1>3, Typing, Placed, PTL DEF Spec

=============================================================================
