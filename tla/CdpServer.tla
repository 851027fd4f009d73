------------------------------ MODULE CdpServer ------------------------------
(***************************************************************************)
(* The DevTools server (telemaco serve): the accept thread that classifies *)
(* TCP connections, the bounded channel to the main loop, the main loop    *)
(* that reserves a slot and starts one OS thread per WebSocket, those      *)
(* threads, and the graceful shutdown that drains them and saves cookies.  *)
(*                                                                         *)
(* Time is abstracted: a parked connection becomes older than its TTL, and *)
(* the drain deadline passes, at any moment.  What a thread does with its  *)
(* commands is CdpProcessor's subject; here it is only idle or wedged in   *)
(* V8.  How cookies are merged is CookiePersistence's.                     *)
(***************************************************************************)
EXTENDS Integers, Sequences, FiniteSets

CONSTANTS
  Clients,         \* TCP connections that may be made
  MaxConnections,  \* --max-connections
  HandoffCap,      \* MAX_PENDING_WS_HANDOFFS
  MaxPending,      \* MAX_SILENT_PENDING
  Heads,           \* what clients send: some of "partial", "http" and "ws"
  Nobody,          \* no connection in the main loop's hands
  PromptThreads    \* TRUE: SHUTDOWN_DRAIN_MS outlasts every step a thread can
                   \* take by itself; FALSE: the deadline may pass at any time

ASSUME LimitsAssumption ==
  /\ {MaxConnections, HandoffCap, MaxPending} \subseteq Nat \ {0}
  /\ Nobody \notin Clients
  /\ IsFiniteSet(Clients)
  /\ Heads \subseteq {"partial", "http", "ws"}
  /\ PromptThreads \in BOOLEAN

VARIABLES
  peer,       \* the client's end: "new", "open" or "closed"
  said,       \* what it sent: "nothing", "partial" head, "http" or "ws" head
  backlog,    \* connections in the kernel's accept queue
  acceptPc,   \* where the accept thread is
  pending,    \* connections parked without a request head
  todo,       \* the ones this sweep has still to look at
  aged,       \* parked for longer than SILENT_CONNECTION_TTL
  wsQueue,    \* the ws_tx / ws_rx channel
  mainPc,     \* where the main loop is
  inHand,     \* the connection it is dealing with
  heard,      \* its current Notified future has fired
  live,       \* live_connections
  thread,     \* where each connection's thread is
  proc,       \* its cdp_processor: "none", "on" or "off"
  procHeard,  \* the processor's Notified future has fired
  wedged,     \* threads that are inside V8 and do not come back
  unarmed,    \* those of them whose command the watchdog was not armed for
  merged,     \* connections whose cookies reached the persistence jar
  outcome,    \* what became of a connection
  signal,     \* SIGTERM / Ctrl-C: "none", "flagged", "notified"
  deadline    \* the drain gave up

clientVars == <<peer, said>>
acceptVars == <<backlog, acceptPc, pending, todo, aged>>
mainVars   == <<mainPc, inHand, heard, deadline>>
threadVars == <<thread, proc, procHeard, wedged, unarmed, merged>>
vars == <<clientVars, acceptVars, wsQueue, mainVars, live, threadVars, outcome, signal>>

\* The thread exists: it has been spawned and its slot guard has not dropped.
Running(c) == thread[c] \notin {"none", "done"}
Threads == {c \in Clients : Running(c)}

Listening == acceptPc # "exited"
ProcessUp == mainPc # "exited"

-----------------------------------------------------------------------------
(* Clients.                                                                *)

Connect(c) ==
  /\ Listening /\ ProcessUp
  /\ peer[c] = "new"
  /\ peer' = [peer EXCEPT ![c] = "open"]
  /\ backlog' = Append(backlog, c)
  /\ UNCHANGED <<said, acceptPc, pending, todo, aged, wsQueue, mainVars, live,
                 threadVars, outcome, signal>>

\* A request head arrives, in one piece or not.
Speak(c, head) ==
  /\ peer[c] = "open"
  /\ \/ said[c] = "nothing"
     \/ said[c] = "partial" /\ head # "partial"
  /\ said' = [said EXCEPT ![c] = head]
  /\ UNCHANGED <<peer, acceptVars, wsQueue, mainVars, live, threadVars, outcome, signal>>

Leave(c) ==
  /\ peer[c] = "open"
  /\ peer' = [peer EXCEPT ![c] = "closed"]
  /\ UNCHANGED <<said, acceptVars, wsQueue, mainVars, live, threadVars, outcome, signal>>

-----------------------------------------------------------------------------
(* The accept thread.                                                      *)

\* The while condition; leaving the loop drops the parked sockets, the
\* listener with its backlog, and the sender of the channel.
AcceptCheck ==
  /\ ProcessUp /\ acceptPc = "check"
  /\ \/ /\ signal # "none"
        /\ acceptPc' = "exited"
        /\ outcome' = [c \in Clients |->
             IF \E i \in 1..Len(pending) : pending[i] = c THEN "dropped"
             ELSE IF \E i \in 1..Len(backlog) : backlog[i] = c THEN "dropped"
             ELSE outcome[c]]
        /\ pending' = <<>>
        /\ backlog' = <<>>
     \/ /\ signal = "none"
        /\ acceptPc' = IF pending = <<>> THEN "accept" ELSE "drain"
        /\ UNCHANGED <<pending, backlog, outcome>>
  /\ UNCHANGED <<clientVars, todo, aged, wsQueue, mainVars, live, threadVars, signal>>

\* Nothing is parked: block in accept() until the kernel has a connection.
AcceptBlocking ==
  /\ ProcessUp /\ acceptPc = "accept"
  /\ backlog # <<>>
  /\ backlog' = Tail(backlog)
  /\ todo' = <<Head(backlog)>>
  /\ acceptPc' = "sweep"
  /\ UNCHANGED <<clientVars, pending, aged, wsQueue, mainVars, live, threadVars,
                 outcome, signal>>

\* Something is parked: empty the kernel's queue without blocking, dropping
\* what does not fit.
Room == Len(pending) < MaxPending

AcceptDrain ==
  /\ ProcessUp /\ acceptPc = "drain"
  /\ backlog # <<>>
  /\ backlog' = Tail(backlog)
  /\ IF Room
     THEN /\ pending' = Append(pending, Head(backlog))
          /\ UNCHANGED outcome
     ELSE /\ outcome' = [outcome EXCEPT ![Head(backlog)] = "dropped"]
          /\ UNCHANGED pending
  /\ UNCHANGED <<clientVars, acceptPc, todo, aged, wsQueue, mainVars, live,
                 threadVars, signal>>

ToSweep ==
  /\ ProcessUp
  /\ acceptPc' = "sweep"
  /\ todo' = pending
  /\ pending' = <<>>
  /\ UNCHANGED <<clientVars, backlog, aged, wsQueue, mainVars, live, threadVars,
                 outcome, signal>>

\* The queue is empty, or accept() failed with a connection in it (out of
\* descriptors, say): on to the sweep.
AcceptDrained == acceptPc = "drain" /\ backlog = <<>> /\ ToSweep
AcceptError   == acceptPc \in {"accept", "drain"} /\ backlog # <<>> /\ ToSweep

\* One parked connection of the sweep: expired, gone, still silent, an HTTP
\* request answered on the spot, or a WebSocket handed to the main loop.
PeekReturns_Blocking(c) == said[c] \in {"http", "ws"} \/ peer[c] = "closed"
PeekReturns(c) == TRUE

Sweep ==
  LET c == Head(todo)
      Becomes(o) == outcome' = [outcome EXCEPT ![c] = o] /\ UNCHANGED <<pending, wsQueue>>
  IN /\ ProcessUp /\ acceptPc = "sweep" /\ todo # <<>>
     /\ PeekReturns(c)
     /\ todo' = Tail(todo)
     /\ \/ /\ c \in aged \/ peer[c] = "closed"
           /\ Becomes("dropped")
        \/ /\ c \notin aged /\ said[c] = "http"
           /\ Becomes("served")
        \/ /\ c \notin aged /\ said[c] = "ws"
           /\ IF Len(wsQueue) < HandoffCap
              THEN wsQueue' = Append(wsQueue, c) /\ UNCHANGED <<pending, outcome>>
              ELSE Becomes("dropped")
        \/ /\ c \notin aged
           /\ said[c] = "partial" \/ (said[c] = "nothing" /\ peer[c] = "open")
           /\ pending' = Append(pending, c)
           /\ UNCHANGED <<wsQueue, outcome>>
     /\ UNCHANGED <<clientVars, backlog, acceptPc, aged, mainVars, live, threadVars, signal>>

SweepDone ==
  /\ ProcessUp /\ acceptPc = "sweep" /\ todo = <<>>
  /\ acceptPc' = "check"
  /\ UNCHANGED <<clientVars, backlog, pending, todo, aged, wsQueue, mainVars, live,
                 threadVars, outcome, signal>>

\* A parked connection outlives SILENT_CONNECTION_TTL.
Age(c) ==
  /\ \/ \E i \in 1..Len(pending) : pending[i] = c
     \/ \E i \in 1..Len(todo) : todo[i] = c
  /\ aged' = aged \cup {c}
  /\ UNCHANGED <<clientVars, backlog, acceptPc, pending, todo, wsQueue, mainVars,
                 live, threadVars, outcome, signal>>

AcceptThread ==
  \/ AcceptCheck \/ AcceptBlocking \/ AcceptDrain \/ AcceptDrained \/ AcceptError
  \/ Sweep \/ SweepDone

-----------------------------------------------------------------------------
(* The main loop.  Its select makes a new Notified future every time round, *)
(* and notify_waiters reaches only the futures that exist at that moment.   *)

BackToSelect ==
  /\ mainPc' = "select"
  /\ inHand' = Nobody
  /\ heard' = FALSE

\* The select! took the channel's branch and drops its Notified future.
MainReceive ==
  /\ mainPc = "select" /\ wsQueue # <<>>
  /\ inHand' = Head(wsQueue)
  /\ wsQueue' = Tail(wsQueue)
  /\ mainPc' = "reserve"
  /\ heard' = FALSE
  /\ UNCHANGED <<clientVars, acceptVars, deadline, live, threadVars, outcome, signal>>

\* The select! took the shutdown branch, or the accept thread is gone and the
\* channel is empty.
MainBreak_OnlyNotified ==
  /\ mainPc = "select" /\ heard
  /\ mainPc' = "drain"
  /\ UNCHANGED <<clientVars, acceptVars, wsQueue, inHand, heard, deadline, live,
                 threadVars, outcome, signal>>

MainBreak ==
  /\ mainPc = "select"
  /\ heard \/ (wsQueue = <<>> /\ acceptPc = "exited")
  /\ mainPc' = "drain"
  /\ UNCHANGED <<clientVars, acceptVars, wsQueue, inHand, heard, deadline, live,
                 threadVars, outcome, signal>>

MainReserve ==
  /\ mainPc = "reserve"
  /\ IF live < MaxConnections
     THEN live' = live + 1 /\ mainPc' = "spawn"
     ELSE mainPc' = "refuse" /\ UNCHANGED live
  /\ UNCHANGED <<clientVars, acceptVars, wsQueue, inHand, heard, deadline, threadVars,
                 outcome, signal>>

\* refuse_connection reads the head (at most 100 ms) and answers 503.
MainRefuse ==
  /\ mainPc = "refuse"
  /\ outcome' = [outcome EXCEPT ![inHand] = "refused"]
  /\ BackToSelect
  /\ UNCHANGED <<clientVars, acceptVars, wsQueue, deadline, live, threadVars, signal>>

\* run_connection: the thread is spawned, or it cannot be and the slot that
\* was reserved for it is given back here.
MainSpawn ==
  /\ mainPc = "spawn"
  /\ thread' = [thread EXCEPT ![inHand] = "start"]
  /\ outcome' = [outcome EXCEPT ![inHand] = "session"]
  /\ BackToSelect
  /\ UNCHANGED <<clientVars, acceptVars, wsQueue, deadline, live, proc, procHeard,
                 wedged, unarmed, merged, signal>>

LiveAfterFailedSpawn_Leaks == live
LiveAfterFailedSpawn == live - 1

MainSpawnFails ==
  /\ mainPc = "spawn"
  /\ live' = LiveAfterFailedSpawn
  /\ outcome' = [outcome EXCEPT ![inHand] = "dropped"]
  /\ BackToSelect
  /\ UNCHANGED <<clientVars, acceptVars, wsQueue, deadline, threadVars, signal>>

\* A thread that can do nothing until its client or V8 does something.
Waiting(c) ==
  \/ c \in wedged
  \/ thread[c] = "deaf"
  \/ thread[c] = "reading" /\ peer[c] = "open" /\ ~(proc[c] = "on" /\ procHeard[c])

\* The drain loop: every slot is free, or the deadline has passed.
MainDrained ==
  /\ mainPc = "drain"
  /\ \/ live = 0 /\ UNCHANGED deadline
     \/ /\ live # 0
        /\ PromptThreads => \A c \in Threads : Waiting(c)
        /\ deadline' = TRUE
  /\ mainPc' = "save"
  /\ UNCHANGED <<clientVars, acceptVars, wsQueue, inHand, heard, live, threadVars,
                 outcome, signal>>

\* persistence_ctx.save_cookies(), then start returns and the process ends:
\* detached threads die and the sockets still queued are reset.
MainExit ==
  /\ mainPc = "save"
  /\ mainPc' = "exited"
  /\ UNCHANGED <<clientVars, acceptVars, wsQueue, inHand, heard, deadline, live,
                 threadVars, outcome, signal>>

MainLoop ==
  \/ MainReceive \/ MainBreak \/ MainReserve \/ MainRefuse \/ MainSpawn
  \/ MainSpawnFails \/ MainDrained \/ MainExit

-----------------------------------------------------------------------------
(* The signal thread.                                                      *)

SignalArrives ==
  /\ ProcessUp /\ signal = "none"
  /\ signal' = "flagged"
  /\ UNCHANGED <<clientVars, acceptVars, wsQueue, mainVars, live, threadVars, outcome>>

\* notify_waiters: no permit is kept for a future that does not exist yet.
NotifyWaiters ==
  /\ ProcessUp /\ signal = "flagged"
  /\ signal' = "notified"
  /\ heard' = (mainPc = "select")
  /\ procHeard' = [c \in Clients |-> proc[c] = "on"]
  /\ UNCHANGED <<clientVars, acceptVars, wsQueue, mainPc, inHand, deadline, live,
                 thread, proc, wedged, unarmed, merged, outcome>>

-----------------------------------------------------------------------------
(* A connection thread: a LocalSet with the WebSocket reader               *)
(* (handle_connection_ws) as its root future and the processor as a task.  *)

ThreadStep(c) == ProcessUp /\ Running(c) /\ c \notin wedged

\* The slot guard drops as the thread unwinds, however it ends.
Unwind(c) ==
  /\ thread' = [thread EXCEPT ![c] = "done"]
  /\ live' = live - 1

\* Building the thread's runtime fails: an early return, nothing is merged.
ThreadFails(c) ==
  /\ ThreadStep(c) /\ thread[c] = "start"
  /\ Unwind(c)
  /\ UNCHANGED <<clientVars, acceptVars, wsQueue, mainVars, proc, procHeard, wedged,
                 unarmed, merged, outcome, signal>>

\* The LocalSet runs: the reader goes into the handshake and the processor's
\* task registers with the shutdown notifier.
ThreadRuns(c) ==
  /\ ThreadStep(c) /\ thread[c] = "start"
  /\ thread' = [thread EXCEPT ![c] = "handshake"]
  /\ proc' = [proc EXCEPT ![c] = "on"]
  /\ UNCHANGED <<clientVars, acceptVars, wsQueue, mainVars, live, procHeard, wedged,
                 unarmed, merged, outcome, signal>>

\* The socket could not be taken over, or the handshake failed: the root
\* future ends and the processor is aborted.
HandshakeFails(c) ==
  /\ ThreadStep(c) /\ thread[c] \in {"start", "handshake"}
  /\ thread' = [thread EXCEPT ![c] = "merge"]
  /\ proc' = [proc EXCEPT ![c] = "off"]
  /\ UNCHANGED <<clientVars, acceptVars, wsQueue, mainVars, live, procHeard, wedged,
                 unarmed, merged, outcome, signal>>

\* The handshake is done and NewConnection is sent; the reader waits for the
\* init message, which a processor that has stopped will never send.
Handshake(c) ==
  /\ ThreadStep(c) /\ thread[c] = "handshake"
  /\ thread' = [thread EXCEPT ![c] = IF proc[c] = "on" THEN "init" ELSE "deaf"]
  /\ UNCHANGED <<clientVars, acceptVars, wsQueue, mainVars, live, proc, procHeard,
                 wedged, unarmed, merged, outcome, signal>>

\* The processor answers NewConnection; its select! prefers a queued message.
ProcessorInit(c) ==
  /\ ThreadStep(c) /\ thread[c] = "init"
  /\ thread' = [thread EXCEPT ![c] = "reading"]
  /\ UNCHANGED <<clientVars, acceptVars, wsQueue, mainVars, live, proc, procHeard,
                 wedged, unarmed, merged, outcome, signal>>

\* The processor's shutdown branch.
ProcessorStops(c) ==
  /\ ThreadStep(c) /\ proc[c] = "on" /\ procHeard[c] /\ thread[c] # "init"
  /\ proc' = [proc EXCEPT ![c] = "off"]
  /\ UNCHANGED <<clientVars, acceptVars, wsQueue, mainVars, live, thread, procHeard,
                 wedged, unarmed, merged, outcome, signal>>

\* The reader's loop ends: the client has closed or reset, or sent
\* Browser.close.  The processor is aborted and the thread goes on to merge.
ReaderEnds_NoAbort(c) ==
  /\ ThreadStep(c) /\ thread[c] = "reading"
  /\ thread' = [thread EXCEPT ![c] = "deaf"]
  /\ UNCHANGED <<clientVars, acceptVars, wsQueue, mainVars, live, proc, procHeard,
                 wedged, unarmed, merged, outcome, signal>>

ReaderEnds(c) ==
  /\ ThreadStep(c) /\ thread[c] = "reading"
  /\ thread' = [thread EXCEPT ![c] = "merge"]
  /\ proc' = [proc EXCEPT ![c] = "off"]
  /\ UNCHANGED <<clientVars, acceptVars, wsQueue, mainVars, live, procHeard, wedged,
                 unarmed, merged, outcome, signal>>

\* A command does not come back from V8.  The dispatch watchdog was armed for
\* it, unless its page got its isolate only inside the handler (or the timeout
\* is set to 0).
Wedge(c, armed) ==
  /\ ThreadStep(c) /\ thread[c] = "reading" /\ proc[c] = "on"
  /\ wedged' = wedged \cup {c}
  /\ unarmed' = IF armed THEN unarmed ELSE unarmed \cup {c}
  /\ UNCHANGED <<clientVars, acceptVars, wsQueue, mainVars, live, thread, proc,
                 procHeard, merged, outcome, signal>>

\* The watchdog terminates it, or it comes back after all.
Unwedge(c) ==
  /\ ProcessUp /\ c \in wedged
  /\ wedged' = wedged \ {c} /\ unarmed' = unarmed \ {c}
  /\ UNCHANGED <<clientVars, acceptVars, wsQueue, mainVars, live, thread, proc,
                 procHeard, merged, outcome, signal>>

Merge(c) ==
  /\ ThreadStep(c) /\ thread[c] = "merge" /\ c \notin merged
  /\ merged' = merged \cup {c}
  /\ UNCHANGED <<clientVars, acceptVars, wsQueue, mainVars, live, thread, proc,
                 procHeard, wedged, unarmed, outcome, signal>>

MayExit_BeforeMerge(c) == TRUE
MayExit(c) == c \in merged

ThreadExits(c) ==
  /\ ThreadStep(c) /\ thread[c] = "merge" /\ MayExit(c)
  /\ Unwind(c)
  /\ UNCHANGED <<clientVars, acceptVars, wsQueue, mainVars, proc, procHeard, wedged,
                 unarmed, merged, outcome, signal>>

ClientGone(c) == peer[c] = "closed" /\ ReaderEnds(c)

Thread(c) ==
  \/ ThreadFails(c) \/ ThreadRuns(c) \/ HandshakeFails(c) \/ Handshake(c)
  \/ ProcessorInit(c) \/ ProcessorStops(c) \/ ReaderEnds(c) \/ Merge(c)
  \/ ThreadExits(c) \/ (\E armed \in BOOLEAN : Wedge(c, armed)) \/ Unwedge(c)

-----------------------------------------------------------------------------
Init ==
  /\ peer = [c \in Clients |-> "new"]
  /\ said = [c \in Clients |-> "nothing"]
  /\ backlog = <<>>
  /\ acceptPc = "check"
  /\ pending = <<>>
  /\ todo = <<>>
  /\ aged = {}
  /\ wsQueue = <<>>
  /\ mainPc = "select"
  /\ inHand = Nobody
  /\ heard = FALSE
  /\ live = 0
  /\ thread = [c \in Clients |-> "none"]
  /\ proc = [c \in Clients |-> "none"]
  /\ procHeard = [c \in Clients |-> FALSE]
  /\ wedged = {} /\ unarmed = {}
  /\ merged = {}
  /\ outcome = [c \in Clients |-> "none"]
  /\ signal = "none"
  /\ deadline = FALSE

Client(c) == Connect(c) \/ (\E head \in Heads : Speak(c, head)) \/ Leave(c)

Next ==
  \/ AcceptThread
  \/ MainLoop
  \/ SignalArrives
  \/ NotifyWaiters
  \/ \E c \in Clients : Client(c) \/ Age(c) \/ Thread(c)

Spec == Init /\ [][Next]_vars

\* The threads are scheduled, a parked connection ages, accept() does not fail
\* for ever, and the watchdog frees a thread from V8 if it was armed for the
\* command.  Nothing is assumed of other commands, of the clients, of the
\* signal, or of a thread before the client has gone.
Fairness ==
  /\ WF_vars(AcceptThread) /\ SF_vars(AcceptBlocking) /\ SF_vars(AcceptDrain)
  /\ WF_vars(MainLoop)
  /\ WF_vars(NotifyWaiters)
  /\ \A c \in Clients :
       /\ WF_vars(Age(c))
       /\ WF_vars(c \notin unarmed /\ Unwedge(c))
       /\ WF_vars(ThreadRuns(c)) /\ WF_vars(Handshake(c)) /\ WF_vars(ProcessorInit(c))
       /\ SF_vars(ProcessorStops(c)) /\ SF_vars(ClientGone(c))
       /\ WF_vars(Merge(c)) /\ WF_vars(ThreadExits(c))

FairSpec == Spec /\ Fairness

-----------------------------------------------------------------------------
(* Properties.                                                             *)

TypeOK ==
  /\ peer \in [Clients -> {"new", "open", "closed"}]
  /\ said \in [Clients -> {"nothing", "partial", "http", "ws"}]
  /\ backlog \in Seq(Clients) /\ pending \in Seq(Clients)
  /\ todo \in Seq(Clients) /\ wsQueue \in Seq(Clients)
  /\ acceptPc \in {"check", "accept", "drain", "sweep", "exited"}
  /\ mainPc \in {"select", "reserve", "refuse", "spawn", "drain", "save", "exited"}
  /\ inHand \in Clients \cup {Nobody}
  /\ inHand # Nobody <=> mainPc \in {"reserve", "refuse", "spawn"}
  /\ live \in Int
  /\ thread \in [Clients -> {"none", "start", "handshake", "init", "reading", "deaf",
                             "merge", "done"}]
  /\ proc \in [Clients -> {"none", "on", "off"}]
  /\ procHeard \in [Clients -> BOOLEAN]
  /\ aged \subseteq Clients /\ wedged \subseteq Clients /\ unarmed \subseteq Clients
  /\ merged \subseteq Clients
  /\ outcome \in [Clients -> {"none", "served", "dropped", "refused", "session"}]
  /\ signal \in {"none", "flagged", "notified"}
  /\ heard \in BOOLEAN /\ deadline \in BOOLEAN

\* live_connections counts exactly the connection threads, plus the slot that
\* is reserved for a thread not spawned yet, and never passes the limit: no
\* exit, early return or failed spawn leaks a slot or gives one back twice.
SlotsExact ==
  /\ live = Cardinality(Threads) + (IF mainPc = "spawn" THEN 1 ELSE 0)
  /\ live <= MaxConnections

In(seq, c) == \E i \in 1..Len(seq) : seq[i] = c
Holders(c) == { h \in {"backlog", "pending", "todo", "queue", "main", "thread"} :
  \/ h = "backlog" /\ In(backlog, c)
  \/ h = "pending" /\ In(pending, c)
  \/ h = "todo" /\ In(todo, c)
  \/ h = "queue" /\ In(wsQueue, c)
  \/ h = "main" /\ inHand = c
  \/ h = "thread" /\ Running(c) }

\* A connection is held by exactly one part of the server until it has been
\* answered, dropped or run to its end, and by none afterwards: no socket is
\* lost between the accept thread, the channel, the main loop and a thread.
HeldOnce ==
  \A c \in Clients :
    Cardinality(Holders(c)) =
      IF \/ peer[c] # "new" /\ outcome[c] = "none"
         \/ outcome[c] = "session" /\ thread[c] # "done"
      THEN 1 ELSE 0

\* The queues a flood of connections could grow stay within their limits.
QueuesBounded ==
  /\ Len(pending) + Len(todo) <= MaxPending
  /\ Len(wsQueue) <= HandoffCap

\* When the drain ends without giving up, every connection that got a running
\* processor has merged its cookies: what the final save writes is complete.
DrainedMeansMerged ==
  mainPc \in {"save", "exited"} /\ ~deadline =>
    \A c \in Clients : outcome[c] = "session" /\ proc[c] # "none" => c \in merged

\* A connection that reached the server, silent or not, is decided: it is
\* answered, dropped or given a thread, whatever the other connections and V8
\* do and though sessions that never end may hold every slot (issues #62, #715).
ConnectionDecided ==
  \A c \in Clients :
    (In(backlog, c) \/ In(pending, c) \/ In(todo, c) \/ In(wsQueue, c)) ~>
      (outcome[c] # "none" \/ signal # "none")

\* The slot of a client that has left is given back, even when V8 wedged the
\* thread in between, so the server does not run out of slots; except that one
\* whose thread is in a command the watchdog was not armed for may stay (EveryHangEnds of
\* CommandWatchdog), one for each such command.
SlotComesBack ==
  \A c \in Clients :
    (Running(c) /\ peer[c] = "closed") ~>
      (~Running(c) \/ c \in unarmed \/ signal # "none")

\* Once a connection attempt follows the signal, the server shuts down: the
\* accept thread leaves its blocking accept and closes the channel.
NextConnectionEndsShutdown ==
  (signal # "none" /\ backlog # <<>>) ~> mainPc = "exited"

\* What the comments say of the drain: notify_waiters has woken every
\* processor, so the deadline covers only a connection wedged in V8.
DeadlineOnlyForWedged == deadline => Threads \subseteq wedged

\* What the comments say of the signal thread: SIGTERM stops the accept thread
\* and wakes the server, so that it saves its cookies and ends.
ShutdownCompletes == signal = "notified" ~> mainPc = "exited"

=============================================================================
