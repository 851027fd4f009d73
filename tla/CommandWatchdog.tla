-------------------------- MODULE CommandWatchdog --------------------------
(***************************************************************************)
(* The watchdog of telemaco-js/src/cdp_watchdog.rs and the code that arms  *)
(* it: the dispatcher of telemaco-cdp/src/dispatch.rs, once per command    *)
(* that may run JavaScript, and a page's event loop turn.  One thread      *)
(* serves every connection.  A command arms a slot on the isolate its page *)
(* has at that moment; when the budget is spent before the command disarms *)
(* the slot, the thread terminates the isolate, and disarming tells the    *)
(* dispatcher to clear V8's termination flag.                              *)
(*                                                                         *)
(* Time is what is left of a budget, of a sleep.  An isolate is named by   *)
(* its page as long as it lives; the handle of a disposed one is Gone, and *)
(* terminating it does nothing.  A connection works on one command or one  *)
(* event loop turn at a time, its v8_lock held.                            *)
(***************************************************************************)
EXTENDS Naturals, FiniteSets

CONSTANTS
    Conns,      \* the connections, one thread each
    Pages,      \* the pages of all connections
    Owner,      \* the connection a page belongs to
    Budget,     \* ticks a command, or a turn, may hold V8
    MaxArms,    \* bound on the slots armed, or fired and not disarmed, at a time
    Careless,   \* the connections whose client sends a method name without a dot
    None,       \* no page
    Gone,       \* the handle of an isolate that was disposed
    Forever     \* a sleep only a notification ends

ASSUME ConnsFinite == IsFiniteSet(Conns) /\ IsFiniteSet(Pages)
ASSUME OwnerType == Owner \in [Pages -> Conns]
ASSUME BudgetType == Budget \in Nat \ {0} /\ MaxArms \in Nat \ {0}
ASSUME CarelessType == Careless \subseteq Conns
ASSUME Distinct == None \notin Pages /\ Gone \notin Pages /\ Forever \notin Nat

VARIABLES
    live,       \* the pages that have an isolate
    flag,       \* the pages whose isolate has its termination flag set
    phase,      \* of a connection: "idle", "armed", "running" or "ended"
    page,       \* the page of the command or turn a connection works on
    token,      \* its Armed, 0 when it has none
    endless,    \* whether the JavaScript it runs never returns by itself
    slots,      \* the armed slots: what is left of the budget, the isolate
    fired,      \* the tokens whose fired flag is set
    notified,   \* the condition variable was notified since the last pass
    sleep       \* what is left of the thread's sleep

conns == <<phase, page, token, endless>>
table == <<slots, fired>>
thread == <<notified, sleep>>
vars == <<live, flag, conns, table, thread>>

\* Generations.  The code counts them up; here a number that no slot and no
\* token bears any more is used again, the least one first.
Gens == 1..MaxArms
Tokens == {token[c] : c \in Conns}
Fresh == Gens \ (DOMAIN slots \cup Tokens)
IsNext(g) == g \in Fresh /\ \A h \in Fresh : g <= h

\* The pages of connection c other than p that have an isolate.
OthersAlive(c, p) == {q \in live : Owner[q] = c /\ q # p}

-----------------------------------------------------------------------------
(* The table.  arm, disarm and a pass of the thread hold its mutex.        *)

\* A bug arm could have: one slot for every connection.
Arm_OneSlot(p, g) ==
    /\ IsNext(g)
    /\ slots' = [h \in {g} |-> [left |-> Budget, on |-> p]]
    /\ notified' = TRUE
    /\ UNCHANGED <<fired, sleep>>

\* cdp_watchdog::arm: a slot of its own for every caller.
Arm(p, g) ==
    /\ IsNext(g)
    /\ slots' = [h \in DOMAIN slots \cup {g} |->
                    IF h = g THEN [left |-> Budget, on |-> p] ELSE slots[h]]
    /\ notified' = TRUE
    /\ UNCHANGED <<fired, sleep>>

\* A bug disarm could have: the slot stays in the table.
Disarmed_Kept(table0, g) == table0

\* cdp_watchdog::disarm, given the slots left by what the caller did before.
Disarmed(table0, g) == [h \in DOMAIN table0 \ {g} |-> table0[h]]

\* Dropping the isolates of the pages ps: their handles stay in the table.
Dropped(ps) == [g \in DOMAIN slots |->
                   IF slots[g].on \in ps THEN [slots[g] EXCEPT !.on = Gone] ELSE slots[g]]

\* watchdog_loop: one pass, from taking the mutex to waiting.
Due == {g \in DOMAIN slots : slots[g].left = 0}
Rest == DOMAIN slots \ Due

Pass ==
    /\ notified \/ sleep = 0
    /\ slots' = [g \in Rest |-> slots[g]]
    /\ fired' = fired \cup (Due \cap Tokens)     \* nobody reads the others
    /\ flag' = flag \cup {p \in live : \E g \in Due : slots[g].on = p}
    /\ IF Rest = {}
       THEN sleep' = Forever
       ELSE \E g \in Rest :
               /\ \A h \in Rest : slots[g].left <= slots[h].left
               /\ sleep' = slots[g].left
    /\ notified' = FALSE
    /\ UNCHANGED <<live, conns>>

\* Time passes for every slot and for the sleeping thread.
Tick ==
    /\ \/ \E g \in DOMAIN slots : slots[g].left > 0
       \/ sleep \in Nat \ {0}
    /\ slots' = [g \in DOMAIN slots |->
                    [slots[g] EXCEPT !.left = IF @ = 0 THEN 0 ELSE @ - 1]]
    /\ sleep' = IF sleep \in Nat \ {0} THEN sleep - 1 ELSE sleep
    /\ UNCHANGED <<live, flag, conns, fired, notified>>

-----------------------------------------------------------------------------
(* A command, dispatch.                                                    *)

Begins(c, p, t) ==
    /\ phase' = [phase EXCEPT ![c] = "armed"]
    /\ page' = [page EXCEPT ![c] = p]
    /\ token' = [token EXCEPT ![c] = t]
    /\ UNCHANGED endless

\* dispatch up to the handler: armed on the isolate the page has, if any.
Dispatch(c, p) ==
    /\ phase[c] = "idle"
    /\ Owner[p] = c
    /\ IF p \in live
       THEN \E g \in Gens : Begins(c, p, g) /\ Arm(p, g)
       ELSE Begins(c, p, 0) /\ UNCHANGED <<table, thread>>
    /\ UNCHANGED <<live, flag>>

\* A method without a dot is refused after the slot was armed.
DispatchDotless(c, p) ==
    /\ c \in Careless
    /\ phase[c] = "idle"
    /\ Owner[p] = c
    /\ p \in live
    /\ \E g \in Gens : Arm(p, g)
    /\ UNCHANGED <<live, flag, conns>>

\* get_session_page_mut: a page without an isolate gets one, and the first
\* other page that has one gives it up.
Resume(c, p, q) ==
    /\ p \notin live
    /\ IF OthersAlive(c, p) = {} THEN q = p ELSE q \in OthersAlive(c, p)
    /\ live' = (live \ {q}) \cup {p}

\* The handler runs JavaScript on the page, which may never return.
Run(c) ==
    /\ phase[c] = "armed"
    /\ \/ page[c] \in live /\ UNCHANGED <<live, flag, slots>>
       \/ \E q \in Pages :
             /\ Resume(c, page[c], q)
             /\ flag' = flag \ {q}
             /\ slots' = Dropped({q})
    /\ phase' = [phase EXCEPT ![c] = "running"]
    /\ \E e \in BOOLEAN : endless' = [endless EXCEPT ![c] = e]
    /\ UNCHANGED <<page, token, fired, thread>>

\* The handler replaces the page's isolate (a navigation, whose scripts have
\* watchdogs of their own), or closes the page.
Replace(c) ==
    /\ phase[c] = "armed"
    /\ live' \in {live \cup {page[c]}, live \ {page[c]}}
    /\ flag' = flag \ {page[c]}
    /\ slots' = Dropped({page[c]})
    /\ phase' = [phase EXCEPT ![c] = "ended"]
    /\ UNCHANGED <<page, token, endless, fired, thread>>

\* The JavaScript returns.
Return(c) ==
    /\ phase[c] = "running"
    /\ ~endless[c]
    /\ phase' = [phase EXCEPT ![c] = "ended"]
    /\ UNCHANGED <<live, flag, page, token, endless, table, thread>>

\* V8 sees the flag and throws; the callers that look at it also clear it.
Cut(c) ==
    /\ phase[c] = "running"
    /\ page[c] \in flag
    /\ flag' \in {flag, flag \ {page[c]}}
    /\ phase' = [phase EXCEPT ![c] = "ended"]
    /\ endless' = [endless EXCEPT ![c] = FALSE]
    /\ UNCHANGED <<live, page, token, table, thread>>

\* After the handler: disarm and, if the slot had fired, clear the flag of the
\* page the session has now, which gets an isolate if it has none.
Finish(c) ==
    /\ phase[c] = "ended"
    /\ phase' = [phase EXCEPT ![c] = "idle"]
    /\ page' = [page EXCEPT ![c] = None]
    /\ token' = [token EXCEPT ![c] = 0]
    /\ endless' = [endless EXCEPT ![c] = FALSE]
    /\ notified' = (notified \/ token[c] # 0)
    /\ fired' = fired \ {token[c]}
    /\ \/ /\ token[c] \notin fired
          /\ slots' = Disarmed(slots, token[c])
          /\ UNCHANGED <<live, flag>>
       \/ /\ token[c] \in fired
          /\ \/ /\ page[c] \in live
                /\ flag' = flag \ {page[c]}
                /\ slots' = Disarmed(slots, token[c])
                /\ UNCHANGED live
             \/ /\ page[c] \notin live          \* the page was closed
                /\ slots' = Disarmed(slots, token[c])
                /\ UNCHANGED <<live, flag>>
             \/ \E q \in Pages :
                   /\ Resume(c, page[c], q)
                   /\ flag' = flag \ {q}
                   /\ slots' = Disarmed(Dropped({q}), token[c])
    /\ UNCHANGED sleep

-----------------------------------------------------------------------------
(* A page's event loop turn, run_autonomous_event_loop_turn.               *)

\* The turn arms, then enters V8; it ends as a command does.
Turn(c, p) ==
    /\ phase[c] = "idle"
    /\ Owner[p] = c
    /\ p \in live
    /\ phase' = [phase EXCEPT ![c] = "running"]
    /\ page' = [page EXCEPT ![c] = p]
    /\ \E e \in BOOLEAN : endless' = [endless EXCEPT ![c] = e]
    /\ \E g \in Gens : token' = [token EXCEPT ![c] = g] /\ Arm(p, g)
    /\ UNCHANGED <<live, flag>>

-----------------------------------------------------------------------------
Init ==
    /\ live = {}
    /\ flag = {}
    /\ phase = [c \in Conns |-> "idle"]
    /\ page = [c \in Conns |-> None]
    /\ token = [c \in Conns |-> 0]
    /\ endless = [c \in Conns |-> FALSE]
    /\ slots = [g \in {} |-> [left |-> 0, on |-> Gone]]
    /\ fired = {}
    /\ notified = FALSE
    /\ sleep = Forever

Work(c) == Run(c) \/ Replace(c) \/ Return(c) \/ Cut(c) \/ Finish(c)

Next ==
    \/ \E c \in Conns, p \in Pages : Dispatch(c, p) \/ DispatchDotless(c, p) \/ Turn(c, p)
    \/ \E c \in Conns : Work(c)
    \/ Pass
    \/ Tick

Spec == Init /\ [][Next]_vars

\* A connection's thread goes on, the watchdog thread is scheduled, time passes.
Fairness ==
    /\ \A c \in Conns : WF_vars(Work(c))
    /\ WF_vars(Pass)
    /\ WF_vars(Tick)

FairSpec == Spec /\ Fairness

-----------------------------------------------------------------------------
TypeOK ==
    /\ live \subseteq Pages
    /\ flag \subseteq live
    /\ phase \in [Conns -> {"idle", "armed", "running", "ended"}]
    /\ page \in [Conns -> Pages \cup {None}]
    /\ token \in [Conns -> Gens \cup {0}]
    /\ endless \in [Conns -> BOOLEAN]
    /\ DOMAIN slots \subseteq Gens
    /\ \A g \in DOMAIN slots :
          slots[g] \in [left : 0..Budget, on : Pages \cup {Gone}]
    /\ fired \subseteq Gens
    /\ notified \in BOOLEAN
    /\ sleep \in 0..Budget \cup {Forever}

\* A termination never reaches past the command it was meant for: whenever an
\* isolate of a client that names its methods right has its termination flag
\* set, its connection is working on that very page and its own slot has fired.
\* In particular no command and no turn starts on an isolate that is still
\* terminating, and what other connections do cuts nothing here.
CutsReachOnlyTheirCommand ==
    \A p \in flag : \/ Owner[p] \in Careless
                    \/ page[Owner[p]] = p /\ token[Owner[p]] \in fired

\* The thread never sleeps past a deadline: unless a notification is waiting
\* for it, it wakes no later than the nearest slot is due.
WakesInTime ==
    \A g \in DOMAIN slots :
        notified \/ (sleep # Forever /\ sleep <= slots[g].left)

\* JavaScript that never returns and was armed for does not hold its
\* connection: the watchdog ends it, and the next command can come.
OverrunsEnd ==
    \A c \in Conns :
        (phase[c] = "running" /\ endless[c] /\ token[c] # 0) ~> phase[c] = "idle"

\* What the dispatcher's comment promises of every command: a hung page does
\* not hold the connection's lock forever.
EveryHangEnds == \A c \in Conns : (phase[c] = "running" /\ endless[c]) ~> phase[c] = "idle"
=============================================================================
