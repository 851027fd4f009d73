----------------------- MODULE CommandWatchdog_proofs -----------------------
(***************************************************************************)
(* What the command watchdog guarantees for any number of connections and  *)
(* pages, any budget, and any interleaving of commands, event loop turns   *)
(* and the watchdog thread.                                                *)
(***************************************************************************)
EXTENDS CommandWatchdog, TLAPS

\* An idle connection has no page and no token; a page it works on is its own.
WorkOK ==
    \A c \in Conns :
        /\ phase[c] = "idle" => page[c] = None /\ token[c] = 0
        /\ phase[c] # "idle" => page[c] \in Pages
        /\ page[c] \in Pages => Owner[page[c]] = c

\* No two connections hold the same token.
TokensDiffer == \A c, d \in Conns : token[c] = token[d] /\ token[c] # 0 => c = d

\* A slot on a careful client's isolate is the one its connection holds.
SlotsOwned ==
    \A g \in DOMAIN slots :
        slots[g].on \in Pages =>
            \/ Owner[slots[g].on] \in Careless
            \/ token[Owner[slots[g].on]] = g /\ page[Owner[slots[g].on]] = slots[g].on

\* The inductive invariant.
Inv == TypeOK /\ WorkOK /\ TokensDiffer /\ SlotsOwned
         /\ CutsReachOnlyTheirCommand /\ WakesInTime

\* A new slot leaves the others alone and is due after the whole budget.
LEMMA ArmTyped ==
    ASSUME TypeOK, WakesInTime, NEW p \in Pages, NEW g \in Gens, Arm(p, g)
    PROVE  /\ g \notin DOMAIN slots /\ \A c \in Conns : token[c] # g
           /\ DOMAIN slots' = DOMAIN slots \cup {g}
           /\ \A h \in DOMAIN slots : slots'[h] = slots[h]
           /\ slots'[g] = [left |-> Budget, on |-> p]
           /\ slots'[g] \in [left : 0..Budget, on : Pages \cup {Gone}]
           /\ notified' = TRUE /\ fired' = fired /\ sleep' = sleep
           /\ WakesInTime'
<1>1. Budget \in 0..Budget
  BY BudgetType
<1>2. g \notin DOMAIN slots /\ \A c \in Conns : token[c] # g
  BY DEF Arm, IsNext, Fresh, Tokens
<1> QED
  BY <1>1, <1>2 DEF Arm, WakesInTime

\* Dropping isolates changes no deadline and leaves a slot on its page or Gone.
LEMMA DroppedTyped ==
    ASSUME TypeOK, NEW ps
    PROVE  /\ DOMAIN Dropped(ps) = DOMAIN slots
           /\ \A g \in DOMAIN slots :
                 /\ Dropped(ps)[g] \in [left : 0..Budget, on : Pages \cup {Gone}]
                 /\ Dropped(ps)[g].left = slots[g].left
                 /\ Dropped(ps)[g].on \in Pages =>
                       Dropped(ps)[g].on = slots[g].on /\ slots[g].on \notin ps
  BY Distinct DEF TypeOK, Dropped

\* The invariant holds at the start.
LEMMA InitInv == Init => Inv
  BY Distinct DEF Init, Inv, TypeOK, WorkOK, TokensDiffer, SlotsOwned,
     CutsReachOnlyTheirCommand, WakesInTime, Gens

\* Arming for a command keeps the invariant.
LEMMA DispatchInv ==
    ASSUME Inv, NEW c \in Conns, NEW p \in Pages, Dispatch(c, p)
    PROVE  Inv'
<1>1. CASE p \in live
  <2>1. PICK g \in Gens : Begins(c, p, g) /\ Arm(p, g)
    BY <1>1 DEF Dispatch
  <2>2. /\ g \notin DOMAIN slots /\ \A d \in Conns : token[d] # g
        /\ DOMAIN slots' = DOMAIN slots \cup {g}
        /\ \A h \in DOMAIN slots : slots'[h] = slots[h]
        /\ slots'[g] = [left |-> Budget, on |-> p]
        /\ slots'[g] \in [left : 0..Budget, on : Pages \cup {Gone}]
        /\ notified' = TRUE /\ fired' = fired /\ sleep' = sleep
        /\ WakesInTime'
    BY <2>1, ArmTyped DEF Inv
  <2>3. /\ phase[c] = "idle" /\ Owner[p] = c /\ live' = live /\ flag' = flag
        /\ phase' = [phase EXCEPT ![c] = "armed"] /\ page' = [page EXCEPT ![c] = p]
        /\ token' = [token EXCEPT ![c] = g] /\ endless' = endless
    BY <2>1 DEF Dispatch, Begins
  <2>4. TypeOK'
    BY <2>2, <2>3 DEF Inv, TypeOK
  <2>5. WorkOK' /\ TokensDiffer'
    BY <2>2, <2>3 DEF Inv, TypeOK, WorkOK, TokensDiffer
  <2>6. SlotsOwned'
    <3>1. ASSUME NEW h \in DOMAIN slots, slots[h].on \in Pages, Owner[slots[h].on] \notin Careless
          PROVE  Owner[slots[h].on] # c
      BY <2>3, <3>1, Distinct DEF Inv, SlotsOwned, WorkOK
    <3> QED
      BY <2>2, <2>3, <3>1, OwnerType DEF Inv, TypeOK, SlotsOwned
  <2>7. CutsReachOnlyTheirCommand'
    <3>1. \A q \in flag : Owner[q] \in Careless \/ Owner[q] # c
      BY <2>3, Distinct DEF Inv, TypeOK, WorkOK, CutsReachOnlyTheirCommand
    <3> QED
      BY <2>2, <2>3, <3>1, OwnerType DEF Inv, TypeOK, CutsReachOnlyTheirCommand
  <2> QED
    BY <2>2, <2>4, <2>5, <2>6, <2>7 DEF Inv
<1>2. CASE p \notin live
  <2>1. /\ phase[c] = "idle" /\ Owner[p] = c /\ UNCHANGED <<live, flag, slots, fired, notified, sleep>>
        /\ phase' = [phase EXCEPT ![c] = "armed"] /\ page' = [page EXCEPT ![c] = p]
        /\ token' = [token EXCEPT ![c] = 0] /\ endless' = endless
    BY <1>2 DEF Dispatch, Begins, table, thread
  <2>2. TypeOK'
    BY <2>1 DEF Inv, TypeOK
  <2>3. WorkOK' /\ TokensDiffer'
    BY <2>1 DEF Inv, TypeOK, WorkOK, TokensDiffer
  <2>4. SlotsOwned'
    BY <2>1, Distinct, OwnerType DEF Inv, TypeOK, WorkOK, SlotsOwned
  <2>5. CutsReachOnlyTheirCommand'
    BY <2>1, Distinct, OwnerType DEF Inv, TypeOK, WorkOK, CutsReachOnlyTheirCommand
  <2>6. WakesInTime'
    BY <2>1 DEF Inv, WakesInTime
  <2> QED
    BY <2>2, <2>3, <2>4, <2>5, <2>6 DEF Inv
<1> QED
  BY <1>1, <1>2

\* A slot a careless client leaves behind is on an isolate of its own.
LEMMA DotlessInv ==
    ASSUME Inv, NEW c \in Conns, NEW p \in Pages, DispatchDotless(c, p)
    PROVE  Inv'
<1>1. PICK g \in Gens : Arm(p, g)
  BY DEF DispatchDotless
<1>2. /\ g \notin DOMAIN slots /\ \A d \in Conns : token[d] # g
      /\ DOMAIN slots' = DOMAIN slots \cup {g}
      /\ \A h \in DOMAIN slots : slots'[h] = slots[h]
      /\ slots'[g] = [left |-> Budget, on |-> p]
      /\ slots'[g] \in [left : 0..Budget, on : Pages \cup {Gone}]
      /\ notified' = TRUE /\ fired' = fired /\ sleep' = sleep
      /\ WakesInTime'
  BY <1>1, ArmTyped DEF Inv
<1>3. c \in Careless /\ Owner[p] = c /\ UNCHANGED <<live, flag, phase, page, token, endless>>
  BY DEF DispatchDotless, conns
<1>4. TypeOK'
  BY <1>2, <1>3 DEF Inv, TypeOK
<1>5. WorkOK' /\ TokensDiffer' /\ CutsReachOnlyTheirCommand'
  BY <1>2, <1>3 DEF Inv, WorkOK, TokensDiffer, CutsReachOnlyTheirCommand
<1>6. SlotsOwned'
  BY <1>2, <1>3 DEF Inv, SlotsOwned
<1> QED
  BY <1>2, <1>4, <1>5, <1>6 DEF Inv

\* A turn arms for itself and keeps the invariant.
LEMMA TurnInv ==
    ASSUME Inv, NEW c \in Conns, NEW p \in Pages, Turn(c, p)
    PROVE  Inv'
<1>1. PICK g \in Gens : token' = [token EXCEPT ![c] = g] /\ Arm(p, g)
  BY DEF Turn
<1>2. /\ g \notin DOMAIN slots /\ \A d \in Conns : token[d] # g
      /\ DOMAIN slots' = DOMAIN slots \cup {g}
      /\ \A h \in DOMAIN slots : slots'[h] = slots[h]
      /\ slots'[g] = [left |-> Budget, on |-> p]
      /\ slots'[g] \in [left : 0..Budget, on : Pages \cup {Gone}]
      /\ notified' = TRUE /\ fired' = fired /\ sleep' = sleep
      /\ WakesInTime'
  BY <1>1, ArmTyped DEF Inv
<1>3. PICK e \in BOOLEAN : endless' = [endless EXCEPT ![c] = e]
  BY DEF Turn
<1>4. /\ phase[c] = "idle" /\ Owner[p] = c /\ live' = live /\ flag' = flag
      /\ phase' = [phase EXCEPT ![c] = "running"] /\ page' = [page EXCEPT ![c] = p]
  BY DEF Turn
<1>5. endless' \in [Conns -> BOOLEAN]
  BY <1>3, Zenon DEF Inv, TypeOK
<1>6. TypeOK'
  BY <1>1, <1>2, <1>4, <1>5 DEF Inv, TypeOK
<1>7. WorkOK' /\ TokensDiffer'
  BY <1>1, <1>2, <1>4 DEF Inv, TypeOK, WorkOK, TokensDiffer
<1>8. SlotsOwned'
  <2>1. ASSUME NEW h \in DOMAIN slots, slots[h].on \in Pages, Owner[slots[h].on] \notin Careless
        PROVE  Owner[slots[h].on] # c
    BY <1>4, <2>1, Distinct DEF Inv, SlotsOwned, WorkOK
  <2> QED
    BY <1>1, <1>2, <1>4, <2>1, OwnerType DEF Inv, TypeOK, SlotsOwned
<1>9. CutsReachOnlyTheirCommand'
  <2>1. \A q \in flag : Owner[q] \in Careless \/ Owner[q] # c
    BY <1>4, Distinct DEF Inv, TypeOK, WorkOK, CutsReachOnlyTheirCommand
  <2> QED
    BY <1>1, <1>2, <1>4, <2>1, OwnerType DEF Inv, TypeOK, CutsReachOnlyTheirCommand
<1> QED
  BY <1>2, <1>6, <1>7, <1>8, <1>9 DEF Inv

\* JavaScript starts, on an isolate the page has or gets.
LEMMA RunInv ==
    ASSUME Inv, NEW c \in Conns, Run(c)
    PROVE  Inv'
<1>1. PICK e \in BOOLEAN : endless' = [endless EXCEPT ![c] = e]
  BY DEF Run
<1>2. endless' \in [Conns -> BOOLEAN]
  BY <1>1, Zenon DEF Inv, TypeOK
<1>3. /\ phase[c] = "armed" /\ phase' = [phase EXCEPT ![c] = "running"]
      /\ UNCHANGED <<page, token, fired, notified, sleep>>
  BY DEF Run, thread
<1>4. WorkOK' /\ TokensDiffer'
  BY <1>3 DEF Inv, TypeOK, WorkOK, TokensDiffer
<1>5. CASE page[c] \in live /\ UNCHANGED <<live, flag, slots>>
  <2>1. TypeOK'
    BY <1>2, <1>3, <1>5 DEF Inv, TypeOK
  <2>2. SlotsOwned' /\ CutsReachOnlyTheirCommand' /\ WakesInTime'
    BY <1>3, <1>5 DEF Inv, SlotsOwned, CutsReachOnlyTheirCommand, WakesInTime
  <2> QED
    BY <1>4, <2>1, <2>2 DEF Inv
<1>6. ASSUME NEW q \in Pages, Resume(c, page[c], q), flag' = flag \ {q}, slots' = Dropped({q})
      PROVE  Inv'
  <2>1. /\ DOMAIN slots' = DOMAIN slots
        /\ \A g \in DOMAIN slots :
              /\ slots'[g] \in [left : 0..Budget, on : Pages \cup {Gone}]
              /\ slots'[g].left = slots[g].left
              /\ slots'[g].on \in Pages =>
                    slots'[g].on = slots[g].on /\ slots[g].on \notin {q}
    BY <1>6, DroppedTyped DEF Inv
  <2>2. page[c] \in Pages
    BY <1>3 DEF Inv, WorkOK
  <2>3. live' = (live \ {q}) \cup {page[c]}
    BY <1>6 DEF Resume
  <2>4. TypeOK'
    BY <1>2, <1>3, <1>6, <2>1, <2>2, <2>3 DEF Inv, TypeOK
  <2>5. SlotsOwned'
    BY <1>3, <2>1 DEF Inv, SlotsOwned
  <2>6. CutsReachOnlyTheirCommand'
    BY <1>3, <1>6 DEF Inv, CutsReachOnlyTheirCommand
  <2>7. WakesInTime'
    BY <1>3, <2>1 DEF Inv, WakesInTime
  <2> QED
    BY <1>4, <2>4, <2>5, <2>6, <2>7 DEF Inv
<1> QED
  BY <1>5, <1>6 DEF Run

\* A handler that replaces or closes its page leaves handles to nothing.
LEMMA ReplaceInv ==
    ASSUME Inv, NEW c \in Conns, Replace(c)
    PROVE  Inv'
<1>1. /\ phase[c] = "armed" /\ phase' = [phase EXCEPT ![c] = "ended"]
      /\ flag' = flag \ {page[c]} /\ slots' = Dropped({page[c]})
      /\ live' \in {live \cup {page[c]}, live \ {page[c]}}
      /\ UNCHANGED <<page, token, endless, fired, notified, sleep>>
  BY DEF Replace, thread
<1>2. page[c] \in Pages
  BY <1>1 DEF Inv, WorkOK
<1>3. /\ DOMAIN slots' = DOMAIN slots
      /\ \A g \in DOMAIN slots :
            /\ slots'[g] \in [left : 0..Budget, on : Pages \cup {Gone}]
            /\ slots'[g].left = slots[g].left
            /\ slots'[g].on \in Pages =>
                  slots'[g].on = slots[g].on /\ slots[g].on \notin {page[c]}
  BY <1>1, DroppedTyped DEF Inv
<1>4. TypeOK'
  BY <1>1, <1>2, <1>3 DEF Inv, TypeOK
<1>5. WorkOK' /\ TokensDiffer'
  BY <1>1 DEF Inv, TypeOK, WorkOK, TokensDiffer
<1>6. SlotsOwned'
  BY <1>1, <1>3 DEF Inv, SlotsOwned
<1>7. CutsReachOnlyTheirCommand'
  BY <1>1 DEF Inv, CutsReachOnlyTheirCommand
<1>8. WakesInTime'
  BY <1>1, <1>3 DEF Inv, WakesInTime
<1> QED
  BY <1>4, <1>5, <1>6, <1>7, <1>8 DEF Inv

\* JavaScript that returns leaves the table alone.
LEMMA ReturnInv ==
    ASSUME Inv, NEW c \in Conns, Return(c)
    PROVE  Inv'
<1>1. /\ phase[c] = "running" /\ phase' = [phase EXCEPT ![c] = "ended"]
      /\ UNCHANGED <<live, flag, page, token, endless, slots, fired, notified, sleep>>
  BY DEF Return, table, thread
<1>2. TypeOK'
  BY <1>1 DEF Inv, TypeOK
<1>3. WorkOK' /\ TokensDiffer' /\ SlotsOwned' /\ CutsReachOnlyTheirCommand' /\ WakesInTime'
  BY <1>1 DEF Inv, TypeOK, WorkOK, TokensDiffer, SlotsOwned, CutsReachOnlyTheirCommand, WakesInTime
<1> QED
  BY <1>2, <1>3 DEF Inv

\* JavaScript that is cut may leave the flag set, on the command's own page.
LEMMA CutInv ==
    ASSUME Inv, NEW c \in Conns, Cut(c)
    PROVE  Inv'
<1>1. /\ phase[c] = "running" /\ phase' = [phase EXCEPT ![c] = "ended"]
      /\ flag' \subseteq flag /\ endless' = [endless EXCEPT ![c] = FALSE]
      /\ UNCHANGED <<live, page, token, slots, fired, notified, sleep>>
  BY DEF Cut, table, thread
<1>2. endless' \in [Conns -> BOOLEAN]
  BY <1>1, Zenon DEF Inv, TypeOK
<1>3. TypeOK'
  BY <1>1, <1>2 DEF Inv, TypeOK
<1>4. WorkOK' /\ TokensDiffer' /\ SlotsOwned' /\ CutsReachOnlyTheirCommand' /\ WakesInTime'
  BY <1>1 DEF Inv, TypeOK, WorkOK, TokensDiffer, SlotsOwned, CutsReachOnlyTheirCommand, WakesInTime
<1> QED
  BY <1>3, <1>4 DEF Inv

\* Disarming takes the command's slot, and its flag if the slot had fired.
LEMMA FinishInv ==
    ASSUME Inv, NEW c \in Conns, Finish(c)
    PROVE  Inv'
<1>1. /\ phase[c] = "ended" /\ phase' = [phase EXCEPT ![c] = "idle"]
      /\ page' = [page EXCEPT ![c] = None] /\ token' = [token EXCEPT ![c] = 0]
      /\ endless' = [endless EXCEPT ![c] = FALSE]
      /\ notified' = (notified \/ token[c] # 0)
      /\ fired' = fired \ {token[c]} /\ sleep' = sleep
  BY DEF Finish
<1>2. page[c] \in Pages /\ Owner[page[c]] = c
  BY <1>1 DEF Inv, WorkOK
<1>3. endless' \in [Conns -> BOOLEAN]
  BY <1>1, Zenon DEF Inv, TypeOK
<1>4. notified' \in BOOLEAN
  BY <1>1, Zenon DEF Inv, TypeOK
<1>5. WorkOK' /\ TokensDiffer'
  BY <1>1, Distinct DEF Inv, TypeOK, WorkOK, TokensDiffer
<1>6. ASSUME DOMAIN slots' = DOMAIN slots \ {token[c]},
             \A g \in DOMAIN slots' :
                /\ slots'[g] \in [left : 0..Budget, on : Pages \cup {Gone}]
                /\ slots'[g].left = slots[g].left
                /\ slots'[g].on \in Pages => slots'[g].on = slots[g].on,
             live' \subseteq Pages, flag' \subseteq live', flag' \subseteq flag,
             token[c] \in fired => page[c] \notin flag'
      PROVE  Inv'
  <2>1. TypeOK'
    BY <1>1, <1>3, <1>4, <1>6 DEF Inv, TypeOK
  <2>2. SlotsOwned'
    <3>1. ASSUME NEW g \in DOMAIN slots', slots'[g].on \in Pages
          PROVE  \/ Owner[slots'[g].on] \in Careless
                 \/ token'[Owner[slots'[g].on]] = g /\ page'[Owner[slots'[g].on]] = slots'[g].on
      <4>1. g \in DOMAIN slots /\ g # token[c] /\ slots'[g].on = slots[g].on
        BY <1>6, <3>1
      <4>2. \/ Owner[slots[g].on] \in Careless
            \/ token[Owner[slots[g].on]] = g /\ page[Owner[slots[g].on]] = slots[g].on
        BY <3>1, <4>1 DEF Inv, SlotsOwned
      <4> QED
        BY <1>1, <3>1, <4>1, <4>2, OwnerType DEF Inv, TypeOK
    <3> QED
      BY <3>1 DEF SlotsOwned
  <2>3. CutsReachOnlyTheirCommand'
    <3>1. ASSUME NEW p \in flag', Owner[p] \notin Careless
          PROVE  page'[Owner[p]] = p /\ token'[Owner[p]] \in fired'
      <4>1. p \in Pages /\ page[Owner[p]] = p /\ token[Owner[p]] \in fired /\ Owner[p] \in Conns
        BY <1>6, <3>1, OwnerType DEF Inv, TypeOK, CutsReachOnlyTheirCommand
      <4>2. Owner[p] # c
        BY <1>6, <3>1, <4>1
      <4>3. token[Owner[p]] # token[c]
        <5>1. token[Owner[p]] # 0
          BY <4>1 DEF Inv, TypeOK, Gens
        <5> QED
          BY <4>1, <4>2, <5>1 DEF Inv, TokensDiffer
      <4> QED
        BY <1>1, <4>1, <4>2, <4>3 DEF Inv, TypeOK
    <3> QED
      BY <3>1 DEF CutsReachOnlyTheirCommand
  <2>4. WakesInTime'
    BY <1>1, <1>6 DEF Inv, WakesInTime
  <2> QED
    BY <1>5, <2>1, <2>2, <2>3, <2>4 DEF Inv
<1>7. CASE token[c] \notin fired /\ slots' = Disarmed(slots, token[c]) /\ UNCHANGED <<live, flag>>
  BY <1>6, <1>7 DEF Disarmed, Inv, TypeOK
<1>8. CASE /\ token[c] \in fired /\ page[c] \in live /\ flag' = flag \ {page[c]}
           /\ slots' = Disarmed(slots, token[c]) /\ live' = live
  BY <1>6, <1>8 DEF Disarmed, Inv, TypeOK
<1>9. CASE /\ token[c] \in fired /\ page[c] \notin live
           /\ slots' = Disarmed(slots, token[c]) /\ UNCHANGED <<live, flag>>
  BY <1>6, <1>9 DEF Disarmed, Inv, TypeOK
<1>10. ASSUME NEW q \in Pages, token[c] \in fired, Resume(c, page[c], q),
              flag' = flag \ {q}, slots' = Disarmed(Dropped({q}), token[c])
       PROVE  Inv'
  <2>1. /\ DOMAIN Dropped({q}) = DOMAIN slots
        /\ \A g \in DOMAIN slots :
              /\ Dropped({q})[g] \in [left : 0..Budget, on : Pages \cup {Gone}]
              /\ Dropped({q})[g].left = slots[g].left
              /\ Dropped({q})[g].on \in Pages => Dropped({q})[g].on = slots[g].on
    BY DroppedTyped DEF Inv
  <2>2. live' = (live \ {q}) \cup {page[c]} /\ page[c] \notin live
    BY <1>10 DEF Resume
  <2>3. live' \subseteq Pages /\ flag' \subseteq live' /\ flag' \subseteq flag /\ page[c] \notin flag'
    BY <1>2, <1>10, <2>2 DEF Inv, TypeOK
  <2>4. /\ DOMAIN slots' = DOMAIN slots \ {token[c]}
        /\ \A g \in DOMAIN slots' : slots'[g] = Dropped({q})[g]
    BY <1>10, <2>1 DEF Disarmed
  <2> QED
    BY <1>6, <2>1, <2>3, <2>4
<1> QED
  BY <1>7, <1>8, <1>9, <1>10 DEF Finish

\* A pass fires what is due, on its own isolate, and sleeps to the next slot.
LEMMA PassInv ==
    ASSUME Inv, Pass
    PROVE  Inv'
<1>1. /\ slots' = [g \in Rest |-> slots[g]] /\ fired' = fired \cup (Due \cap Tokens)
      /\ flag' = flag \cup {p \in live : \E g \in Due : slots[g].on = p}
      /\ notified' = FALSE /\ UNCHANGED <<live, phase, page, token, endless>>
  BY DEF Pass, conns
<1>2. Due \subseteq DOMAIN slots /\ Rest \subseteq DOMAIN slots
  BY DEF Due, Rest
<1>3. /\ sleep' \in 0..Budget \cup {Forever}
      /\ \A h \in Rest : sleep' # Forever /\ sleep' <= slots[h].left
  <2>1. CASE Rest = {}
    BY <2>1 DEF Pass
  <2>2. CASE Rest # {}
    <3>1. PICK g \in Rest : /\ \A h \in Rest : slots[g].left <= slots[h].left
                            /\ sleep' = slots[g].left
      BY <2>2 DEF Pass
    <3>2. slots[g].left \in 0..Budget
      BY <1>2 DEF Inv, TypeOK
    <3>3. sleep' # Forever
      BY <3>1, <3>2, Distinct
    <3> QED
      BY <3>1, <3>2, <3>3
  <2> QED
    BY <2>1, <2>2
<1>4. TypeOK'
  <2>1. notified' \in BOOLEAN
    BY <1>1
  <2>2. fired' \subseteq Gens
    BY <1>1, <1>2 DEF Inv, TypeOK
  <2> QED
    BY <1>1, <1>2, <1>3, <2>1, <2>2 DEF Inv, TypeOK
<1>5. WorkOK' /\ TokensDiffer'
  BY <1>1 DEF Inv, WorkOK, TokensDiffer
<1>6. SlotsOwned'
  BY <1>1, <1>2 DEF Inv, SlotsOwned
<1>7. CutsReachOnlyTheirCommand'
  <2>1. ASSUME NEW p \in live, NEW g \in Due, slots[g].on = p, Owner[p] \notin Careless
        PROVE  page[Owner[p]] = p /\ token[Owner[p]] \in fired'
    <3>1. p \in Pages /\ Owner[p] \in Conns
      BY OwnerType DEF Inv, TypeOK
    <3>2. token[Owner[p]] = g /\ page[Owner[p]] = p
      BY <1>2, <2>1, <3>1 DEF Inv, SlotsOwned
    <3> QED
      BY <1>1, <3>1, <3>2 DEF Tokens
  <2> QED
    BY <1>1, <2>1 DEF Inv, CutsReachOnlyTheirCommand
<1>8. WakesInTime'
  BY <1>1, <1>3 DEF WakesInTime
<1> QED
  BY <1>4, <1>5, <1>6, <1>7, <1>8 DEF Inv

\* Time passes for the sleeper as for the slots.
LEMMA TickInv ==
    ASSUME Inv, Tick
    PROVE  Inv'
<1>1. /\ DOMAIN slots' = DOMAIN slots
      /\ UNCHANGED <<live, flag, phase, page, token, endless, fired, notified>>
  BY DEF Tick, conns
<1>2. ASSUME NEW g \in DOMAIN slots
      PROVE  /\ slots'[g] \in [left : 0..Budget, on : Pages \cup {Gone}]
             /\ slots'[g].on = slots[g].on
             /\ slots'[g].left = IF slots[g].left = 0 THEN 0 ELSE slots[g].left - 1
  <2>1. slots[g] \in [left : 0..Budget, on : Pages \cup {Gone}]
    BY DEF Inv, TypeOK
  <2>2. slots'[g] = [slots[g] EXCEPT !.left = IF @ = 0 THEN 0 ELSE @ - 1]
    BY DEF Tick
  <2> QED
    BY <2>1, <2>2, BudgetType
<1>3. sleep' = IF sleep \in Nat \ {0} THEN sleep - 1 ELSE sleep
  BY DEF Tick
<1>4. sleep' \in 0..Budget \cup {Forever}
  BY <1>3, BudgetType, Distinct DEF Inv, TypeOK
<1>5. TypeOK'
  BY <1>1, <1>2, <1>4 DEF Inv, TypeOK
<1>6. WorkOK' /\ TokensDiffer' /\ SlotsOwned' /\ CutsReachOnlyTheirCommand'
  BY <1>1, <1>2 DEF Inv, WorkOK, TokensDiffer, SlotsOwned, CutsReachOnlyTheirCommand
<1>7. WakesInTime'
  <2>1. ASSUME NEW g \in DOMAIN slots, ~notified
        PROVE  sleep' # Forever /\ sleep' <= slots'[g].left
    <3>1. sleep # Forever /\ sleep <= slots[g].left
      BY <2>1 DEF Inv, WakesInTime
    <3>2. sleep \in 0..Budget /\ slots[g].left \in 0..Budget
      BY <3>1 DEF Inv, TypeOK
    <3>3. slots'[g].left = IF slots[g].left = 0 THEN 0 ELSE slots[g].left - 1
      BY <1>2
    <3> QED
      BY <1>3, <3>1, <3>2, <3>3, BudgetType, Distinct
  <2> QED
    BY <1>1, <2>1 DEF WakesInTime
<1> QED
  BY <1>5, <1>6, <1>7 DEF Inv

\* The strengthened invariant of the watchdog and of the code that arms it.
THEOREM WatchdogInvariant == Spec => []Inv
<1>1. ASSUME Inv, [Next]_vars PROVE Inv'
  <2>1. ASSUME NEW c \in Conns, Work(c) PROVE Inv'
    BY <1>1, <2>1, RunInv, ReplaceInv, ReturnInv, CutInv, FinishInv DEF Work
  <2>2. ASSUME NEW c \in Conns, NEW p \in Pages, Dispatch(c, p) \/ DispatchDotless(c, p) \/ Turn(c, p)
        PROVE  Inv'
    BY <1>1, <2>2, DispatchInv, DotlessInv, TurnInv
  <2>3. CASE UNCHANGED vars
    <3>1. UNCHANGED <<live, flag, phase, page, token, endless, slots, fired, notified, sleep>>
      BY <2>3 DEF vars, conns, table, thread
    <3> QED
      BY <1>1, <3>1 DEF Inv, TypeOK, WorkOK, TokensDiffer, SlotsOwned,
         CutsReachOnlyTheirCommand, WakesInTime
  <2> QED
    BY <1>1, <2>1, <2>2, <2>3, PassInv, TickInv DEF Next
<1> QED
  BY <1>1, InitInv, PTL DEF Spec

\* A termination reaches only the command that overran, whatever the other
\* connections do, for every client that names its methods right.
THEOREM TerminationIsOwn == Spec => []CutsReachOnlyTheirCommand
<1>1. Inv => CutsReachOnlyTheirCommand
  BY DEF Inv
<1> QED
  BY <1>1, WatchdogInvariant, PTL

\* The watchdog thread never sleeps past a deadline without being notified.
THEOREM NoSleepPastDeadline == Spec => []WakesInTime
<1>1. Inv => WakesInTime
  BY DEF Inv
<1> QED
  BY <1>1, WatchdogInvariant, PTL
=============================================================================
