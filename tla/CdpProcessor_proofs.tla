------------------------- MODULE CdpProcessor_proofs -------------------------
(***************************************************************************)
(* For any number of commands, documents and requests and any limit of the *)
(* deferral queue: commands run in the order they were sent, none is       *)
(* replied to twice, and when the processor has nothing to take none but   *)
(* those that name a Fetch answer is without its reply.                    *)
(*                                                                         *)
(* The argument is about the two queues and the command in hand alone; a   *)
(* step is one of six kinds to them, whatever it does to pages and         *)
(* requests.  The second part is about those: which command decided a      *)
(* paused request.                                                         *)
(***************************************************************************)
EXTENDS CdpProcessor, TLAPS

LEMMA BoundFacts == MaxSaid \in Nat /\ MaxDeferred \in Nat /\ Nobody = 0
<1>1. MaxDocs * MaxRequests \in Nat
  BY ProcessorAssumption
<1>2. QED BY <1>1, ProcessorAssumption DEF MaxSaid, Nobody

SaidIsSequence == said \in Seq({said[k] : k \in 1..Len(said)})

(* What the proofs read of the types; of said, no more than that it is a   *)
(* sequence.                                                               *)
Typed ==
    /\ SaidIsSequence /\ Len(said) \in 0..MaxSaid
    /\ rx \in Seq(1..Len(said)) /\ deferred \in Seq(1..Len(said))
    /\ executed \in Seq(1..Len(said))
    /\ cmd \in 0..Len(said)
    /\ replies \in [1..MaxSaid -> {0, 1}]

Waits(i) == \/ \E k \in 1..Len(deferred) : deferred[k] = i
            \/ \E k \in 1..Len(rx) : rx[k] = i

(* Commands wait in the order they were sent, the deferred ones first.     *)
Queued ==
    /\ \A j, k \in 1..Len(deferred) : j < k => deferred[j] < deferred[k]
    /\ \A j, k \in 1..Len(rx) : j < k => rx[j] < rx[k]
    /\ \A j \in 1..Len(deferred), k \in 1..Len(rx) : deferred[j] < rx[k]

(* The command in hand, and those that ran, came before all that wait.     *)
Before ==
    /\ \A i \in 1..Len(said) : Waits(i) => cmd < i
    /\ \A i \in 1..Len(said), j \in 1..Len(executed) : Waits(i) => executed[j] < i

(* Who has a reply, and who is still to have one.                          *)
Replied ==
    /\ \A i \in 1..MaxSaid : Waits(i) \/ i = cmd \/ i > Len(said) => replies[i] = 0
    /\ \A i \in 1..Len(said) : Ordinary(i) => Waits(i) \/ i = cmd \/ replies[i] = 1

(* The command in hand is the one the mode is at.                          *)
AtWork == /\ mode \in {"loop", "stopped"} => cmd = Nobody
          /\ mode = "dispatch" => attached /\ cmd # Nobody

Inv == Typed /\ Queued /\ Before /\ InOrder /\ Replied /\ AtWork

-----------------------------------------------------------------------------
(* Sequences.                                                              *)

LEMMA TailFacts ==
  ASSUME NEW S, NEW s \in Seq(S), s # <<>>
  PROVE  /\ Len(s) \in Nat /\ Len(s) > 0 /\ Head(s) = s[1] /\ s[1] \in S
         /\ Tail(s) \in Seq(S) /\ Len(Tail(s)) = Len(s) - 1
         /\ \A k \in 1..(Len(s) - 1) : Tail(s)[k] = s[k + 1]
OBVIOUS

LEMMA AppendFacts ==
  ASSUME NEW S, NEW s \in Seq(S), NEW e \in S
  PROVE  /\ Len(s) \in Nat
         /\ Append(s, e) \in Seq(S) /\ Len(Append(s, e)) = Len(s) + 1
         /\ Append(s, e)[Len(s) + 1] = e
         /\ \A k \in 1..Len(s) : Append(s, e)[k] = s[k]
OBVIOUS

LEMMA SeqWidens ==
  ASSUME NEW m \in Nat, NEW n \in Nat, m <= n, NEW s \in Seq(1..m)
  PROVE  s \in Seq(1..n)
<1>1. 1..m \subseteq 1..n
  OBVIOUS
<1>2. QED BY <1>1

-----------------------------------------------------------------------------
(* The queues.                                                             *)

(* Of the commands that wait, i alone no longer does.                      *)
Drops(i) == \A j \in Nat : Waits(j)' <=> Waits(j) /\ j # i

Removed(i) ==
    /\ said' = said /\ i \in 1..Len(said) /\ Waits(i) /\ Drops(i)
    /\ rx' \in Seq(1..Len(said)) /\ deferred' \in Seq(1..Len(said)) /\ Queued'

LEMMA RemovedFromRx ==
  ASSUME Typed, Queued, rx # <<>>, rx' = Tail(rx), UNCHANGED <<said, deferred>>
  PROVE  Removed(Head(rx))
<1>1. /\ Len(rx) \in Nat /\ Len(rx) > 0 /\ Head(rx) = rx[1] /\ rx[1] \in 1..Len(said)
      /\ rx' \in Seq(1..Len(said)) /\ Len(rx') = Len(rx) - 1
      /\ \A k \in 1..(Len(rx) - 1) : rx'[k] = rx[k + 1]
  BY TailFacts DEF Typed
<1>2. Len(deferred) \in Nat /\ deferred \in Seq(1..Len(said))
  BY DEF Typed
<1>3. Waits(rx[1])
  BY <1>1 DEF Waits
<1>4. Queued'
  BY <1>1, <1>2 DEF Queued
<1>5. ASSUME NEW j \in Nat PROVE Waits(j)' <=> Waits(j) /\ j # rx[1]
  <2>1. ASSUME NEW k \in 1..Len(rx) PROVE rx[k] # rx[1] <=> k # 1
    BY <1>1 DEF Queued, Typed
  <2>2. ASSUME NEW k \in 1..Len(deferred) PROVE deferred[k] # rx[1]
    BY <1>1, <1>2 DEF Queued
  <2>3. ASSUME NEW k \in 1..Len(rx), k # 1 PROVE k - 1 \in 1..Len(rx') /\ rx'[k - 1] = rx[k]
    BY <1>1, <2>3
  <2>4. ASSUME NEW k \in 1..Len(rx') PROVE k + 1 \in 1..Len(rx) /\ rx'[k] = rx[k + 1] /\ k + 1 # 1
    BY <1>1
  <2>5. ASSUME Waits(j), j # rx[1] PROVE Waits(j)'
    <3>1. CASE \E k \in 1..Len(deferred) : deferred[k] = j
      BY <3>1 DEF Waits
    <3>2. CASE \E k \in 1..Len(rx) : rx[k] = j
      <4>1. PICK k \in 1..Len(rx) : rx[k] = j
        BY <3>2
      <4>2. k # 1
        BY <2>5, <4>1
      <4>3. QED BY <2>3, <4>1, <4>2 DEF Waits
    <3>3. QED BY <2>5, <3>1, <3>2 DEF Waits
  <2>6. ASSUME Waits(j)' PROVE Waits(j) /\ j # rx[1]
    <3>1. CASE \E k \in 1..Len(deferred) : deferred[k] = j
      BY <2>2, <3>1 DEF Waits
    <3>2. CASE \E k \in 1..Len(rx') : rx'[k] = j
      <4>1. PICK k \in 1..Len(rx') : rx'[k] = j
        BY <3>2
      <4>2. QED BY <2>1, <2>4, <4>1 DEF Waits
    <3>3. QED BY <2>6, <3>1, <3>2 DEF Waits
  <2>7. QED BY <2>5, <2>6
<1>6. QED BY <1>1, <1>2, <1>3, <1>4, <1>5 DEF Removed, Drops

LEMMA RemovedFromDeferred ==
  ASSUME Typed, Queued, deferred # <<>>, deferred' = Tail(deferred), UNCHANGED <<said, rx>>
  PROVE  Removed(Head(deferred))
<1>1. /\ Len(deferred) \in Nat /\ Len(deferred) > 0
      /\ Head(deferred) = deferred[1] /\ deferred[1] \in 1..Len(said)
      /\ deferred' \in Seq(1..Len(said)) /\ Len(deferred') = Len(deferred) - 1
      /\ \A k \in 1..(Len(deferred) - 1) : deferred'[k] = deferred[k + 1]
  BY TailFacts DEF Typed
<1>2. Len(rx) \in Nat /\ rx \in Seq(1..Len(said))
  BY DEF Typed
<1>3. Waits(deferred[1])
  BY <1>1 DEF Waits
<1>4. Queued'
  <2>1. ASSUME NEW k \in 1..Len(deferred')
        PROVE  k + 1 \in 1..Len(deferred) /\ deferred'[k] = deferred[k + 1]
    BY <1>1
  <2>2. ASSUME NEW j \in 1..Len(deferred'), NEW k \in 1..Len(deferred'), j < k
        PROVE  deferred'[j] < deferred'[k]
    <3>1. j + 1 < k + 1
      BY <1>1, <2>2
    <3>2. QED BY <2>1, <3>1 DEF Queued
  <2>3. ASSUME NEW j \in 1..Len(deferred'), NEW k \in 1..Len(rx) PROVE deferred'[j] < rx[k]
    BY <2>1 DEF Queued
  <2>4. QED BY <2>2, <2>3 DEF Queued
<1>5. ASSUME NEW j \in Nat PROVE Waits(j)' <=> Waits(j) /\ j # deferred[1]
  <2>1. ASSUME NEW k \in 1..Len(deferred) PROVE deferred[k] # deferred[1] <=> k # 1
    BY <1>1 DEF Queued, Typed
  <2>2. ASSUME NEW k \in 1..Len(rx) PROVE rx[k] # deferred[1]
    BY <1>1, <1>2 DEF Queued
  <2>3. ASSUME NEW k \in 1..Len(deferred), k # 1
        PROVE  k - 1 \in 1..Len(deferred') /\ deferred'[k - 1] = deferred[k]
    BY <1>1, <2>3
  <2>4. ASSUME NEW k \in 1..Len(deferred')
        PROVE  k + 1 \in 1..Len(deferred) /\ deferred'[k] = deferred[k + 1] /\ k + 1 # 1
    BY <1>1
  <2>5. ASSUME Waits(j), j # deferred[1] PROVE Waits(j)'
    <3>1. CASE \E k \in 1..Len(rx) : rx[k] = j
      BY <3>1 DEF Waits
    <3>2. CASE \E k \in 1..Len(deferred) : deferred[k] = j
      <4>1. PICK k \in 1..Len(deferred) : deferred[k] = j
        BY <3>2
      <4>2. k # 1
        BY <2>5, <4>1
      <4>3. QED BY <2>3, <4>1, <4>2 DEF Waits
    <3>3. QED BY <2>5, <3>1, <3>2 DEF Waits
  <2>6. ASSUME Waits(j)' PROVE Waits(j) /\ j # deferred[1]
    <3>1. CASE \E k \in 1..Len(rx) : rx[k] = j
      BY <2>2, <3>1 DEF Waits
    <3>2. CASE \E k \in 1..Len(deferred') : deferred'[k] = j
      <4>1. PICK k \in 1..Len(deferred') : deferred'[k] = j
        BY <3>2
      <4>2. QED BY <2>1, <2>4, <4>1 DEF Waits
    <3>3. QED BY <2>6, <3>1, <3>2 DEF Waits
  <2>7. QED BY <2>5, <2>6
<1>6. QED BY <1>1, <1>2, <1>3, <1>4, <1>5 DEF Removed, Drops

(* The loop takes the earliest of the commands that wait.                  *)
LEMMA TakesEarliest ==
  ASSUME Typed, Queued, NEW i, Takes(i), said' = said
  PROVE  Removed(i) /\ \A j \in Nat : Waits(j)' => i < j
<1>1. CASE deferred # <<>>
  <2>1. i = Head(deferred) /\ deferred' = Tail(deferred) /\ rx' = rx
    BY <1>1 DEF Takes
  <2>2. Removed(i)
    BY <1>1, <2>1, RemovedFromDeferred
  <2>3. i = deferred[1] /\ Len(deferred) \in Nat /\ Len(deferred) > 0
    BY <1>1, <2>1, TailFacts DEF Typed
  <2>4. ASSUME NEW j \in Nat, Waits(j), j # i PROVE i < j
    <3>1. CASE \E k \in 1..Len(deferred) : deferred[k] = j
      <4>1. PICK k \in 1..Len(deferred) : deferred[k] = j
        BY <3>1
      <4>2. 1 \in 1..Len(deferred) /\ 1 < k
        BY <2>3, <2>4, <4>1
      <4>3. QED BY <2>3, <4>1, <4>2 DEF Queued
    <3>2. CASE \E k \in 1..Len(rx) : rx[k] = j
      BY <2>3, <3>2 DEF Queued
    <3>3. QED BY <2>4, <3>1, <3>2 DEF Waits
  <2>5. QED BY <2>2, <2>4 DEF Removed, Drops
<1>2. CASE deferred = <<>>
  <2>1. rx # <<>> /\ i = Head(rx) /\ rx' = Tail(rx) /\ deferred' = deferred
    BY <1>2 DEF Takes
  <2>2. Removed(i)
    BY <2>1, RemovedFromRx
  <2>3. i = rx[1] /\ Len(rx) \in Nat /\ Len(rx) > 0 /\ Len(deferred) = 0
    BY <1>2, <2>1, TailFacts DEF Typed
  <2>4. ASSUME NEW j \in Nat, Waits(j), j # i PROVE i < j
    BY <2>3, <2>4 DEF Waits, Queued, Typed
  <2>5. QED BY <2>2, <2>4 DEF Removed, Drops
<1>3. QED BY <1>1, <1>2

(* Put off, the first command of the channel still waits, last of those    *)
(* deferred and before the rest of the channel.                            *)
LEMMA Defers ==
  ASSUME Typed, Queued, rx # <<>>, rx' = Tail(rx), said' = said,
         deferred' = Append(deferred, Head(rx))
  PROVE  /\ rx' \in Seq(1..Len(said)) /\ deferred' \in Seq(1..Len(said)) /\ Queued'
         /\ \A j \in Nat : Waits(j)' <=> Waits(j)
<1>1. /\ Len(rx) \in Nat /\ Len(rx) > 0 /\ Head(rx) = rx[1] /\ rx[1] \in 1..Len(said)
      /\ rx' \in Seq(1..Len(said)) /\ Len(rx') = Len(rx) - 1
      /\ \A k \in 1..(Len(rx) - 1) : rx'[k] = rx[k + 1]
  BY TailFacts DEF Typed
<1>2. /\ Len(deferred) \in Nat
      /\ deferred' \in Seq(1..Len(said)) /\ Len(deferred') = Len(deferred) + 1
      /\ deferred'[Len(deferred) + 1] = rx[1]
      /\ \A k \in 1..Len(deferred) : deferred'[k] = deferred[k]
  BY <1>1, AppendFacts DEF Typed
<1>3. Queued'
  <2>1. ASSUME NEW j \in 1..Len(deferred'), NEW k \in 1..Len(deferred'), j < k
        PROVE  deferred'[j] < deferred'[k]
    <3>1. j \in 1..Len(deferred)
      BY <1>2, <2>1
    <3>2. CASE k = Len(deferred) + 1
      BY <1>1, <1>2, <3>1, <3>2 DEF Queued
    <3>3. CASE k \in 1..Len(deferred)
      BY <1>2, <2>1, <3>1, <3>3 DEF Queued
    <3>4. QED BY <1>2, <3>2, <3>3
  <2>2. ASSUME NEW j \in 1..Len(rx'), NEW k \in 1..Len(rx'), j < k PROVE rx'[j] < rx'[k]
    BY <1>1, <2>2 DEF Queued
  <2>3. ASSUME NEW j \in 1..Len(deferred'), NEW k \in 1..Len(rx') PROVE deferred'[j] < rx'[k]
    <3>1. rx'[k] = rx[k + 1] /\ k + 1 \in 1..Len(rx) /\ 1 \in 1..Len(rx) /\ 1 < k + 1
      BY <1>1
    <3>2. CASE j = Len(deferred) + 1
      BY <1>2, <3>1, <3>2 DEF Queued
    <3>3. CASE j \in 1..Len(deferred)
      BY <1>2, <3>1, <3>3 DEF Queued
    <3>4. QED BY <1>2, <3>2, <3>3
  <2>4. QED BY <2>1, <2>2, <2>3 DEF Queued
<1>4. ASSUME NEW j \in Nat PROVE Waits(j)' <=> Waits(j)
  <2>1. ASSUME NEW k \in 1..Len(rx), k # 1 PROVE k - 1 \in 1..Len(rx') /\ rx'[k - 1] = rx[k]
    BY <1>1, <2>1
  <2>2. ASSUME NEW k \in 1..Len(rx') PROVE k + 1 \in 1..Len(rx) /\ rx'[k] = rx[k + 1]
    BY <1>1
  <2>3. ASSUME Waits(j) PROVE Waits(j)'
    <3>1. CASE \E k \in 1..Len(deferred) : deferred[k] = j
      BY <1>2, <3>1 DEF Waits
    <3>2. CASE rx[1] = j
      BY <1>2, <3>2 DEF Waits
    <3>3. CASE \E k \in 1..Len(rx) : k # 1 /\ rx[k] = j
      BY <2>1, <3>3 DEF Waits
    <3>4. QED BY <2>3, <3>1, <3>2, <3>3 DEF Waits
  <2>4. ASSUME Waits(j)' PROVE Waits(j)
    <3>1. CASE \E k \in 1..Len(deferred') : deferred'[k] = j
      <4>1. PICK k \in 1..Len(deferred') : deferred'[k] = j
        BY <3>1
      <4>2. k \in 1..Len(deferred) \/ k = Len(deferred) + 1
        BY <1>2
      <4>3. QED BY <1>1, <1>2, <4>1, <4>2 DEF Waits
    <3>2. CASE \E k \in 1..Len(rx') : rx'[k] = j
      BY <2>2, <3>2 DEF Waits
    <3>3. QED BY <2>4, <3>1, <3>2 DEF Waits
  <2>5. QED BY <2>3, <2>4
<1>5. QED BY <1>1, <1>2, <1>3, <1>4

-----------------------------------------------------------------------------
(* The kinds of steps.                                                     *)

LEMMA InitInv == Init => Inv
<1> SUFFICES ASSUME Init PROVE Inv
  OBVIOUS
<1>1. /\ said = <<>> /\ rx = <<>> /\ deferred = <<>> /\ executed = <<>>
      /\ cmd = 0 /\ mode = "loop" /\ attached = TRUE
      /\ replies = [i \in 1..MaxSaid |-> 0]
  BY DEF Init, Nobody
<1>2. MaxSaid \in Nat
  BY BoundFacts
<1>3. Typed
  <2>1. SaidIsSequence
    BY <1>1 DEF SaidIsSequence
  <2>2. QED BY <1>1, <1>2, <2>1 DEF Typed
<1>4. ASSUME NEW i PROVE ~Waits(i)
  BY <1>1 DEF Waits
<1>5. Queued /\ Before /\ InOrder /\ Replied /\ AtWork
  BY <1>1, <1>2, <1>4 DEF Queued, Before, InOrder, Replied, AtWork, Nobody
<1>6. QED BY <1>3, <1>5 DEF Inv

(* A step that moves no command.                                           *)
LEMMA IdleKeeps ==
  ASSUME Inv, UNCHANGED <<said, rx, deferred, cmd, replies, executed>>, AtWork'
  PROVE  Inv'
<1>1. /\ Typed /\ Queued /\ Before /\ InOrder /\ Replied
      /\ said' = said /\ rx' = rx /\ deferred' = deferred /\ cmd' = cmd
      /\ replies' = replies /\ executed' = executed
  BY DEF Inv
<1>2. Typed'
  <2>1. SaidIsSequence'
    BY <1>1 DEF Typed, SaidIsSequence
  <2>2. QED BY <1>1, <2>1 DEF Typed
<1>3. Queued' /\ InOrder'
  BY <1>1 DEF Queued, InOrder
<1>4. ASSUME NEW i PROVE (Waits(i)' <=> Waits(i)) /\ (Ordinary(i)' <=> Ordinary(i))
  BY <1>1 DEF Waits, Ordinary
<1>5. Before' /\ Replied'
  BY <1>1, <1>4 DEF Before, Replied
<1>6. QED BY <1>2, <1>3, <1>5 DEF Inv

(* The client sends a command.                                             *)
LEMMA SayKeeps ==
  ASSUME Inv, NEW c, Say(c), UNCHANGED <<deferred, attached, mode, cmd, replies, executed>>
  PROVE  Inv'
<1>1. Len(said) \in Nat /\ Len(said) < MaxSaid /\ MaxSaid \in Nat
  BY BoundFacts DEF Say, Inv, Typed
<1>2. /\ said' \in Seq({said'[k] : k \in 1..Len(said')}) /\ Len(said') = Len(said) + 1
      /\ \A k \in 1..Len(said) : said'[k] = said[k]
  <2> DEFINE S == {said[k] : k \in 1..Len(said)}
             T == S \cup {c}
  <2>1. said \in Seq(S) /\ said' = Append(said, c)
    BY DEF Say, Inv, Typed, SaidIsSequence
  <2>2. said \in Seq(T)
    <3> HIDE DEF S
    <3> QED BY <2>1
  <2>3. /\ said' \in Seq(T) /\ Len(said') = Len(said) + 1 /\ said'[Len(said) + 1] = c
        /\ \A k \in 1..Len(said) : said'[k] = said[k]
    <3> HIDE DEF T
    <3>1. c \in T
      BY DEF T
    <3>2. QED BY <2>1, <2>2, <3>1, AppendFacts
  <2>4. T = {said'[k] : k \in 1..Len(said')}
    <3>1. 1..Len(said') = 1..Len(said) \cup {Len(said) + 1}
      BY <1>1, <2>3
    <3>2. QED BY <2>3, <3>1
  <2>5. QED BY <2>3, <2>4
<1>3. /\ Len(rx) \in Nat
      /\ rx' \in Seq(1..Len(said')) /\ Len(rx') = Len(rx) + 1
      /\ rx'[Len(rx) + 1] = Len(said')
      /\ \A k \in 1..Len(rx) : rx'[k] = rx[k] /\ rx[k] \in 1..Len(said)
  <2>1. rx \in Seq(1..Len(said)) /\ rx \in Seq(1..Len(said')) /\ rx' = Append(rx, Len(said'))
    BY <1>1, <1>2, SeqWidens DEF Say, Inv, Typed
  <2>2. Len(said') \in 1..Len(said')
    BY <1>1, <1>2
  <2>3. QED BY <2>1, <2>2, AppendFacts
<1>4. /\ Len(deferred) \in Nat /\ Len(executed) \in Nat
      /\ deferred \in Seq(1..Len(said')) /\ executed \in Seq(1..Len(said'))
      /\ \A k \in 1..Len(deferred) : deferred[k] \in 1..Len(said)
      /\ \A k \in 1..Len(executed) : executed[k] \in 1..Len(said)
  <2>1. deferred \in Seq(1..Len(said)) /\ executed \in Seq(1..Len(said))
    BY DEF Inv, Typed
  <2>2. deferred \in Seq(1..Len(said')) /\ executed \in Seq(1..Len(said'))
    BY <1>1, <1>2, <2>1, SeqWidens
  <2>3. QED BY <2>1, <2>2
<1>5. cmd \in 0..Len(said) /\ replies \in [1..MaxSaid -> {0, 1}]
  BY DEF Inv, Typed
<1>6. Typed'
  <2>1. SaidIsSequence'
    BY <1>2 DEF SaidIsSequence
  <2>2. QED BY <1>1, <1>2, <1>3, <1>4, <1>5, <2>1 DEF Typed
<1>7. Queued'
  <2>1. Queued
    BY DEF Inv
  <2>2. ASSUME NEW j \in 1..Len(rx'), NEW k \in 1..Len(rx'), j < k PROVE rx'[j] < rx'[k]
    <3>1. j \in 1..Len(rx)
      BY <1>3, <2>2
    <3>2. CASE k \in 1..Len(rx)
      BY <1>3, <2>1, <2>2, <3>1, <3>2 DEF Queued
    <3>3. CASE k = Len(rx) + 1
      <4>1. rx'[k] = Len(said) + 1 /\ rx'[j] \in 1..Len(said)
        BY <1>2, <1>3, <3>1, <3>3
      <4>2. QED BY <1>1, <4>1
    <3>4. QED BY <1>3, <3>2, <3>3
  <2>3. ASSUME NEW j \in 1..Len(deferred), NEW k \in 1..Len(rx') PROVE deferred[j] < rx'[k]
    <3>1. CASE k \in 1..Len(rx)
      BY <1>3, <2>1, <3>1 DEF Queued
    <3>2. CASE k = Len(rx) + 1
      <4>1. rx'[k] = Len(said) + 1 /\ deferred[j] \in 1..Len(said)
        BY <1>2, <1>3, <1>4, <3>2
      <4>2. QED BY <1>1, <4>1
    <3>3. QED BY <1>3, <3>1, <3>2
  <2>4. deferred' = deferred
    OBVIOUS
  <2>5. QED BY <2>1, <2>2, <2>3, <2>4 DEF Queued
<1>8. ASSUME NEW j \in Nat PROVE Waits(j)' <=> Waits(j) \/ j = Len(said)'
  <2>1. ASSUME Waits(j) PROVE Waits(j)'
    BY <1>3, <2>1 DEF Waits
  <2>2. ASSUME j = Len(said)' PROVE Waits(j)'
    BY <1>3, <2>2 DEF Waits
  <2>3. ASSUME NEW k \in 1..Len(rx'), rx'[k] = j PROVE Waits(j) \/ j = Len(said)'
    <3>1. k \in 1..Len(rx) \/ k = Len(rx) + 1
      BY <1>3
    <3>2. QED BY <1>3, <2>3, <3>1 DEF Waits
  <2>4. QED BY <2>1, <2>2, <2>3 DEF Waits
<1>9. Before'
  <2>1. Before
    BY DEF Inv
  <2>2. ASSUME NEW i \in 1..Len(said)', Waits(i)' PROVE cmd < i
    BY <1>1, <1>2, <1>5, <1>8, <2>1, <2>2 DEF Before
  <2>3. ASSUME NEW i \in 1..Len(said)', NEW j \in 1..Len(executed), Waits(i)' PROVE executed[j] < i
    <3>1. CASE i = Len(said) + 1
      <4>1. executed[j] \in 1..Len(said)
        BY <1>4
      <4>2. QED BY <1>1, <3>1, <4>1
    <3>2. CASE i \in 1..Len(said)
      <4>1. Waits(i)
        BY <1>1, <1>2, <1>8, <2>3, <3>2
      <4>2. QED BY <2>1, <3>2, <4>1 DEF Before
    <3>3. QED BY <1>1, <1>2, <3>1, <3>2
  <2>4. QED BY <2>2, <2>3 DEF Before
<1>10. Replied'
  <2>1. Replied
    BY DEF Inv
  <2>2. ASSUME NEW i \in 1..MaxSaid, Waits(i)' \/ i = cmd \/ i > Len(said)' PROVE replies[i] = 0
    BY <1>1, <1>2, <1>5, <1>8, <2>1, <2>2 DEF Replied
  <2>3. ASSUME NEW i \in 1..Len(said)', Ordinary(i)' PROVE Waits(i)' \/ i = cmd \/ replies[i] = 1
    <3>1. CASE i = Len(said)'
      BY <1>8, <3>1, <1>1, <1>2
    <3>2. CASE i \in 1..Len(said)
      <4>1. Ordinary(i)
        BY <1>2, <2>3, <3>2 DEF Ordinary
      <4>2. QED BY <1>8, <2>1, <3>2, <4>1 DEF Replied
    <3>3. QED BY <1>1, <1>2, <3>1, <3>2
  <2>4. QED BY <2>2, <2>3 DEF Replied
<1>11. InOrder' /\ AtWork'
  BY DEF Inv, InOrder, AtWork
<1>12. QED BY <1>6, <1>7, <1>9, <1>10, <1>11 DEF Inv

(* A command is taken, and run: to its end, or to where it waits.          *)
LEMMA RunKeeps ==
  ASSUME Inv, mode = "loop", NEW i, Takes(i), said' = said, AtWork',
         executed' = Append(executed, i),
         \/ cmd' = cmd /\ ReplyTo(i)
         \/ cmd' = i /\ replies' = replies
  PROVE  Inv'
<1>1. Removed(i) /\ \A j \in Nat : Waits(j)' => i < j
  BY TakesEarliest DEF Inv
<1>2. /\ said' = said /\ i \in 1..Len(said) /\ Waits(i)
      /\ rx' \in Seq(1..Len(said)) /\ deferred' \in Seq(1..Len(said)) /\ Queued'
      /\ cmd = 0 /\ Len(said) \in Nat /\ Len(said) <= MaxSaid /\ MaxSaid \in Nat
  BY <1>1, BoundFacts DEF Removed, Inv, Typed, AtWork, Nobody
<1>3. ASSUME NEW j \in Nat PROVE Waits(j)' <=> Waits(j) /\ j # i
  BY <1>1, <1>3 DEF Removed, Drops
<1>4. /\ Len(executed) \in Nat
      /\ executed' \in Seq(1..Len(said)) /\ Len(executed') = Len(executed) + 1
      /\ executed'[Len(executed) + 1] = i
      /\ \A j \in 1..Len(executed) :
            executed'[j] = executed[j] /\ executed[j] \in Nat /\ executed[j] < i
  <2>1. executed \in Seq(1..Len(said)) /\ \A j \in 1..Len(executed) : executed[j] \in Nat
    BY <1>2 DEF Inv, Typed
  <2>2. \A j \in 1..Len(executed) : executed[j] < i
    BY <1>2 DEF Inv, Before
  <2>3. QED BY <1>2, <2>1, <2>2, AppendFacts
<1>5. /\ i \in 1..MaxSaid /\ replies[i] = 0 /\ replies \in [1..MaxSaid -> {0, 1}]
      /\ replies' \in [1..MaxSaid -> {0, 1}]
      /\ \A j \in 1..MaxSaid : j # i => replies'[j] = replies[j]
      /\ (cmd' = 0 /\ replies'[i] = 1) \/ (cmd' = i /\ replies' = replies)
  <2>1. replies \in [1..MaxSaid -> {0, 1}] /\ i \in 1..MaxSaid
    BY <1>2 DEF Inv, Typed
  <2>2. replies[i] = 0
    BY <1>2, <2>1 DEF Inv, Replied
  <2>3. QED BY <1>2, <2>1, <2>2 DEF ReplyTo
<1>6. Typed'
  <2>1. SaidIsSequence'
    BY <1>2 DEF Inv, Typed, SaidIsSequence
  <2>2. QED BY <1>2, <1>4, <1>5, <2>1 DEF Typed
<1>7. Before'
  <2>1. ASSUME NEW j \in 1..Len(said), Waits(j)' PROVE cmd' < j
    BY <1>1, <1>2, <1>5, <2>1
  <2>2. ASSUME NEW j \in 1..Len(said), NEW k \in 1..Len(executed'), Waits(j)'
        PROVE  executed'[k] < j
    <3>1. i < j
      BY <1>1, <1>2, <2>2
    <3>2. k \in 1..Len(executed) \/ k = Len(executed) + 1
      BY <1>4
    <3>3. executed'[k] \in Nat /\ executed'[k] <= i
      BY <1>2, <1>4, <3>2
    <3>4. QED BY <1>2, <3>1, <3>3
  <2>3. QED BY <1>2, <2>1, <2>2 DEF Before
<1>8. InOrder'
  <2>1. ASSUME NEW j \in 1..Len(executed'), NEW k \in 1..Len(executed'), j < k
        PROVE  executed'[j] < executed'[k]
    <3>1. j \in 1..Len(executed)
      BY <1>4, <2>1
    <3>2. CASE k = Len(executed) + 1
      BY <1>4, <3>1, <3>2
    <3>3. CASE k \in 1..Len(executed)
      BY <1>4, <2>1, <3>1, <3>3 DEF Inv, InOrder
    <3>4. QED BY <1>4, <3>2, <3>3
  <2>2. QED BY <2>1 DEF InOrder
<1>9. Replied'
  <2>1. Replied
    BY DEF Inv
  <2>2. ASSUME NEW j \in 1..MaxSaid, Waits(j)' \/ j = cmd' \/ j > Len(said) PROVE replies'[j] = 0
    BY <1>2, <1>3, <1>5, <2>1, <2>2 DEF Replied
  <2>3. ASSUME NEW j \in 1..Len(said), Ordinary(j) PROVE Waits(j)' \/ j = cmd' \/ replies'[j] = 1
    <3>1. CASE j = i
      BY <1>5, <3>1
    <3>2. CASE j # i
      <4>1. Waits(j) \/ replies[j] = 1
        BY <1>2, <2>1, <2>3 DEF Replied
      <4>2. QED BY <1>2, <1>3, <1>5, <3>2, <4>1
    <3>3. QED BY <3>1, <3>2
  <2>4. ASSUME NEW j PROVE Ordinary(j)' <=> Ordinary(j)
    BY <1>2 DEF Ordinary
  <2>5. QED BY <1>2, <2>2, <2>3, <2>4 DEF Replied
<1>10. QED BY <1>2, <1>6, <1>7, <1>8, <1>9 DEF Inv

(* A command is taken and, answered or refused, does not run.  Without a   *)
(* reply go only those that name a Fetch answer.                           *)
LEMMA SetAsideKeeps ==
  ASSUME Inv, NEW i, Removed(i), UNCHANGED <<cmd, executed>>, AtWork',
         ReplyTo(i) \/ (replies' = replies /\ ~Ordinary(i))
  PROVE  Inv'
<1>1. /\ said' = said /\ i \in 1..Len(said) /\ Waits(i)
      /\ rx' \in Seq(1..Len(said)) /\ deferred' \in Seq(1..Len(said)) /\ Queued'
      /\ Len(said) \in Nat /\ Len(said) <= MaxSaid /\ MaxSaid \in Nat
      /\ cmd \in 0..Len(said) /\ cmd < i /\ cmd' = cmd /\ executed' = executed
  BY BoundFacts DEF Removed, Inv, Typed, Before
<1>2. ASSUME NEW j \in Nat PROVE Waits(j)' <=> Waits(j) /\ j # i
  BY <1>2 DEF Removed, Drops
<1>3. /\ i \in 1..MaxSaid /\ replies[i] = 0 /\ replies \in [1..MaxSaid -> {0, 1}]
      /\ replies' \in [1..MaxSaid -> {0, 1}]
      /\ \A j \in 1..MaxSaid : j # i => replies'[j] = replies[j]
      /\ replies'[i] = 1 \/ ~Ordinary(i)
  <2>1. replies \in [1..MaxSaid -> {0, 1}] /\ i \in 1..MaxSaid
    BY <1>1 DEF Inv, Typed
  <2>2. replies[i] = 0
    BY <1>1, <2>1 DEF Inv, Replied
  <2>3. QED BY <1>1, <2>1, <2>2 DEF ReplyTo
<1>4. Typed'
  <2>1. SaidIsSequence'
    BY <1>1 DEF Inv, Typed, SaidIsSequence
  <2>2. executed \in Seq(1..Len(said))
    BY DEF Inv, Typed
  <2>3. QED BY <1>1, <1>3, <2>1, <2>2 DEF Typed
<1>5. Before'
  <2>1. Before
    BY DEF Inv
  <2>2. QED BY <1>1, <1>2, <2>1 DEF Before
<1>6. InOrder'
  BY <1>1 DEF Inv, InOrder
<1>7. Replied'
  <2>1. Replied
    BY DEF Inv
  <2>2. ASSUME NEW j \in 1..MaxSaid, Waits(j)' \/ j = cmd \/ j > Len(said) PROVE replies'[j] = 0
    BY <1>1, <1>2, <1>3, <2>1, <2>2 DEF Replied
  <2>3. ASSUME NEW j \in 1..Len(said), Ordinary(j) PROVE Waits(j)' \/ j = cmd \/ replies'[j] = 1
    <3>1. CASE j = i
      BY <1>3, <2>3, <3>1
    <3>2. CASE j # i
      <4>1. Waits(j) \/ j = cmd \/ replies[j] = 1
        BY <2>1, <2>3 DEF Replied
      <4>2. QED BY <1>1, <1>2, <1>3, <3>2, <4>1
    <3>3. QED BY <3>1, <3>2
  <2>4. ASSUME NEW j PROVE Ordinary(j)' <=> Ordinary(j)
    BY <1>1 DEF Ordinary
  <2>5. QED BY <1>1, <2>2, <2>3, <2>4 DEF Replied
<1>8. QED BY <1>1, <1>4, <1>5, <1>6, <1>7 DEF Inv

(* A command is put off: it still waits.                                   *)
LEMMA DeferKeeps ==
  ASSUME Inv, rx # <<>>, rx' = Tail(rx), deferred' = Append(deferred, Head(rx)),
         UNCHANGED <<said, cmd, replies, executed>>, AtWork'
  PROVE  Inv'
<1>1. /\ rx' \in Seq(1..Len(said)) /\ deferred' \in Seq(1..Len(said)) /\ Queued'
      /\ \A j \in Nat : Waits(j)' <=> Waits(j)
  BY Defers DEF Inv
<1>2. /\ said' = said /\ cmd' = cmd /\ replies' = replies /\ executed' = executed
      /\ Len(said) \in Nat /\ MaxSaid \in Nat
  BY BoundFacts DEF Inv, Typed
<1>3. Typed'
  <2>1. SaidIsSequence'
    BY <1>2 DEF Inv, Typed, SaidIsSequence
  <2>2. executed \in Seq(1..Len(said)) /\ cmd \in 0..Len(said)
        /\ replies \in [1..MaxSaid -> {0, 1}] /\ Len(said) \in 0..MaxSaid
    BY DEF Inv, Typed
  <2>3. QED BY <1>1, <1>2, <2>1, <2>2 DEF Typed
<1>4. Before' /\ InOrder'
  BY <1>1, <1>2 DEF Inv, Before, InOrder
<1>5. Replied'
  <2>1. ASSUME NEW j PROVE Ordinary(j)' <=> Ordinary(j)
    BY <1>2 DEF Ordinary
  <2>2. Replied
    BY DEF Inv
  <2>3. QED BY <1>1, <1>2, <2>1, <2>2 DEF Replied
<1>6. QED BY <1>1, <1>3, <1>4, <1>5 DEF Inv

(* The command in hand, if there is one, ends with its reply.              *)
LEMMA EndKeeps ==
  ASSUME Inv, UNCHANGED <<said, rx, deferred, executed>>, cmd' = Nobody, AtWork',
         IF cmd # Nobody THEN ReplyTo(cmd) ELSE replies' = replies
  PROVE  Inv'
<1>1. /\ said' = said /\ rx' = rx /\ deferred' = deferred /\ executed' = executed
      /\ cmd' = 0 /\ cmd \in 0..Len(said)
      /\ Len(said) \in Nat /\ Len(said) <= MaxSaid /\ MaxSaid \in Nat
      /\ Typed /\ Queued /\ Before /\ InOrder /\ Replied
  BY BoundFacts DEF Inv, Typed, Nobody
<1>2. /\ replies \in [1..MaxSaid -> {0, 1}] /\ replies' \in [1..MaxSaid -> {0, 1}]
      /\ \A j \in 1..MaxSaid : j # cmd => replies'[j] = replies[j]
      /\ cmd # 0 => replies'[cmd] = 1
  <2>1. replies \in [1..MaxSaid -> {0, 1}]
    BY <1>1 DEF Typed
  <2>2. cmd # 0 => cmd \in 1..MaxSaid /\ replies[cmd] = 0
    BY <1>1 DEF Replied
  <2>3. QED BY <1>1, <2>1, <2>2 DEF ReplyTo, Nobody
<1>3. ASSUME NEW j PROVE (Waits(j)' <=> Waits(j)) /\ (Ordinary(j)' <=> Ordinary(j))
  BY <1>1 DEF Waits, Ordinary
<1>4. Typed'
  <2>1. SaidIsSequence'
    BY <1>1 DEF Typed, SaidIsSequence
  <2>2. QED BY <1>1, <1>2, <2>1 DEF Typed
<1>5. Queued' /\ InOrder'
  BY <1>1 DEF Queued, InOrder
<1>6. Before'
  BY <1>1, <1>3 DEF Before
<1>7. Replied'
  <2>1. ASSUME NEW j \in 1..MaxSaid, Waits(j) \/ j = 0 \/ j > Len(said) PROVE replies'[j] = 0
    <3>1. j # cmd
      <4>1. j \in 1..Len(said) => cmd < j
        BY <1>1, <2>1 DEF Before
      <4>2. QED BY <1>1, <4>1
    <3>2. QED BY <1>1, <1>2, <2>1, <3>1 DEF Replied
  <2>2. ASSUME NEW j \in 1..Len(said), Ordinary(j) PROVE Waits(j) \/ j = 0 \/ replies'[j] = 1
    BY <1>1, <1>2, <2>2 DEF Replied
  <2>3. QED BY <1>1, <1>3, <2>1, <2>2 DEF Replied
<1>8. QED BY <1>4, <1>5, <1>6, <1>7 DEF Inv

-----------------------------------------------------------------------------
(* Every action is one of these.                                           *)

LEMMA NextKeeps ==
  ASSUME Inv, [Next]_vars
  PROVE  Inv'
<1> USE DEF client, queues, page, fetching
<1>1. AtWork
  BY DEF Inv
<1>2. CASE Command
  <2>1. PICK k \in Kinds, r \in Requests \cup {NoRequest} : Say([kind |-> k, for |-> r])
    BY <1>2 DEF Command
  <2>2. UNCHANGED <<deferred, attached, mode, cmd, replies, executed>>
    BY <1>2 DEF Command
  <2>3. QED BY <2>1, <2>2, SayKeeps
<1>3. CASE AnswerPaused
  <2>1. PICK r \in owed : Say([kind |-> "answer", for |-> r])
    BY <1>3 DEF AnswerPaused
  <2>2. UNCHANGED <<deferred, attached, mode, cmd, replies, executed>>
    BY <1>3 DEF AnswerPaused
  <2>3. QED BY <2>1, <2>2, SayKeeps
<1>4. CASE Leave
  <2>1. UNCHANGED <<said, rx, deferred, cmd, replies, executed>> /\ AtWork'
    BY <1>1, <1>4 DEF Leave, AtWork
  <2>2. QED BY <2>1, IdleKeeps
<1>5. CASE Notify
  <2>1. UNCHANGED <<said, rx, deferred, cmd, replies, executed>> /\ AtWork'
    BY <1>1, <1>5 DEF Notify, AtWork
  <2>2. QED BY <2>1, IdleKeeps
<1>6. CASE PageFetches
  <2>1. UNCHANGED <<said, rx, deferred, cmd, replies, executed>> /\ AtWork'
    BY <1>1, <1>6 DEF PageFetches, AtWork
  <2>2. QED BY <2>1, IdleKeeps
<1>7. CASE PageNavigates
  <2>1. UNCHANGED <<said, rx, deferred, cmd, replies, executed>> /\ AtWork'
    BY <1>1, <1>7 DEF PageNavigates, AtWork
  <2>2. QED BY <2>1, IdleKeeps
<1>8. CASE NewDocument
  <2>1. UNCHANGED <<said, rx, deferred, cmd, replies, executed>> /\ AtWork'
    BY <1>1, <1>8 DEF NewDocument, AtWork
  <2>2. QED BY <2>1, IdleKeeps
<1>9. CASE PumpNavigates
  <2>1. UNCHANGED <<said, rx, deferred, cmd, replies, executed>> /\ AtWork'
    BY <1>1, <1>9 DEF PumpNavigates, AtWork, NoCommand
  <2>2. QED BY <2>1, IdleKeeps
<1>10. CASE Intercepted
  <2>1. UNCHANGED <<said, rx, deferred, cmd, replies, executed>> /\ AtWork'
    BY <1>1, <1>10 DEF Intercepted, AtWork
  <2>2. QED BY <2>1, IdleKeeps
<1>11. CASE AbortIntercepted
  <2>1. UNCHANGED <<said, rx, deferred, cmd, replies, executed>> /\ AtWork'
    BY <1>1, <1>11 DEF AbortIntercepted, AtWork, NoCommand
  <2>2. QED BY <2>1, IdleKeeps
<1>12. CASE Stop
  <2>1. UNCHANGED <<said, rx, deferred, cmd, replies, executed>> /\ AtWork'
    BY <1>1, <1>12 DEF Stop, AtWork, NoCommand
  <2>2. QED BY <2>1, IdleKeeps
<1>13. CASE NavIntercepted
  <2>1. UNCHANGED <<said, rx, deferred, cmd, replies, executed>> /\ AtWork'
    BY <1>1, <1>13 DEF NavIntercepted, AtWork
  <2>2. QED BY <2>1, IdleKeeps
<1>14. CASE Navigate
  <2>1. PICK i \in 1..Len(said) :
            /\ Takes(i) /\ mode' = "navigate" /\ cmd' = i /\ executed' = Append(executed, i)
    BY <1>14 DEF Navigate
  <2>2. said' = said /\ replies' = replies /\ AtWork' /\ mode = "loop"
    BY <1>14, <2>1 DEF Navigate, AtWork, Takes
  <2>3. QED BY <2>1, <2>2, RunKeeps
<1>15. CASE Evaluate
  <2>1. PICK i \in 1..Len(said) :
            /\ Takes(i) /\ attached /\ mode' = "dispatch" /\ cmd' = i
            /\ executed' = Append(executed, i)
    BY <1>15 DEF Evaluate
  <2>2. said' = said /\ replies' = replies /\ AtWork' /\ mode = "loop"
    BY <1>15, <2>1 DEF Evaluate, AtWork, Takes, Nobody
  <2>3. QED BY <2>1, <2>2, RunKeeps
<1>16. CASE OtherFetch
  <2>1. PICK i \in 1..Len(said) :
            /\ Takes(i) /\ ReplyTo(i) /\ executed' = Append(executed, i)
    BY <1>16 DEF OtherFetch
  <2>2. said' = said /\ cmd' = cmd /\ mode = "loop" /\ AtWork'
    BY <1>1, <1>16, <2>1 DEF OtherFetch, AtWork, Takes, JsNavigation
  <2>3. QED BY <2>1, <2>2, RunKeeps
<1>17. CASE Detach
  <2>1. PICK i \in 1..Len(said) :
            /\ Takes(i) /\ ReplyTo(i) /\ executed' = Append(executed, i)
    BY <1>17 DEF Detach
  <2>2. said' = said /\ cmd' = cmd /\ mode = "loop" /\ AtWork'
    BY <1>1, <1>17, <2>1 DEF Detach, AtWork, Takes
  <2>3. QED BY <2>1, <2>2, RunKeeps
<1>18. CASE Answer
  <2>1. PICK i \in 1..Len(said) :
            /\ Takes(i) /\ ReplyTo(i)
            /\ mode' = mode \/ JsNavigation
    BY <1>18 DEF Answer
  <2>2. UNCHANGED <<said, cmd, executed>> /\ mode = "loop" /\ AtWork'
    BY <1>1, <1>18, <2>1 DEF Answer, AtWork, Takes, JsNavigation
  <2>3. Removed(i)
    BY <2>1, <2>2, TakesEarliest DEF Inv
  <2>4. QED BY <2>1, <2>2, <2>3, SetAsideKeeps
<1>19. CASE NavAnswer
  <2>1. /\ mode = "navigate" /\ rx # <<>> /\ rx' = Tail(rx)
        /\ UNCHANGED <<said, deferred, cmd, executed>> /\ AtWork'
        /\ said[Head(rx)].kind \in {"answer", "mention"}
        /\ ReplyTo(Head(rx)) \/ replies' = replies
    BY <1>1, <1>19 DEF NavAnswer, AtWork
  <2>2. Removed(Head(rx))
    BY <2>1, RemovedFromRx DEF Inv
  <2>3. ~Ordinary(Head(rx))
    BY <2>1 DEF Ordinary
  <2>4. QED BY <2>1, <2>2, <2>3, SetAsideKeeps
<1>20. CASE NavDefer
  <2>1. /\ mode = "navigate" /\ rx # <<>> /\ rx' = Tail(rx)
        /\ UNCHANGED <<said, cmd, executed>> /\ AtWork'
        /\ \/ ReplyTo(Head(rx)) /\ deferred' = deferred
           \/ deferred' = Append(deferred, Head(rx)) /\ replies' = replies
    BY <1>1, <1>20 DEF NavDefer, AtWork
  <2>2. CASE ReplyTo(Head(rx)) /\ deferred' = deferred
    <3>1. Removed(Head(rx))
      BY <2>1, <2>2, RemovedFromRx DEF Inv
    <3>2. QED BY <2>1, <2>2, <3>1, SetAsideKeeps
  <2>3. CASE deferred' = Append(deferred, Head(rx)) /\ replies' = replies
    BY <2>1, <2>3, DeferKeeps
  <2>4. QED BY <2>1, <2>2, <2>3
<1>21. CASE Evaluated
  <2>1. CASE wants
    <3>1. UNCHANGED <<said, rx, deferred, cmd, replies, executed>> /\ AtWork'
      BY <1>1, <1>21, <2>1 DEF Evaluated, AtWork, JsNavigation
    <3>2. QED BY <3>1, IdleKeeps
  <2>2. CASE ~wants
    <3>1. /\ UNCHANGED <<said, rx, deferred, executed>> /\ cmd' = Nobody /\ ReplyTo(cmd)
          /\ AtWork'
      BY <1>1, <1>21, <2>2 DEF Evaluated, AtWork
    <3>2. cmd # Nobody
      BY <1>21 DEF Evaluated, Inv, AtWork
    <3>3. QED BY <3>1, <3>2, EndKeeps
  <2>3. QED BY <2>1, <2>2
<1>22. CASE EvaluateFails
  <2>1. /\ UNCHANGED <<said, rx, deferred, executed>> /\ cmd' = Nobody /\ ReplyTo(cmd)
        /\ AtWork'
    BY <1>1, <1>22 DEF EvaluateFails, AtWork, JsNavigation
  <2>2. cmd # Nobody
    BY <1>22 DEF EvaluateFails, Inv, AtWork
  <2>3. QED BY <2>1, <2>2, EndKeeps
<1>23. CASE JsNavigated
  <2>1. /\ UNCHANGED <<said, rx, deferred, executed>> /\ cmd' = Nobody
        /\ IF cmd # Nobody THEN ReplyTo(cmd) ELSE replies' = replies
        /\ AtWork'
    BY <1>1, <1>23 DEF JsNavigated, AtWork
  <2>2. QED BY <2>1, EndKeeps
<1>24. CASE Navigated
  <2>1. /\ UNCHANGED <<said, rx, deferred, executed>> /\ cmd' = Nobody
        /\ IF cmd # Nobody THEN ReplyTo(cmd) ELSE replies' = replies
        /\ AtWork'
    BY <1>1, <1>24 DEF Navigated, AtWork
  <2>2. QED BY <2>1, EndKeeps
<1>25. CASE UNCHANGED vars
  <2>1. UNCHANGED <<said, rx, deferred, cmd, replies, executed>> /\ AtWork'
    BY <1>1, <1>25 DEF vars, AtWork
  <2>2. QED BY <2>1, IdleKeeps
<1>26. QED
  BY <1>2, <1>3, <1>4, <1>5, <1>6, <1>7, <1>8, <1>9, <1>10, <1>11, <1>12, <1>13,
     <1>14, <1>15, <1>16, <1>17, <1>18, <1>19, <1>20, <1>21, <1>22, <1>23, <1>24,
     <1>25
     DEF Next, Processor

-----------------------------------------------------------------------------

(* The inductive invariant: where each command is and what it has had      *)
(* (cdp_processor's rx and deferred, the command in hand, the replies      *)
(* sent), and in which order commands wait and ran.                        *)
THEOREM ProcessorInvariant == Spec => []Inv
<1>1. Init => Inv
  BY InitInv
<1>2. Inv /\ [Next]_vars => Inv'
  BY NextKeeps
<1>3. QED BY <1>1, <1>2, PTL DEF Spec

(* However many commands are deferred, refused or timed out, none is       *)
(* replied to twice (process_with_interception, process_cdp_message).      *)
THEOREM RepliesOnce == Spec => []RepliedOnce
<1>1. Inv => RepliedOnce
  <2> SUFFICES ASSUME Inv, NEW i \in 1..MaxSaid PROVE replies[i] <= 1
    BY DEF RepliedOnce
  <2>1. replies \in [1..MaxSaid -> {0, 1}]
    BY DEF Inv, Typed
  <2>2. QED BY <2>1
<1>2. QED BY <1>1, ProcessorInvariant, PTL

(* A navigation that was itself deferred, and defers more, does not change *)
(* the order in which commands run (cdp_processor, deferred before rx).    *)
THEOREM RunsInOrder == Spec => []InOrder
<1>1. Inv => InOrder
  BY DEF Inv
<1>2. QED BY <1>1, ProcessorInvariant, PTL

(* With both queues empty and no command in hand, every command but those  *)
(* that name a Fetch answer has had its reply: the deferral queue loses    *)
(* none, whatever its limit (MAX_DEFERRED_MESSAGES).                       *)
THEOREM NothingIsLost == Spec => []NothingLost
<1>1. Inv => NothingLost
  <2> SUFFICES ASSUME Inv, NoCommand, NEW i \in 1..Len(said), Ordinary(i)
               PROVE  replies[i] = 1
    BY DEF NothingLost
  <2>1. ~Waits(i) /\ cmd = 0 /\ i # 0
    BY DEF NoCommand, Waits, Inv, AtWork, Nobody, Typed
  <2>2. QED BY <2>1 DEF Inv, Replied
<1>2. QED BY <1>1, ProcessorInvariant, PTL

-----------------------------------------------------------------------------
(* Requests and what decides them.  A command names no document the page   *)
(* has not had, and a resolver waits under the number of its own request.  *)

Modes == {"loop", "dispatch", "jsnav", "navigate", "stopped"}

\* The page, its requests and the mode it runs in.
PageTyped ==
    /\ mode \in Modes /\ attached \in BOOLEAN /\ fresh \in BOOLEAN /\ wants \in BOOLEAN
    /\ doc \in 0..MaxDocs /\ made \in 0..MaxRequests
    /\ live \subseteq 1..made /\ awaits \in 0..made
    /\ mode # "dispatch" => awaits = 0

\* What the client said and what is on its way between page and client.
Exchanged ==
    /\ said \in Seq(Commands) /\ open \in BOOLEAN /\ notified \in BOOLEAN
    /\ Len(deferred) <= MaxDeferred
    /\ chan \in Seq(Requests) /\ owed \subseteq Requests
    /\ paused \in [1..MaxRequests -> Requests \cup {NoRequest}]

\* No request named anywhere is of a document to come.
Told ==
    /\ \A i \in 1..Len(said) : said[i].for[1] <= doc
    /\ \A k \in 1..Len(chan) : chan[k][1] <= doc
    /\ \A r \in owed : r[1] <= doc

\* What was let go was named by the command that decided it.
Decided ==
    /\ \A n \in 1..MaxRequests : paused[n] # NoRequest => paused[n][2] = n
    /\ \A d \in released :
          \/ d.by = Aborted
          \/ /\ d.req \in Requests /\ d.by \in 1..Len(said)
             /\ said[d.by].kind \in {"answer", "other"}
             /\ said[d.by].for[2] = d.req[2]
             /\ said[d.by].for[1] <= d.req[1]

RequestInv == Inv /\ PageTyped /\ Exchanged /\ Told /\ Decided

\* The parts of a request.
LEMMA RequestParts ==
    /\ NoRequest[1] = 0
    /\ \A r \in Requests : /\ r[1] \in 1..MaxDocs /\ r[2] \in 1..MaxRequests
                           /\ r # NoRequest
    /\ \A d \in 1..MaxDocs, n \in 1..MaxRequests :
          <<d, n>> \in Requests /\ <<d, n>>[1] = d /\ <<d, n>>[2] = n
BY ProcessorAssumption DEF NoRequest, Requests

\* A request the page makes is one more of its document.
LEMMA FetchesFacts ==
    ASSUME PageTyped, Fetches
    PROVE  /\ doc \in 1..MaxDocs /\ made + 1 \in 1..MaxRequests /\ made' = made + 1
           /\ live' \subseteq 1..made' /\ awaits \in 0..made' /\ made' \in 0..made'
           /\ <<doc, made + 1>> \in Requests /\ chan' = Append(chan, <<doc, made + 1>>)
<1>1. /\ doc \in 1..MaxDocs /\ made + 1 \in 1..MaxRequests /\ made' = made + 1
      /\ awaits \in 0..(made + 1) /\ made + 1 \in 0..(made + 1)
      /\ 1..made \subseteq 1..(made + 1) /\ made + 1 \in 1..(made + 1)
  BY ProcessorAssumption DEF PageTyped, Fetches
<1>2. live' \subseteq 1..(made + 1)
  BY <1>1 DEF PageTyped, Fetches
<1>3. QED BY <1>1, <1>2, RequestParts DEF Fetches

\* The page runs in the mode the processor is at, and makes its requests.
LEMMA PageStep ==
    ASSUME PageTyped, [Next]_vars
    PROVE  PageTyped'
<1> USE ProcessorAssumption DEF PageTyped, Modes, page
<1>1. CASE Command \/ AnswerPaused \/ Leave \/ Notify
  BY <1>1 DEF Command, AnswerPaused, Leave, Notify
<1>2. CASE PageFetches \/ PageNavigates \/ NewDocument
  <2>1. CASE PageFetches
    <3>1. UNCHANGED <<attached, mode, doc, wants, awaits, fresh>> /\ Fetches
      BY <2>1 DEF PageFetches
    <3>2. QED BY <3>1, FetchesFacts
  <2>2. CASE PageNavigates
    BY <2>2 DEF PageNavigates
  <2>3. CASE NewDocument
    <3>1. UNCHANGED <<attached, mode, awaits>> /\ mode # "dispatch"
      BY <2>3 DEF NewDocument
    <3>2. doc' \in 0..MaxDocs /\ made' = 0 /\ live' = {} /\ wants' = FALSE /\ fresh' = TRUE
      BY <2>3 DEF NewDocument
    <3>3. awaits' \in 0..made' /\ awaits' = 0
      <4>1. awaits' = 0
        BY <3>1
      <4>2. QED BY ONLY <3>2, <4>1
    <3>4. made' \in 0..MaxRequests
      BY <3>2
    <3>5. live' \subseteq 1..made'
      BY <3>2
    <3>6. QED BY <3>1, <3>2, <3>3, <3>4, <3>5
  <2>4. QED BY <1>2, <2>1, <2>2, <2>3
<1>3. CASE Navigate \/ Detach
  BY <1>3 DEF Navigate, Detach, Takes
<1>4. CASE Answer
  <2>1. mode = "loop" /\ UNCHANGED <<attached, doc, made, awaits>>
    BY <1>4 DEF Answer, Takes
  <2>2. live' \subseteq live /\ (UNCHANGED <<mode, fresh, wants>> \/ JsNavigation)
    BY <1>4 DEF Answer, Resolve
  <2>3. QED BY <2>1, <2>2 DEF JsNavigation
<1>5. CASE OtherFetch
  <2>1. mode = "loop" /\ UNCHANGED <<attached, doc, made, awaits>> /\ JsNavigation
    BY <1>5 DEF OtherFetch, Takes
  <2>2. live' \subseteq live
    BY <1>5 DEF OtherFetch, Resolve
  <2>3. QED BY <2>1, <2>2 DEF JsNavigation
<1>6. CASE Evaluate
  <2>1. UNCHANGED <<attached, doc, wants, fresh>> /\ mode' = "dispatch"
    BY <1>6 DEF Evaluate
  <2>2. CASE awaits' = 0 /\ UNCHANGED <<made, live>>
    BY <2>1, <2>2
  <2>3. CASE Fetches /\ awaits' = made + 1
    <3>1. awaits' \in 0..made'
      BY <2>3, FetchesFacts
    <3>2. QED BY <2>1, <2>3, <3>1, FetchesFacts
  <2>4. QED BY <1>6, <2>2, <2>3 DEF Evaluate
<1>7. CASE Evaluated \/ EvaluateFails
  <2>1. UNCHANGED <<attached, doc, made, live>> /\ awaits' = 0
    BY <1>7 DEF Evaluated, EvaluateFails
  <2>2. JsNavigation \/ (mode' = "loop" /\ UNCHANGED <<fresh, wants>>)
    BY <1>7 DEF Evaluated, EvaluateFails
  <2>3. awaits' \in 0..made' /\ live' \subseteq 1..made' /\ made' \in 0..MaxRequests
    <3>1. 0 \in 0..made
      BY DEF PageTyped
    <3>2. QED BY <2>1, <3>1
  <2>4. QED BY <2>1, <2>2, <2>3 DEF JsNavigation
<1>8. CASE JsNavigated \/ PumpNavigates \/ Navigated
  BY <1>8 DEF JsNavigated, PumpNavigates, NoCommand, Navigated
<1>9. CASE Intercepted \/ NavIntercepted
  BY <1>9 DEF Intercepted, NavIntercepted
<1>10. CASE AbortIntercepted
  BY <1>10 DEF AbortIntercepted
<1>11. CASE Stop
  BY <1>11 DEF Stop, NoCommand
<1>12. CASE NavAnswer
  <2>1. UNCHANGED <<attached, mode, doc, made, wants, awaits, fresh>> /\ live' \subseteq live
    BY <1>12 DEF NavAnswer, Resolve
  <2>2. QED BY <2>1
<1>13. CASE NavDefer
  BY <1>13 DEF NavDefer
<1>14. CASE UNCHANGED vars
  BY <1>14 DEF vars
<1>15. QED
  BY <1>1, <1>2, <1>3, <1>4, <1>5, <1>6, <1>7, <1>8, <1>9, <1>10, <1>11, <1>12, <1>13,
     <1>14 DEF Next, Processor

\* What a command of the client adds to what was said.
LEMMA SayFacts ==
    ASSUME Exchanged, NEW c \in Commands, Say(c)
    PROVE  /\ said' \in Seq(Commands) /\ Len(said') = Len(said) + 1 /\ Len(said) \in Nat
           /\ said'[Len(said) + 1] = c
           /\ \A i \in 1..Len(said) : said'[i] = said[i]
           /\ \A i \in 1..Len(said') : i \in 1..Len(said) \/ i = Len(said) + 1
<1>1. said \in Seq(Commands) /\ said' = Append(said, c)
  BY DEF Exchanged, Say
<1>2. QED BY <1>1, AppendFacts

\* The client says something about a request it was told of, or about none.
LEMMA Speaks ==
    ASSUME Exchanged, Told, Command \/ AnswerPaused
    PROVE  /\ \E c \in Commands : Say(c) /\ c.for \in owed \cup {NoRequest}
           /\ owed' \subseteq owed
           /\ UNCHANGED <<open, notified, deferred, chan, paused, doc, released>>
<1>1. CASE Command
  <2>1. PICK k \in Kinds, r \in Requests \cup {NoRequest} :
            /\ Say([kind |-> k, for |-> r]) /\ r \in owed \cup {NoRequest}
    BY <1>1 DEF Command
  <2>2. [kind |-> k, for |-> r] \in Commands
    BY DEF Commands
  <2>3. QED BY <1>1, <2>1, <2>2 DEF Command, fetching, page
<1>2. CASE AnswerPaused
  <2>1. PICK r \in owed : Say([kind |-> "answer", for |-> r]) /\ owed' = owed \ {r}
    BY <1>2 DEF AnswerPaused
  <2>2. [kind |-> "answer", for |-> r] \in Commands
    BY DEF Commands, Exchanged
  <2>3. QED BY <1>2, <2>1, <2>2 DEF AnswerPaused, page
<1>3. QED BY <1>1, <1>2

\* What an action may do to the requests on their way, besides what the client
\* says: one is made, announced or taken off, or all are dropped; resolvers are
\* used up.
Moves ==
    /\ UNCHANGED said
    /\ \/ UNCHANGED chan /\ doc' \in {doc, doc + 1}
       \/ UNCHANGED doc /\ chan # <<>> /\ chan' = Tail(chan)
       \/ UNCHANGED doc /\ Fetches
       \/ UNCHANGED doc /\ chan' = <<>>
    /\ owed' = {} \/ owed' = owed \/ (chan # <<>> /\ owed' = owed \cup {Head(chan)})

\* Every action is the client's word or such a move.
LEMMA EveryMove ==
    ASSUME [Next]_vars
    PROVE  Command \/ AnswerPaused \/ Moves
<1> USE DEF Moves, page, fetching, client
<1>1. CASE Leave \/ Notify
  BY <1>1 DEF Leave, Notify
<1>2. CASE PageFetches \/ PageNavigates \/ NewDocument
  BY <1>2 DEF PageFetches, PageNavigates, NewDocument
<1>3. CASE Navigate \/ Detach \/ Answer \/ OtherFetch
  BY <1>3 DEF Navigate, Detach, Answer, OtherFetch
<1>4. CASE Evaluate
  BY <1>4 DEF Evaluate
<1>5. CASE Evaluated \/ EvaluateFails \/ JsNavigated \/ PumpNavigates \/ Navigated \/ Stop
  BY <1>5 DEF Evaluated, EvaluateFails, JsNavigated, PumpNavigates, Navigated, Stop
<1>6. CASE Intercepted \/ NavIntercepted \/ AbortIntercepted
  BY <1>6 DEF Intercepted, NavIntercepted, AbortIntercepted, Announce
<1>7. CASE NavAnswer \/ NavDefer
  BY <1>7 DEF NavAnswer, NavDefer
<1>8. CASE UNCHANGED vars
  BY <1>8 DEF vars
<1>9. QED
  BY <1>1, <1>2, <1>3, <1>4, <1>5, <1>6, <1>7, <1>8 DEF Next, Processor

\* Nobody names a document to come.
LEMMA ToldStep ==
    ASSUME PageTyped, Exchanged, Told, [Next]_vars
    PROVE  Told'
<1>1. CASE Command \/ AnswerPaused
  <2>1. PICK c \in Commands : Say(c) /\ c.for \in owed \cup {NoRequest}
    BY <1>1, Speaks
  <2>2. c.for[1] <= doc
    BY <2>1, RequestParts DEF Told, PageTyped
  <2>3. owed' \subseteq owed /\ UNCHANGED <<chan, doc>>
    BY <1>1, Speaks
  <2>4. ASSUME NEW i \in 1..Len(said') PROVE said'[i].for[1] <= doc
    BY <2>1, <2>2, SayFacts DEF Told
  <2>5. QED BY <2>3, <2>4 DEF Told
<1>2. CASE Moves
  <2>1. doc \in Nat /\ doc' \in {doc, doc + 1} /\ chan \in Seq(Requests)
    BY <1>2, ProcessorAssumption DEF Moves, PageTyped, Exchanged
  <2>2. ASSUME NEW r \in Requests \cup {NoRequest}, r[1] <= doc PROVE r[1] <= doc'
    BY <2>1, <2>2, RequestParts
  <2>3. ASSUME NEW i \in 1..Len(said') PROVE said'[i].for[1] <= doc'
    <3>1. said' = said /\ said[i] \in Commands /\ said[i].for[1] <= doc
      BY <1>2 DEF Moves, Exchanged, Told
    <3>2. said[i].for \in Requests \cup {NoRequest}
      BY <3>1 DEF Commands
    <3>3. QED BY <2>2, <3>1, <3>2
  <2>4. \A k \in 1..Len(chan) : chan[k] \in Requests /\ chan[k][1] <= doc
    BY <2>1 DEF Told
  <2>5. chan # <<>> => Head(chan) \in Requests /\ Head(chan)[1] <= doc
    BY <2>1, <2>4, TailFacts
  <2>6. ASSUME NEW r \in owed' PROVE r[1] <= doc'
    <3>1. r \in Requests /\ r[1] <= doc
      BY <1>2, <2>5 DEF Moves, Told, Exchanged
    <3>2. QED BY <2>2, <3>1
  <2>7. ASSUME NEW k \in 1..Len(chan') PROVE chan'[k][1] <= doc'
    <3>1. CASE UNCHANGED chan
      BY <2>2, <2>4, <3>1
    <3>2. CASE chan # <<>> /\ chan' = Tail(chan)
      <4>1. k + 1 \in 1..Len(chan) /\ chan'[k] = chan[k + 1]
        BY <2>1, <3>2, TailFacts
      <4>2. QED BY <2>2, <2>4, <4>1
    <3>3. CASE Fetches
      <4>1. <<doc, made + 1>> \in Requests /\ chan' = Append(chan, <<doc, made + 1>>)
        BY <3>3, FetchesFacts
      <4>2. k \in 1..Len(chan) \/ chan'[k] = <<doc, made + 1>>
        BY <2>1, <4>1, AppendFacts
      <4>3. CASE k \in 1..Len(chan)
        <5>1. chan'[k] = chan[k]
          BY <2>1, <4>1, <4>3, AppendFacts
        <5>2. QED BY <2>2, <2>4, <4>3, <5>1
      <4>4. CASE chan'[k] = <<doc, made + 1>>
        BY <2>1, <4>4
      <4>5. QED BY <4>2, <4>3, <4>4
    <3>4. CASE chan' = <<>>
      BY <3>4
    <3>5. QED BY <1>2, <3>1, <3>2, <3>3, <3>4 DEF Moves
  <2>8. QED BY <2>3, <2>6, <2>7 DEF Told
<1>3. QED BY <1>1, <1>2, EveryMove

\* What an action may do to resolvers and decisions, besides what the client
\* says.
Handles ==
    /\ UNCHANGED said
    /\ \/ UNCHANGED <<paused, released>>
       \/ UNCHANGED released /\ Announce
       \/ UNCHANGED released /\ paused' = [n \in 1..MaxRequests |-> NoRequest]
       \/ UNCHANGED paused /\ \E r : released' = released \cup {[req |-> r, by |-> Aborted]}
       \/ \E i \in 1..Len(said) :
             said[i].kind \in {"answer", "other"} /\ Held(i) /\ Resolve(i)

\* Every action is the client's word or handles them so.
LEMMA EveryHandling ==
    ASSUME Inv, [Next]_vars
    PROVE  Command \/ AnswerPaused \/ Handles
<1> USE DEF Handles, page, fetching, client
<1>1. CASE Leave \/ Notify
  BY <1>1 DEF Leave, Notify
<1>2. CASE PageFetches \/ PageNavigates \/ NewDocument
  BY <1>2 DEF PageFetches, PageNavigates, NewDocument
<1>3. CASE Navigate \/ Detach \/ Evaluate
  BY <1>3 DEF Navigate, Detach, Evaluate
<1>4. CASE Answer
  BY <1>4 DEF Answer
<1>5. CASE OtherFetch
  BY <1>5 DEF OtherFetch
<1>6. CASE Evaluated \/ EvaluateFails \/ JsNavigated \/ PumpNavigates \/ Navigated \/ Stop
  BY <1>6 DEF Evaluated, EvaluateFails, JsNavigated, PumpNavigates, Navigated, Stop
<1>7. CASE Intercepted \/ NavIntercepted
  BY <1>7 DEF Intercepted, NavIntercepted
<1>8. CASE AbortIntercepted
  BY <1>8 DEF AbortIntercepted
<1>9. CASE NavAnswer
  <2>1. Head(rx) \in 1..Len(said)
    BY <1>9, TailFacts DEF NavAnswer, Inv, Typed
  <2>2. QED BY <1>9, <2>1 DEF NavAnswer
<1>10. CASE NavDefer
  BY <1>10 DEF NavDefer
<1>11. CASE UNCHANGED vars
  BY <1>11 DEF vars
<1>12. QED
  BY <1>1, <1>2, <1>3, <1>4, <1>5, <1>6, <1>7, <1>8, <1>9, <1>10, <1>11
     DEF Next, Processor

\* A resolver stands under its request's number, and what is decided was named
\* by the command that decides it.
LEMMA DecidedStep ==
    ASSUME Inv, PageTyped, Exchanged, Told, Decided, [Next]_vars
    PROVE  Decided'
<1>1. CASE Command \/ AnswerPaused
  <2>1. PICK c \in Commands : Say(c)
    BY <1>1, Speaks
  <2>2. UNCHANGED <<paused, released>>
    BY <1>1, Speaks
  <2>3. \A i \in 1..Len(said) : i \in 1..Len(said') /\ said'[i] = said[i]
    BY <2>1, SayFacts
  <2>4. QED BY <2>2, <2>3 DEF Decided
<1>2. CASE UNCHANGED said /\ UNCHANGED <<paused, released>>
  BY <1>2 DEF Decided
<1>3. CASE UNCHANGED said /\ UNCHANGED released /\ Announce
  <2>1. Head(chan) \in Requests
    BY <1>3, TailFacts DEF Announce, Exchanged
  <2>2. PICK r \in Requests : r = Head(chan)
    BY <2>1
  <2>3. paused' = [paused EXCEPT ![r[2]] = r]
    BY <1>3, <2>2 DEF Announce
  <2>4. \A n \in 1..MaxRequests : paused'[n] # NoRequest => paused'[n][2] = n
    BY <2>3, RequestParts DEF Exchanged, Decided
  <2>5. QED BY <1>3, <2>4 DEF Decided
<1>4. CASE /\ UNCHANGED said /\ UNCHANGED paused
           /\ \E r : released' = released \cup {[req |-> r, by |-> Aborted]}
  BY <1>4 DEF Decided
<1>5. CASE UNCHANGED said /\ UNCHANGED released /\ paused' = [n \in 1..MaxRequests |-> NoRequest]
  BY <1>5 DEF Decided
<1>6. ASSUME UNCHANGED said, NEW i \in 1..Len(said), Held(i), Resolve(i),
             said[i].kind \in {"answer", "other"}
      PROVE  Decided'
  <2>1. PICK n \in 1..MaxRequests : n = said[i].for[2] /\ paused[n] # NoRequest
    BY <1>6 DEF Held
  <2>2. PICK r \in Requests : r = paused[n]
    BY <2>1 DEF Exchanged
  <2>3. paused' = [paused EXCEPT ![n] = NoRequest] /\ r[2] = n
    BY <1>6, <2>1, <2>2 DEF Resolve, Decided
  <2>4. released' \subseteq released \cup {[req |-> r, by |-> i]} /\ (r[1] # doc => released' = released)
    BY <1>6, <2>1, <2>2 DEF Resolve
  <2>5. \A m \in 1..MaxRequests : paused'[m] # NoRequest => paused'[m][2] = m
    BY <2>3 DEF Exchanged, Decided
  <2>6. said[i].for[1] <= doc /\ said[i].for[2] = r[2]
    BY <2>1, <2>3 DEF Told
  <2>7. ASSUME NEW d \in released'
        PROVE  d.by = Aborted \/ (/\ d.req \in Requests /\ d.by \in 1..Len(said)
                                 /\ said[d.by].kind \in {"answer", "other"}
                                 /\ said[d.by].for[2] = d.req[2]
                                 /\ said[d.by].for[1] <= d.req[1])
    <3>1. CASE d \in released
      BY <3>1 DEF Decided
    <3>2. CASE d \notin released
      <4>1. d = [req |-> r, by |-> i] /\ r[1] = doc
        BY <2>4, <2>7, <3>2
      <4>2. QED BY <1>6, <2>2, <2>6, <4>1
    <3>3. QED BY <3>1, <3>2
  <2>8. QED BY <1>6, <2>5, <2>7 DEF Decided
<1>7. QED BY <1>1, <1>2, <1>3, <1>4, <1>5, <1>6, EveryHandling DEF Handles

\* The deferral queue keeps its limit, whatever is put off or taken.
LEMMA DeferredStep ==
    ASSUME Inv, Exchanged, [Next]_vars
    PROVE  Len(deferred') <= MaxDeferred
<1>1. Len(deferred) \in Nat /\ Len(deferred) <= MaxDeferred /\ MaxDeferred \in Nat
  BY ProcessorAssumption DEF Inv, Typed, Exchanged
<1>2. ASSUME NEW i, Takes(i) PROVE Len(deferred') <= MaxDeferred
  <2>1. CASE deferred # <<>>
    BY <1>1, <1>2, <2>1, TailFacts DEF Takes, Inv, Typed
  <2>2. CASE deferred = <<>>
    BY <1>1, <1>2, <2>2 DEF Takes
  <2>3. QED BY <2>1, <2>2
<1>3. CASE Navigate \/ Answer \/ OtherFetch \/ Evaluate \/ Detach
  BY <1>2, <1>3 DEF Navigate, Answer, OtherFetch, Evaluate, Detach
<1>4. CASE NavDefer
  <2>1. rx # <<>> /\ Head(rx) \in 1..Len(said)
    BY <1>4, TailFacts DEF NavDefer, Inv, Typed
  <2>2. \/ deferred' = deferred
        \/ Len(deferred) < MaxDeferred /\ deferred' = Append(deferred, Head(rx))
    BY <1>1, <1>4 DEF NavDefer
  <2>3. Len(Append(deferred, Head(rx))) = Len(deferred) + 1
    BY <2>1, AppendFacts DEF Inv, Typed
  <2>4. QED BY <1>1, <2>2, <2>3
<1>5. CASE UNCHANGED deferred
  BY <1>1, <1>5
<1>6. \/ Navigate \/ Answer \/ OtherFetch \/ Evaluate \/ Detach \/ NavDefer
      \/ UNCHANGED deferred
  <2>1. CASE Command \/ AnswerPaused \/ Leave \/ Notify
    BY <2>1 DEF Command, AnswerPaused, Leave, Notify, queues
  <2>2. CASE PageFetches \/ PageNavigates \/ NewDocument
    BY <2>2 DEF PageFetches, PageNavigates, NewDocument, queues
  <2>3. CASE Evaluated \/ EvaluateFails \/ JsNavigated \/ PumpNavigates \/ Navigated \/ Stop
    BY <2>3 DEF Evaluated, EvaluateFails, JsNavigated, PumpNavigates, Navigated, Stop, queues
  <2>4. CASE Intercepted \/ AbortIntercepted \/ NavIntercepted \/ NavAnswer
    BY <2>4 DEF Intercepted, AbortIntercepted, NavIntercepted, NavAnswer, queues
  <2>5. CASE UNCHANGED vars
    BY <2>5 DEF vars, queues
  <2>6. QED BY <2>1, <2>2, <2>3, <2>4, <2>5 DEF Next, Processor
<1>7. QED BY <1>3, <1>4, <1>5, <1>6

\* What is said, sent and held keeps its type.
LEMMA ExchangedStep ==
    ASSUME Inv, PageTyped, Exchanged, Told, [Next]_vars
    PROVE  Exchanged'
<1>1. said' \in Seq(Commands)
  <2>1. CASE Command \/ AnswerPaused
    BY <2>1, Speaks, SayFacts
  <2>2. CASE Moves
    BY <2>2 DEF Moves, Exchanged
  <2>3. QED BY <2>1, <2>2, EveryMove
<1>2. chan' \in Seq(Requests) /\ owed' \subseteq Requests
  <2>1. CASE Command \/ AnswerPaused
    BY <2>1, Speaks DEF Exchanged
  <2>2. CASE Moves
    <3>1. chan # <<>> => Head(chan) \in Requests /\ Tail(chan) \in Seq(Requests)
      BY TailFacts DEF Exchanged
    <3>2. Fetches => chan' \in Seq(Requests)
      <4>1. Fetches => <<doc, made + 1>> \in Requests /\ chan' = Append(chan, <<doc, made + 1>>)
        BY FetchesFacts
      <4>2. QED BY <4>1, AppendFacts DEF Exchanged
    <3>3. <<>> \in Seq(Requests) /\ {} \subseteq Requests
      OBVIOUS
    <3>4. QED BY <2>2, <3>1, <3>2, <3>3 DEF Moves, Exchanged
  <2>3. QED BY <2>1, <2>2, EveryMove
<1>3. paused' \in [1..MaxRequests -> Requests \cup {NoRequest}]
  <2>1. CASE Command \/ AnswerPaused
    BY <2>1, Speaks DEF Exchanged
  <2>2. CASE Announce
    <3>1. Head(chan) \in Requests /\ paused' = [paused EXCEPT ![Head(chan)[2]] = Head(chan)]
      BY <2>2, TailFacts DEF Announce, Exchanged
    <3>2. QED BY <3>1 DEF Exchanged
  <2>3. CASE \E i \in 1..Len(said) : Held(i) /\ Resolve(i)
    BY <2>3 DEF Resolve, Exchanged
  <2>4. CASE UNCHANGED paused \/ paused' = [n \in 1..MaxRequests |-> NoRequest]
    BY <2>4 DEF Exchanged
  <2>5. QED BY <2>1, <2>2, <2>3, <2>4, EveryHandling DEF Handles
<1>4. open' \in BOOLEAN /\ notified' \in BOOLEAN
  <2>1. CASE Command \/ AnswerPaused
    BY <2>1, Speaks DEF Exchanged
  <2>2. CASE Leave \/ Notify
    BY <2>2 DEF Leave, Notify, Exchanged
  <2>3. CASE UNCHANGED <<open, notified>>
    BY <2>3 DEF Exchanged
  <2>4. UNCHANGED <<open, notified>> \/ Command \/ AnswerPaused \/ Leave \/ Notify
    <3>1. CASE PageFetches \/ PageNavigates \/ NewDocument
      BY <3>1 DEF PageFetches, PageNavigates, NewDocument, client
    <3>2. CASE Navigate \/ Answer \/ OtherFetch \/ Evaluate \/ Detach
      BY <3>2 DEF Navigate, Answer, OtherFetch, Evaluate, Detach, client
    <3>3. CASE Evaluated \/ EvaluateFails \/ JsNavigated \/ PumpNavigates \/ Navigated \/ Stop
      BY <3>3 DEF Evaluated, EvaluateFails, JsNavigated, PumpNavigates, Navigated, Stop, client
    <3>4. CASE Intercepted \/ AbortIntercepted \/ NavIntercepted \/ NavAnswer \/ NavDefer
      BY <3>4 DEF Intercepted, AbortIntercepted, NavIntercepted, NavAnswer, NavDefer, client
    <3>5. CASE UNCHANGED vars
      BY <3>5 DEF vars, client
    <3>6. QED BY <3>1, <3>2, <3>3, <3>4, <3>5 DEF Next, Processor
  <2>5. QED BY <2>1, <2>2, <2>3, <2>4
<1>5. QED BY <1>1, <1>2, <1>3, <1>4, DeferredStep DEF Exchanged

\* At first nothing is said and no document is loaded.
LEMMA RequestInit == Init => RequestInv
<1> SUFFICES ASSUME Init PROVE RequestInv
  OBVIOUS
<1>1. PageTyped
  <2>1. 0 \in 0..MaxDocs /\ 0 \in 0..MaxRequests /\ 0 \in 0..0
    BY ProcessorAssumption
  <2>2. /\ doc = 0 /\ made = 0 /\ awaits = 0 /\ live = {} /\ mode = "loop"
        /\ attached = TRUE /\ fresh = FALSE /\ wants = FALSE
    BY DEF Init
  <2>3. QED BY <2>1, <2>2 DEF PageTyped, Modes
<1>2. Exchanged
  <2>1. /\ said = <<>> /\ chan = <<>> /\ deferred = <<>> /\ owed = {}
        /\ open = TRUE /\ notified = FALSE /\ paused = [n \in 1..MaxRequests |-> NoRequest]
    BY DEF Init
  <2>2. Len(deferred) = 0 /\ MaxDeferred \in Nat
    BY <2>1, ProcessorAssumption
  <2>3. Len(deferred) <= MaxDeferred
    BY <2>2
  <2>4. said \in Seq(Commands) /\ chan \in Seq(Requests) /\ owed \subseteq Requests
    BY <2>1
  <2>5. paused \in [1..MaxRequests -> Requests \cup {NoRequest}]
    BY <2>1
  <2>6. open \in BOOLEAN /\ notified \in BOOLEAN
    BY <2>1
  <2>7. QED BY <2>3, <2>4, <2>5, <2>6 DEF Exchanged
<1>3. Told /\ Decided
  BY DEF Init, Told, Decided
<1>4. QED BY <1>1, <1>2, <1>3, InitInv DEF RequestInv

\* Where the requests are, who named them and what decided them.
THEOREM RequestInvariant == Spec => []RequestInv
<1>1. RequestInv /\ [Next]_vars => RequestInv'
  BY NextKeeps, PageStep, ExchangedStep, ToldStep, DecidedStep DEF RequestInv
<1>2. QED BY <1>1, RequestInit, PTL DEF Spec

\* Every variable keeps its type, the deferral queue its limit
\* (MAX_DEFERRED_MESSAGES) included.
THEOREM ProcessorTypeCorrect == Spec => []TypeOK
<1>1. RequestInv => TypeOK
  <2> SUFFICES ASSUME RequestInv PROVE TypeOK
    OBVIOUS
  <2>1. rx \in Seq(Nat) /\ deferred \in Seq(Nat) /\ cmd \in 0..Len(said)
    BY DEF RequestInv, Inv, Typed
  <2>2. QED BY <2>1 DEF RequestInv, PageTyped, Modes, Exchanged, TypeOK
<1>2. QED BY <1>1, RequestInvariant, PTL

\* However navigations, evaluations and answers overtake each other, a paused
\* request is decided by the client's answer to it or for lack of a session, and
\* otherwise only by an answer to an earlier document's request of its number or
\* by another Fetch method that named one (intercepted_paused in server.rs).
THEOREM NoneGoesUndecided == Spec => []NeverUndecided
<1>1. RequestInv => NeverUndecided
  <2> SUFFICES ASSUME RequestInv, NEW d \in released, d.by # Aborted
               PROVE  /\ d.by # Nobody /\ said[d.by].for[2] = d.req[2]
                      /\ \/ said[d.by] = [kind |-> "answer", for |-> d.req]
                         \/ said[d.by].kind = "answer" /\ said[d.by].for[1] < d.req[1]
                         \/ said[d.by].kind = "other" /\ said[d.by].for[1] <= d.req[1]
    BY DEF NeverUndecided
  <2>1. PICK i \in 1..Len(said) : i = d.by
    BY DEF RequestInv, Decided
  <2>2. /\ d.req \in Requests /\ said[i].kind \in {"answer", "other"}
        /\ said[i].for[2] = d.req[2] /\ said[i].for[1] <= d.req[1]
    BY <2>1 DEF RequestInv, Decided
  <2>3. PICK c \in Commands : c = said[i]
    BY <2>1 DEF RequestInv, Exchanged
  <2>4. c.for \in Requests
    BY <2>2, <2>3, RequestParts DEF Commands, NoRequest
  <2>5. CASE c.kind = "other" \/ c.for[1] # d.req[1]
    <3>1. c.for[1] \in Nat /\ d.req[1] \in Nat
      BY <2>2, <2>4, RequestParts, ProcessorAssumption
    <3>2. QED BY <2>1, <2>2, <2>3, <2>5, <3>1 DEF Nobody
  <2>6. CASE c.kind = "answer" /\ c.for[1] = d.req[1]
    <3>1. c.for = d.req
      BY <2>2, <2>3, <2>4, <2>6 DEF Requests
    <3>2. c = [kind |-> "answer", for |-> d.req]
      BY <2>6, <3>1 DEF Commands
    <3>3. QED BY <2>1, <2>2, <2>3, <3>2 DEF Nobody
  <2>7. QED BY <2>2, <2>3, <2>5, <2>6
<1>2. QED BY <1>1, RequestInvariant, PTL
=============================================================================
