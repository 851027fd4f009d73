---------------------------- MODULE DomTree_proofs ----------------------------
(***************************************************************************)
(* For an arena of any size: the links, the registries and the flags of    *)
(* DomTree are what the runs check on five slots, and the arena implements *)
(* Forest, for as long as intact holds: until the document is given as a   *)
(* child or removed, or a fragment is attached to a host inside itself.    *)
(*                                                                         *)
(* The operations write the slots in stages, so the invariants are stated  *)
(* of a function ns from slots to nodes: Shape is what every stage keeps,  *)
(* ExactAt what only the last one restores.                                *)
(***************************************************************************)
EXTENDS DomTree, TLAPS

(* The registries are inverse, and a shadow root is a top.                 *)
Registered(ns) ==
    \A n \in Slots : /\ rootOf[n] # None => hostOf[rootOf[n]] = n
                     /\ hostOf[n] # None => rootOf[hostOf[n]] = n /\ ns[n].parent = None

Shape(ns) == /\ ns \in [Slots -> Node]
             /\ rootOf \in [Slots -> Slots \cup {None}]
             /\ hostOf \in [Slots -> Slots \cup {None}]
             /\ NeighboursAgree(ns) /\ ListsEnd(ns) /\ WalksUpEnd(ns) /\ Registered(ns)

ExactAt(ns, m) ==
    ns[m].connected <=> \/ m = Document
                        \/ /\ HostIncludingParent(ns, m) # None
                           /\ ns[HostIncludingParent(ns, m)].connected

SameLinks(ns, gs) ==
    \A m \in Slots : /\ gs[m].kind = ns[m].kind /\ gs[m].parent = ns[m].parent
                     /\ gs[m].first = ns[m].first /\ gs[m].last = ns[m].last
                     /\ gs[m].prev = ns[m].prev /\ gs[m].next = ns[m].next

----------------------------------------------------------------------------
\* A slot is not None.
LEMMA NoneIsNoSlot == None \notin Slots /\ Document \in Slots
BY DomTreeAssumption DEF None, Slots, Document

\* What the fields of a node may be.
LEMMA Fields ==
    ASSUME NEW ns \in [Slots -> Node], NEW m \in Slots
    PROVE  /\ ns[m].parent \in Slots \cup {None} /\ ns[m].first \in Slots \cup {None}
           /\ ns[m].last \in Slots \cup {None} /\ ns[m].prev \in Slots \cup {None}
           /\ ns[m].next \in Slots \cup {None} /\ ns[m].connected \in BOOLEAN
           /\ ns[m].kind \in {"element", "document", "none"}
BY DEF Node

\* Setting the flag leaves the links as they are.
LEMMA SetFlagFields ==
    ASSUME NEW ns \in [Slots -> Node], NEW owned, NEW b \in BOOLEAN
    PROVE  /\ SetFlag(ns, owned, b) \in [Slots -> Node]
           /\ SameLinks(ns, SetFlag(ns, owned, b))
           /\ \A m \in Slots : SetFlag(ns, owned, b)[m].connected
                                 = IF m \in owned THEN b ELSE ns[m].connected
BY DEF SetFlag, Node, SameLinks

\* A shape is a matter of the links alone.
LEMMA ShapeIsLinks ==
    ASSUME NEW ns, NEW gs \in [Slots -> Node], Shape(ns),
           \A m \in Slots : /\ gs[m].parent = ns[m].parent
                           /\ gs[m].first = ns[m].first /\ gs[m].last = ns[m].last
                           /\ gs[m].prev = ns[m].prev /\ gs[m].next = ns[m].next
    PROVE  Shape(gs)
<1>1. ns \in [Slots -> Node]
  BY DEF Shape
<1>2. NeighboursAgree(gs)
  BY <1>1, Fields, NoneIsNoSlot DEF Shape, NeighboursAgree
<1>3. ListsEnd(gs)
  BY DEF Shape, ListsEnd
<1>4. WalksUpEnd(gs)
  BY DEF Shape, WalksUpEnd, HostIncludingParent
<1>5. Registered(gs)
  BY DEF Shape, Registered
<1> QED
  BY <1>2, <1>3, <1>4, <1>5 DEF Shape

\* No node is its own parent.
LEMMA NotOwnParent ==
    ASSUME NEW ns, Shape(ns), NEW m \in Slots
    PROVE  ns[m].parent # m /\ HostIncludingParent(ns, m) # m
<1>1. HostIncludingParent(ns, m) \notin {m}
  <2>1. {m} \subseteq Slots /\ {m} # {}
    OBVIOUS
  <2> QED
    BY <2>1 DEF Shape, WalksUpEnd
<1> QED
  BY <1>1, NoneIsNoSlot DEF HostIncludingParent

----------------------------------------------------------------------------
\* What taking a node out of its list writes.
LEMMA UnlinkFields ==
    ASSUME NEW ns \in [Slots -> Node], NEW n \in Slots, NEW us, us = Unlink(ns, n)
    PROVE  /\ us \in [Slots -> Node]
           /\ us[n].parent = None /\ us[n].prev = None /\ us[n].next = None
           /\ us[n].first = ns[n].first /\ us[n].last = ns[n].last
           /\ \A m \in Slots :
                /\ us[m].kind = ns[m].kind /\ us[m].connected = ns[m].connected
                /\ m # n =>
                   /\ us[m].parent = ns[m].parent
                   /\ us[m].next = IF m = ns[n].prev THEN ns[n].next ELSE ns[m].next
                   /\ us[m].prev = IF m = ns[n].next THEN ns[n].prev ELSE ns[m].prev
                   /\ us[m].first = IF m = ns[n].parent /\ ns[n].prev = None
                                    THEN ns[n].next ELSE ns[m].first
                   /\ us[m].last = IF m = ns[n].parent /\ ns[n].next = None
                                   THEN ns[n].prev ELSE ns[m].last
<1>1. ns \in [Slots -> Node]
  OBVIOUS
<1>2. us[n] = [ns[n] EXCEPT !.parent = None, !.prev = None, !.next = None]
  BY DEF Unlink
<1>4. us[n] \in Node
  BY <1>1, <1>2 DEF Node
<1>5. ASSUME NEW m \in Slots, m # n
      PROVE  /\ us[m] \in Node
             /\ us[m].kind = ns[m].kind /\ us[m].connected = ns[m].connected
             /\ us[m].parent = ns[m].parent
             /\ us[m].next = IF m = ns[n].prev THEN ns[n].next ELSE ns[m].next
             /\ us[m].prev = IF m = ns[n].next THEN ns[n].prev ELSE ns[m].prev
             /\ us[m].first = IF m = ns[n].parent /\ ns[n].prev = None
                              THEN ns[n].next ELSE ns[m].first
             /\ us[m].last = IF m = ns[n].parent /\ ns[n].next = None
                             THEN ns[n].prev ELSE ns[m].last
  <2> DEFINE a == IF m = ns[n].prev THEN ns[n].next ELSE ns[m].next
             b == IF m = ns[n].next THEN ns[n].prev ELSE ns[m].prev
             f == IF m = ns[n].parent /\ ns[n].prev = None THEN ns[n].next
                                                           ELSE ns[m].first
             l == IF m = ns[n].parent /\ ns[n].next = None THEN ns[n].prev
                                                           ELSE ns[m].last
  <2>1. /\ a \in Slots \cup {None} /\ b \in Slots \cup {None}
        /\ f \in Slots \cup {None} /\ l \in Slots \cup {None}
    BY <1>1, Fields
  <2>2. us[m] = [ns[m] EXCEPT !.next = a, !.prev = b, !.first = f, !.last = l]
    BY <1>5 DEF Unlink
  <2>3. ns[m] \in Node
    BY <1>1
  <2> HIDE DEF a, b, f, l
  <2>4. /\ us[m] \in Node /\ us[m].kind = ns[m].kind
        /\ us[m].connected = ns[m].connected /\ us[m].parent = ns[m].parent
        /\ us[m].next = a /\ us[m].prev = b /\ us[m].first = f /\ us[m].last = l
    <3> DEFINE r == ns[m]
               q == us[m]
    <3>1. r \in Node /\ q = [r EXCEPT !.next = a, !.prev = b, !.first = f, !.last = l]
      BY <2>2, <2>3
    <3> HIDE DEF r, q
    <3>2. /\ q \in Node /\ q.kind = r.kind /\ q.connected = r.connected
          /\ q.parent = r.parent /\ q.next = a /\ q.prev = b
          /\ q.first = f /\ q.last = l
      BY <2>1, <3>1 DEF Node
    <3> QED
      BY <3>2 DEF r, q
  <2> QED
    BY <2>4 DEF a, b, f, l
<1>6. us \in [Slots -> Node]
  BY <1>4, <1>5 DEF Unlink
<1>7. ns[n] \in Node
  BY <1>1
<1>9. /\ us[n].parent = None /\ us[n].prev = None /\ us[n].next = None
      /\ us[n].first = ns[n].first /\ us[n].last = ns[n].last
      /\ us[n].kind = ns[n].kind /\ us[n].connected = ns[n].connected
  BY <1>2, <1>7 DEF Node
<1> QED
  BY <1>5, <1>6, <1>9

\* A walk from a slot of a set leaves the set in either direction.
LEMMA Ends ==
    ASSUME NEW ns, ListsEnd(ns), NEW S, S \subseteq Slots, S # {}
    PROVE  (\E m \in S : ns[m].next \notin S) /\ (\E m \in S : ns[m].prev \notin S)
BY DEF ListsEnd

\* What a node and its neighbours are to each other.
LEMMA Neighbours ==
    ASSUME NEW ns, Shape(ns), NEW n \in Slots
    PROVE  /\ ns[n].prev # n /\ ns[n].next # n /\ ns[n].parent # n
           /\ ns[n].prev # None => ns[n].prev # ns[n].next
           /\ ns[n].parent # ns[n].prev \/ ns[n].parent = None
           /\ ns[n].parent # ns[n].next \/ ns[n].parent = None
<1>1. ns \in [Slots -> Node] /\ NeighboursAgree(ns) /\ ListsEnd(ns)
  BY DEF Shape
<1>2. /\ ns[n].prev \in Slots \cup {None} /\ ns[n].next \in Slots \cup {None}
      /\ ns[n].parent \in Slots \cup {None}
  BY <1>1, Fields
<1>3. ns[n].prev # n /\ ns[n].next # n
  <2>1. /\ \E m \in {n} : ns[m].next \notin {n}
        /\ \E m \in {n} : ns[m].prev \notin {n}
    BY <1>1, Ends
  <2> QED
    BY <2>1
<1>4. ns[n].parent # n
  BY NotOwnParent
<1>5. ASSUME ns[n].prev # None, ns[n].prev = ns[n].next PROVE FALSE
  <2> DEFINE b == ns[n].prev
  <2>1. b \in Slots /\ ns[b].next = n /\ ns[n].next = b
    BY <1>1, <1>2, <1>5 DEF NeighboursAgree
  <2>2. \E m \in {n, b} : ns[m].next \notin {n, b}
    BY <1>1, <2>1, Ends
  <2> QED
    BY <2>1, <2>2
<1>6. ASSUME ns[n].parent # None, ns[n].parent = ns[n].prev PROVE FALSE
  <2>1. ns[n].prev \in Slots /\ ns[ns[n].prev].parent = ns[n].prev
    BY <1>1, <1>2, <1>6 DEF NeighboursAgree
  <2> QED
    BY <2>1, NotOwnParent
<1>7. ASSUME ns[n].parent # None, ns[n].parent = ns[n].next PROVE FALSE
  <2>1. ns[n].next \in Slots /\ ns[ns[n].next].parent = ns[n].next
    BY <1>1, <1>2, <1>7 DEF NeighboursAgree
  <2> QED
    BY <2>1, NotOwnParent
<1> QED
  BY <1>3, <1>4, <1>5, <1>6, <1>7

\* An only child leaves its parent without children.
LEMMA OnlyChild ==
    ASSUME NEW ns, Shape(ns), NEW n \in Slots, NEW m \in Slots,
           ns[n].parent # None, ns[n].prev = None, ns[n].next = None,
           ns[m].parent = ns[n].parent
    PROVE  m = n
<1> SUFFICES ASSUME m # n PROVE FALSE
  OBVIOUS
<1> DEFINE S == {k \in Slots : ns[k].parent = ns[n].parent /\ k # n}
<1>1. ns \in [Slots -> Node] /\ NeighboursAgree(ns) /\ ListsEnd(ns)
  BY DEF Shape
<1>2. S \subseteq Slots /\ S # {}
  OBVIOUS
<1>3. ASSUME NEW k \in S PROVE ns[k].next \in S
  <2>1. k \in Slots /\ ns[k].parent = ns[n].parent /\ k # n
    OBVIOUS
  <2>2. ns[n].parent \in Slots /\ ns[ns[n].parent].last = n
    BY <1>1, Fields DEF NeighboursAgree
  <2>3. ns[k].next # None
    BY <1>1, <2>1, <2>2 DEF NeighboursAgree
  <2>4. ns[k].next \in Slots /\ ns[ns[k].next].prev = k
        /\ ns[ns[k].next].parent = ns[n].parent
    BY <1>1, <2>1, <2>3, Fields DEF NeighboursAgree
  <2>5. ns[k].next # n
    BY <2>1, <2>4, NoneIsNoSlot
  <2> QED
    BY <2>4, <2>5
<1> HIDE DEF S
<1> QED
  BY <1>1, <1>2, <1>3, Ends

\* Taking a node out of its list keeps the others in theirs.
LEMMA UnlinkNeighbours ==
    ASSUME NEW ns, Shape(ns), NEW n \in Slots, NEW us, us = Unlink(ns, n)
    PROVE  NeighboursAgree(us)
<1> DEFINE b == ns[n].prev
           a == ns[n].next
           p == ns[n].parent
<1>1. ns \in [Slots -> Node] /\ NeighboursAgree(ns)
  BY DEF Shape
<1>2. /\ us[n].parent = None /\ us[n].prev = None /\ us[n].next = None
      /\ us[n].first = ns[n].first /\ us[n].last = ns[n].last
      /\ \A m \in Slots \ {n} :
           /\ us[m].parent = ns[m].parent
           /\ us[m].next = IF m = b THEN a ELSE ns[m].next
           /\ us[m].prev = IF m = a THEN b ELSE ns[m].prev
           /\ us[m].first = IF m = p /\ b = None THEN a ELSE ns[m].first
           /\ us[m].last = IF m = p /\ a = None THEN b ELSE ns[m].last
  BY <1>1, UnlinkFields
<1>3. /\ a \in Slots \cup {None} /\ b \in Slots \cup {None} /\ p \in Slots \cup {None}
      /\ a # n /\ b # n /\ p # n /\ None \notin Slots /\ (a = b => a = None)
  BY <1>1, Fields, Neighbours, NoneIsNoSlot
<1>4. /\ ns[n].next = a /\ ns[n].prev = b /\ ns[n].parent = p
      /\ b # None => ns[b].next = n /\ ns[b].parent = p /\ p # None
      /\ a # None => ns[a].prev = n /\ ns[a].parent = p /\ p # None
      /\ p # None => /\ b = None => ns[p].first = n
                     /\ a = None => ns[p].last = n
  BY <1>1, <1>3 DEF NeighboursAgree
<1>5. \A m \in Slots : ns[m].parent = p /\ p # None /\ a = None /\ b = None => m = n
  BY OnlyChild
<1> SUFFICES ASSUME NEW m \in Slots
             PROVE  /\ us[m].prev # None => /\ us[us[m].prev].next = m
                                            /\ us[m].parent # None
                                            /\ us[us[m].prev].parent = us[m].parent
                    /\ us[m].next # None => /\ us[us[m].next].prev = m
                                            /\ us[m].parent # None
                                            /\ us[us[m].next].parent = us[m].parent
                    /\ us[m].parent # None =>
                         /\ us[us[m].parent].first # None
                         /\ us[m].prev = None => us[us[m].parent].first = m
                         /\ us[m].next = None => us[us[m].parent].last = m
                    /\ us[m].first # None => /\ us[us[m].first].parent = m
                                             /\ us[us[m].first].prev = None
                    /\ us[m].last # None => /\ us[us[m].last].parent = m
                                            /\ us[us[m].last].next = None
                    /\ us[m].first = None <=> us[m].last = None
  BY DEF NeighboursAgree
<1>6. /\ ns[m].prev \in Slots \cup {None} /\ ns[m].next \in Slots \cup {None}
      /\ ns[m].parent \in Slots \cup {None} /\ ns[m].first \in Slots \cup {None}
      /\ ns[m].last \in Slots \cup {None}
      /\ ns[m].prev # None => /\ ns[ns[m].prev].next = m /\ ns[m].parent # None
                              /\ ns[ns[m].prev].parent = ns[m].parent
      /\ ns[m].next # None => /\ ns[ns[m].next].prev = m /\ ns[m].parent # None
                              /\ ns[ns[m].next].parent = ns[m].parent
      /\ ns[m].parent # None => /\ ns[ns[m].parent].first # None
                                /\ ns[m].prev = None => ns[ns[m].parent].first = m
                                /\ ns[m].next = None => ns[ns[m].parent].last = m
      /\ ns[m].first # None => ns[ns[m].first].parent = m /\ ns[ns[m].first].prev = None
      /\ ns[m].last # None => ns[ns[m].last].parent = m /\ ns[ns[m].last].next = None
      /\ ns[m].first = None <=> ns[m].last = None
  BY <1>1, Fields DEF NeighboursAgree
<1> HIDE DEF a, b, p
<1>7. us[m].prev # None => /\ us[us[m].prev].next = m /\ us[m].parent # None
                           /\ us[us[m].prev].parent = us[m].parent
  BY <1>2, <1>3, <1>4, <1>6
<1>8. us[m].next # None => /\ us[us[m].next].prev = m /\ us[m].parent # None
                           /\ us[us[m].next].parent = us[m].parent
  BY <1>2, <1>3, <1>4, <1>6
<1>9. us[m].parent # None => /\ us[us[m].parent].first # None
                             /\ us[m].prev = None => us[us[m].parent].first = m
                             /\ us[m].next = None => us[us[m].parent].last = m
  BY <1>2, <1>3, <1>4, <1>5, <1>6
<1>10. us[m].first # None => us[us[m].first].parent = m /\ us[us[m].first].prev = None
  BY <1>2, <1>3, <1>4, <1>6
<1>11. us[m].last # None => us[us[m].last].parent = m /\ us[us[m].last].next = None
  BY <1>2, <1>3, <1>4, <1>6
<1>12. us[m].first = None <=> us[m].last = None
  BY <1>2, <1>3, <1>4, <1>6
<1> QED
  BY <1>7, <1>8, <1>9, <1>10, <1>11, <1>12

\* The lists still end.
LEMMA UnlinkEnds ==
    ASSUME NEW ns, Shape(ns), NEW n \in Slots, NEW us, us = Unlink(ns, n)
    PROVE  ListsEnd(us)
<1> DEFINE b == ns[n].prev
           a == ns[n].next
<1>1. ns \in [Slots -> Node] /\ ListsEnd(ns) /\ None \notin Slots
  BY NoneIsNoSlot DEF Shape
<1>2. /\ us[n].prev = None /\ us[n].next = None
      /\ \A m \in Slots \ {n} : /\ us[m].next = IF m = b THEN a ELSE ns[m].next
                               /\ us[m].prev = IF m = a THEN b ELSE ns[m].prev
  BY <1>1, UnlinkFields
<1>3. ns[n].prev = b /\ ns[n].next = a
  OBVIOUS
<1>4. /\ b # None => ns[b].next = n
      /\ a # None => ns[a].prev = n
  BY <1>1 DEF Shape, NeighboursAgree
<1> HIDE DEF a, b
<1> SUFFICES ASSUME NEW S \in SUBSET Slots, S # {}
             PROVE  (\E m \in S : us[m].next \notin S) /\ (\E m \in S : us[m].prev \notin S)
  BY DEF ListsEnd
<1>5. ASSUME \A m \in S : us[m].next \in S PROVE FALSE
  <2>1. n \notin S
    BY <1>1, <1>2, <1>5
  <2>2. CASE b \in S
    <3>1. \A m \in S \cup {n} : ns[m].next \in S \cup {n}
      BY <1>2, <1>3, <1>4, <1>5, <2>1, <2>2, <1>1
    <3> QED
      BY <1>1, <3>1, Ends, S \cup {n} \subseteq Slots, S \cup {n} # {}
  <2>3. CASE b \notin S
    BY <1>1, <1>2, <1>5, <2>1, <2>3, Ends
  <2> QED
    BY <2>2, <2>3
<1>6. ASSUME \A m \in S : us[m].prev \in S PROVE FALSE
  <2>1. n \notin S
    BY <1>1, <1>2, <1>6
  <2>2. CASE a \in S
    <3>1. \A m \in S \cup {n} : ns[m].prev \in S \cup {n}
      BY <1>2, <1>3, <1>4, <1>6, <2>1, <2>2, <1>1
    <3> QED
      BY <1>1, <3>1, Ends, S \cup {n} \subseteq Slots, S \cup {n} # {}
  <2>3. CASE a \notin S
    BY <1>1, <1>2, <1>6, <2>1, <2>3, Ends
  <2> QED
    BY <2>2, <2>3
<1> QED
  BY <1>5, <1>6

\* A node taken out of its list is still in no cycle, and the rest is as it was.
LEMMA UnlinkShape ==
    ASSUME NEW ns, Shape(ns), NEW n \in Slots, NEW us, us = Unlink(ns, n)
    PROVE  Shape(us)
<1>0. ns \in [Slots -> Node]
  BY DEF Shape
<1>1. /\ us \in [Slots -> Node] /\ us[n].parent = None
      /\ \A m \in Slots : m # n => us[m].parent = ns[m].parent
  BY <1>0, UnlinkFields
<1>2. NeighboursAgree(us) /\ ListsEnd(us)
  BY UnlinkNeighbours, UnlinkEnds
<1>3. Registered(us)
  BY <1>1 DEF Shape, Registered
<1>4. WalksUpEnd(us)
  <2> SUFFICES ASSUME NEW S \in SUBSET Slots, S # {},
                      \A m \in S : HostIncludingParent(us, m) \in S
               PROVE  FALSE
    BY DEF WalksUpEnd
  <2>1. \E m \in S : HostIncludingParent(ns, m) \notin S
    BY DEF Shape, WalksUpEnd
  <2>2. \A m \in S : m # n => HostIncludingParent(ns, m) = HostIncludingParent(us, m)
    BY <1>1 DEF HostIncludingParent
  <2>3. n \in S /\ HostIncludingParent(ns, n) \notin S
    BY <2>1, <2>2
  <2>4. HostIncludingParent(us, n) = hostOf[n]
    BY <1>1 DEF HostIncludingParent
  <2>5. hostOf[n] \in S /\ None \notin Slots
    BY <2>3, <2>4, NoneIsNoSlot
  <2>6. ns[n].parent = None
    BY <2>5 DEF Shape, Registered
  <2> QED
    BY <2>3, <2>5, <2>6 DEF HostIncludingParent
<1> QED
  BY <1>1, <1>2, <1>3, <1>4 DEF Shape

----------------------------------------------------------------------------
(* c is in no list, and b and a are neighbours among the children of p:    *)
(* None in front of the first and behind the last.                         *)
Gap(ns, p, c, b, a) ==
    /\ p # c /\ b # c /\ a # c
    /\ b \in Slots \cup {None} /\ a \in Slots \cup {None}
    /\ ns[c].parent = None /\ ns[c].prev = None /\ ns[c].next = None
    /\ b # None => ns[b].next = a /\ ns[b].parent = p
    /\ a # None => ns[a].prev = b /\ ns[a].parent = p
    /\ b = None => ns[p].first = a
    /\ a = None => ns[p].last = b

(* c has been put between them.                                            *)
Inserted(ns, ls, p, c, b, a) ==
    /\ ls \in [Slots -> Node]
    /\ ls[c].parent = p /\ ls[c].prev = b /\ ls[c].next = a
    /\ ls[c].first = ns[c].first /\ ls[c].last = ns[c].last
    /\ \A m \in Slots :
         /\ ls[m].kind = ns[m].kind /\ ls[m].connected = ns[m].connected
         /\ m # c => /\ ls[m].parent = ns[m].parent
                     /\ ls[m].next = IF m = b THEN c ELSE ns[m].next
                     /\ ls[m].prev = IF m = a THEN c ELSE ns[m].prev
                     /\ ls[m].first = IF m = p /\ b = None THEN c ELSE ns[m].first
                     /\ ls[m].last = IF m = p /\ a = None THEN c ELSE ns[m].last

\* append_child puts a node that is in no list behind the last child.
LEMMA LinkLastInserts ==
    ASSUME NEW ns, Shape(ns), NEW p \in Slots, NEW c \in Slots, p # c,
           ns[c].parent = None, ns[c].prev = None, ns[c].next = None
    PROVE  /\ Gap(ns, p, c, ns[p].last, None)
           /\ Inserted(ns, LinkLast(ns, p, c), p, c, ns[p].last, None)
<1> DEFINE b == ns[p].last
           ls == LinkLast(ns, p, c)
<1>1. ns \in [Slots -> Node] /\ NeighboursAgree(ns) /\ None \notin Slots
  BY NoneIsNoSlot DEF Shape
<1>2. b \in Slots \cup {None}
  BY <1>1, Fields
<1>3. /\ b # None => ns[b].parent = p /\ ns[b].next = None
      /\ b = None <=> ns[p].first = None
  BY <1>1, <1>2 DEF NeighboursAgree
<1>4. b # c
  BY <1>1, <1>2, <1>3
<1>5. Gap(ns, p, c, b, None)
  BY <1>1, <1>2, <1>3, <1>4 DEF Gap
<1>6. ASSUME NEW m \in Slots
      PROVE  /\ ls[m] \in Node
             /\ ls[m].kind = ns[m].kind /\ ls[m].connected = ns[m].connected
             /\ ls[m].parent = IF m = c THEN p ELSE ns[m].parent
             /\ ls[m].prev = IF m = c THEN b ELSE ns[m].prev
             /\ ls[m].next = IF m = b THEN c ELSE IF m = c THEN None ELSE ns[m].next
             /\ ls[m].first = IF m = p /\ ns[m].first = None THEN c ELSE ns[m].first
             /\ ls[m].last = IF m = p THEN c ELSE ns[m].last
  <2> DEFINE r == ns[m]
             q == ls[m]
             pa == IF m = c THEN p ELSE ns[m].parent
             pr == IF m = c THEN b ELSE ns[m].prev
             nx == IF m = b THEN c ELSE IF m = c THEN None ELSE ns[m].next
             fi == IF m = p /\ ns[m].first = None THEN c ELSE ns[m].first
             la == IF m = p THEN c ELSE ns[m].last
  <2>1. /\ pa \in Slots \cup {None} /\ pr \in Slots \cup {None}
        /\ nx \in Slots \cup {None} /\ fi \in Slots \cup {None}
        /\ la \in Slots \cup {None}
    BY <1>1, <1>2, Fields
  <2>2. r \in Node /\ q = [r EXCEPT !.parent = pa, !.prev = pr, !.next = nx,
                                    !.first = fi, !.last = la]
    BY <1>1 DEF LinkLast
  <2> HIDE DEF r, q, pa, pr, nx, fi, la
  <2>3. /\ q \in Node /\ q.kind = r.kind /\ q.connected = r.connected
        /\ q.parent = pa /\ q.prev = pr /\ q.next = nx /\ q.first = fi /\ q.last = la
    BY <2>1, <2>2 DEF Node
  <2> QED
    BY <2>3 DEF r, q, pa, pr, nx, fi, la
<1>7. ls \in [Slots -> Node]
  BY <1>6 DEF LinkLast
<1>8. c # None
  BY <1>1
<1> HIDE DEF b, ls
<1>9. Inserted(ns, ls, p, c, b, None)
  BY <1>1, <1>2, <1>3, <1>4, <1>6, <1>7, <1>8 DEF Inserted
<1> QED
  BY <1>5, <1>9 DEF b, ls

\* insert_before puts it in front of the reference.
LEMMA LinkBeforeInserts ==
    ASSUME NEW ns, Shape(ns), NEW p \in Slots, NEW c \in Slots, NEW ref \in Slots,
           p # c, ref # c, ns[ref].parent = p,
           ns[c].parent = None, ns[c].prev = None, ns[c].next = None
    PROVE  /\ Gap(ns, p, c, ns[ref].prev, ref)
           /\ Inserted(ns, LinkBefore(ns, p, c, ref), p, c, ns[ref].prev, ref)
<1> DEFINE b == ns[ref].prev
           ls == LinkBefore(ns, p, c, ref)
<1>1. ns \in [Slots -> Node] /\ NeighboursAgree(ns) /\ None \notin Slots
  BY NoneIsNoSlot DEF Shape
<1>2. b \in Slots \cup {None}
  BY <1>1, Fields
<1>3. /\ b # None => ns[b].next = ref /\ ns[b].parent = p
      /\ b = None => ns[p].first = ref
  BY <1>1, <1>2 DEF NeighboursAgree
<1>4. b # c
  BY <1>1, <1>2, <1>3
<1>5. Gap(ns, p, c, b, ref)
  BY <1>1, <1>2, <1>3, <1>4 DEF Gap
<1>6. ASSUME NEW m \in Slots
      PROVE  /\ ls[m] \in Node
             /\ ls[m].kind = ns[m].kind /\ ls[m].connected = ns[m].connected
             /\ ls[m].parent = IF m = c THEN p ELSE ns[m].parent
             /\ ls[m].prev = IF m = ref THEN c ELSE IF m = c THEN b ELSE ns[m].prev
             /\ ls[m].next = IF m = b THEN c ELSE IF m = c THEN ref ELSE ns[m].next
             /\ ls[m].first = IF m = p /\ b = None THEN c ELSE ns[m].first
             /\ ls[m].last = ns[m].last
  <2> DEFINE r == ns[m]
             q == ls[m]
             pa == IF m = c THEN p ELSE ns[m].parent
             pr == IF m = ref THEN c ELSE IF m = c THEN b ELSE ns[m].prev
             nx == IF m = b THEN c ELSE IF m = c THEN ref ELSE ns[m].next
             fi == IF m = p /\ b = None THEN c ELSE ns[m].first
  <2>1. /\ pa \in Slots \cup {None} /\ pr \in Slots \cup {None}
        /\ nx \in Slots \cup {None} /\ fi \in Slots \cup {None}
    BY <1>1, <1>2, Fields
  <2>2. r \in Node /\ q = [r EXCEPT !.parent = pa, !.prev = pr, !.next = nx,
                                    !.first = fi]
    BY <1>1 DEF LinkBefore
  <2> HIDE DEF r, q, pa, pr, nx, fi
  <2>3. /\ q \in Node /\ q.kind = r.kind /\ q.connected = r.connected
        /\ q.parent = pa /\ q.prev = pr /\ q.next = nx /\ q.first = fi
        /\ q.last = r.last
    BY <2>1, <2>2 DEF Node
  <2> QED
    BY <2>3 DEF r, q, pa, pr, nx, fi
<1>7. ls \in [Slots -> Node]
  BY <1>6 DEF LinkBefore
<1>8. c # None /\ ref # None
  BY <1>1
<1> HIDE DEF b, ls
<1>9. Inserted(ns, ls, p, c, b, ref)
  BY <1>1, <1>2, <1>3, <1>4, <1>6, <1>7, <1>8 DEF Inserted
<1> QED
  BY <1>5, <1>9 DEF b, ls

\* The list with c in it agrees with itself.
LEMMA InsertedNeighbours ==
    ASSUME NEW ns, Shape(ns), NEW p \in Slots, NEW c \in Slots, NEW b, NEW a, NEW ls,
           Gap(ns, p, c, b, a), Inserted(ns, ls, p, c, b, a)
    PROVE  NeighboursAgree(ls)
<1>1. ns \in [Slots -> Node] /\ NeighboursAgree(ns) /\ None \notin Slots
  BY NoneIsNoSlot DEF Shape
<1>2. ASSUME NEW m \in Slots
      PROVE  /\ ls[m].prev # None => /\ ls[ls[m].prev].next = m
                                     /\ ls[m].parent # None
                                     /\ ls[ls[m].prev].parent = ls[m].parent
             /\ ls[m].next # None => /\ ls[ls[m].next].prev = m
                                     /\ ls[m].parent # None
                                     /\ ls[ls[m].next].parent = ls[m].parent
             /\ ls[m].parent # None =>
                  /\ ls[ls[m].parent].first # None
                  /\ ls[m].prev = None => ls[ls[m].parent].first = m
                  /\ ls[m].next = None => ls[ls[m].parent].last = m
             /\ ls[m].first # None => /\ ls[ls[m].first].parent = m
                                      /\ ls[ls[m].first].prev = None
             /\ ls[m].last # None => /\ ls[ls[m].last].parent = m
                                     /\ ls[ls[m].last].next = None
             /\ ls[m].first = None <=> ls[m].last = None
  <2>1. /\ ns[m].prev \in Slots \cup {None} /\ ns[m].next \in Slots \cup {None}
        /\ ns[m].parent \in Slots \cup {None} /\ ns[m].first \in Slots \cup {None}
        /\ ns[m].last \in Slots \cup {None}
        /\ ns[m].prev # None => /\ ns[ns[m].prev].next = m /\ ns[m].parent # None
                                /\ ns[ns[m].prev].parent = ns[m].parent
        /\ ns[m].next # None => /\ ns[ns[m].next].prev = m /\ ns[m].parent # None
                                /\ ns[ns[m].next].parent = ns[m].parent
        /\ ns[m].parent # None => /\ ns[ns[m].parent].first # None
                                  /\ ns[m].prev = None => ns[ns[m].parent].first = m
                                  /\ ns[m].next = None => ns[ns[m].parent].last = m
        /\ ns[m].first # None => ns[ns[m].first].parent = m /\ ns[ns[m].first].prev = None
        /\ ns[m].last # None => ns[ns[m].last].parent = m /\ ns[ns[m].last].next = None
        /\ ns[m].first = None <=> ns[m].last = None
    BY <1>1, Fields DEF NeighboursAgree
  <2>2. /\ ls[c].parent = p /\ ls[c].prev = b /\ ls[c].next = a
        /\ ls[c].first = ns[c].first /\ ls[c].last = ns[c].last
        /\ \A k \in Slots \ {c} :
             /\ ls[k].parent = ns[k].parent
             /\ ls[k].next = IF k = b THEN c ELSE ns[k].next
             /\ ls[k].prev = IF k = a THEN c ELSE ns[k].prev
             /\ ls[k].first = IF k = p /\ b = None THEN c ELSE ns[k].first
             /\ ls[k].last = IF k = p /\ a = None THEN c ELSE ns[k].last
    BY DEF Inserted
  <2>3. /\ p # c /\ b # c /\ a # c
        /\ b \in Slots \cup {None} /\ a \in Slots \cup {None}
        /\ ns[c].parent = None /\ ns[c].prev = None /\ ns[c].next = None
        /\ b # None => ns[b].next = a /\ ns[b].parent = p
        /\ a # None => ns[a].prev = b /\ ns[a].parent = p
        /\ b = None => ns[p].first = a
        /\ a = None => ns[p].last = b
    BY DEF Gap
  <2>4. /\ ns[p].first = None <=> ns[p].last = None
        /\ ns[p].first # None => ns[ns[p].first].parent = p /\ ns[ns[p].first].prev = None
        /\ ns[p].last # None => ns[ns[p].last].parent = p /\ ns[ns[p].last].next = None
        /\ b # None => ns[p].first # None
    BY <1>1, <2>3 DEF NeighboursAgree
  <2>5. ls[m].prev # None => /\ ls[ls[m].prev].next = m /\ ls[m].parent # None
                             /\ ls[ls[m].prev].parent = ls[m].parent
    BY <1>1, <2>1, <2>2, <2>3, <2>4
  <2>6. ls[m].next # None => /\ ls[ls[m].next].prev = m /\ ls[m].parent # None
                             /\ ls[ls[m].next].parent = ls[m].parent
    BY <1>1, <2>1, <2>2, <2>3, <2>4
  <2>7. ls[m].parent # None => /\ ls[ls[m].parent].first # None
                               /\ ls[m].prev = None => ls[ls[m].parent].first = m
                               /\ ls[m].next = None => ls[ls[m].parent].last = m
    <3>1. CASE m = c
      BY <1>1, <2>2, <2>3, <2>4, <3>1
    <3>2. CASE m # c
      BY <1>1, <2>1, <2>2, <2>3, <2>4, <3>2
    <3> QED
      BY <3>1, <3>2
  <2>8. ls[m].first # None => ls[ls[m].first].parent = m /\ ls[ls[m].first].prev = None
    BY <1>1, <2>1, <2>2, <2>3, <2>4
  <2>9. ls[m].last # None => ls[ls[m].last].parent = m /\ ls[ls[m].last].next = None
    BY <1>1, <2>1, <2>2, <2>3, <2>4
  <2>10. ls[m].first = None <=> ls[m].last = None
    BY <1>1, <2>1, <2>2, <2>3, <2>4
  <2> QED
    BY <2>5, <2>6, <2>7, <2>8, <2>9, <2>10
<1> QED
  BY <1>2 DEF NeighboursAgree

\* The list with c in it still ends.
LEMMA InsertedEnds ==
    ASSUME NEW ns, Shape(ns), NEW p \in Slots, NEW c \in Slots, NEW b, NEW a, NEW ls,
           Gap(ns, p, c, b, a), Inserted(ns, ls, p, c, b, a)
    PROVE  ListsEnd(ls)
<1>1. ns \in [Slots -> Node] /\ NeighboursAgree(ns) /\ ListsEnd(ns) /\ None \notin Slots
  BY NoneIsNoSlot DEF Shape
<1>2. /\ ls[c].prev = b /\ ls[c].next = a
      /\ \A m \in Slots \ {c} : /\ ls[m].next = IF m = b THEN c ELSE ns[m].next
                                /\ ls[m].prev = IF m = a THEN c ELSE ns[m].prev
  BY DEF Inserted
<1>3. /\ b # c /\ a # c /\ b \in Slots \cup {None} /\ a \in Slots \cup {None}
      /\ ns[c].prev = None /\ ns[c].next = None
      /\ b # None => ns[b].next = a
      /\ a # None => ns[a].prev = b
  BY DEF Gap
<1>4. \A m \in Slots : ns[m].next # c /\ ns[m].prev # c
  BY <1>1, <1>3 DEF NeighboursAgree
<1> SUFFICES ASSUME NEW S \in SUBSET Slots, S # {}
             PROVE  (\E m \in S : ls[m].next \notin S) /\ (\E m \in S : ls[m].prev \notin S)
  BY DEF ListsEnd
<1>5. ASSUME \A m \in S : ls[m].next \in S PROVE FALSE
  <2> DEFINE T == S \ {c}
  <2>1. \A m \in T : ns[m].next \in T
    BY <1>1, <1>2, <1>3, <1>4, <1>5
  <2>2. T \subseteq Slots /\ T # {}
    BY <1>2, <1>3, <1>5
  <2> HIDE DEF T
  <2> QED
    BY <1>1, <2>1, <2>2, Ends
<1>6. ASSUME \A m \in S : ls[m].prev \in S PROVE FALSE
  <2> DEFINE T == S \ {c}
  <2>1. \A m \in T : ns[m].prev \in T
    BY <1>1, <1>2, <1>3, <1>4, <1>6
  <2>2. T \subseteq Slots /\ T # {}
    BY <1>2, <1>3, <1>6
  <2> HIDE DEF T
  <2> QED
    BY <1>1, <2>1, <2>2, Ends
<1> QED
  BY <1>5, <1>6

\* No set of slots is closed under what is above.
LEMMA UpEnds ==
    ASSUME NEW ns, Shape(ns), NEW S, S \subseteq Slots,
           \A m \in S : HostIncludingParent(ns, m) \in S
    PROVE  S = {}
BY DEF Shape, WalksUpEnd

\* A node that is no shadow root, put below one it is not above, closes no cycle.
LEMMA InsertedShape ==
    ASSUME NEW ns, Shape(ns), NEW p \in Slots, NEW c \in Slots, NEW b, NEW a, NEW ls,
           Gap(ns, p, c, b, a), Inserted(ns, ls, p, c, b, a), hostOf[c] = None,
           NEW T, T \subseteq Slots, c \notin T, StaysAbove(ns, p, T)
    PROVE  Shape(ls)
<1>1. NeighboursAgree(ls) /\ ListsEnd(ls)
  BY InsertedNeighbours, InsertedEnds
<1>2. /\ ls \in [Slots -> Node] /\ ls[c].parent = p /\ None \notin Slots
      /\ \A m \in Slots \ {c} : ls[m].parent = ns[m].parent
  BY NoneIsNoSlot DEF Inserted
<1>3. /\ HostIncludingParent(ls, c) = p
      /\ \A m \in Slots \ {c} : HostIncludingParent(ls, m) = HostIncludingParent(ns, m)
  BY <1>2 DEF HostIncludingParent
<1>4. Registered(ls)
  <2>1. Registered(ns) /\ hostOf[c] = None
    BY DEF Shape
  <2> QED
    BY <1>2, <2>1 DEF Registered
<1>5. WalksUpEnd(ls)
  <2> SUFFICES ASSUME NEW S \in SUBSET Slots, S # {},
                      \A m \in S : HostIncludingParent(ls, m) \in S
               PROVE  FALSE
    BY DEF WalksUpEnd
  <2>1. CASE c \notin S
    <3>1. \A m \in S : HostIncludingParent(ns, m) \in S
      BY <1>3, <2>1
    <3> QED
      BY <3>1, UpEnds
  <2>2. CASE c \in S
    <3> DEFINE U == S \cap T
    <3>1. p \in U
      BY <1>3, <2>2 DEF StaysAbove
    <3>2. \A m \in U : HostIncludingParent(ns, m) \in U
      BY <1>2, <1>3 DEF StaysAbove
    <3>3. U \subseteq Slots
      OBVIOUS
    <3> HIDE DEF U
    <3> QED
      BY <3>1, <3>2, <3>3, UpEnds
  <2> QED
    BY <2>1, <2>2
<1> QED
  BY <1>1, <1>2, <1>4, <1>5 DEF Shape

----------------------------------------------------------------------------
\* What is below n, as the code collects it: n, and each other node that is
\* below one of them; and nothing above n.
LEMMA OwnedBelow ==
    ASSUME NEW ns, Shape(ns), NEW n \in Slots
    PROVE  /\ OwnedSubtrees(ns, n) \subseteq Slots /\ n \in OwnedSubtrees(ns, n)
           /\ HostIncludingParent(ns, n) \notin OwnedSubtrees(ns, n)
           /\ \A m \in Slots \ {n} : m \in OwnedSubtrees(ns, n)
                <=> HostIncludingParent(ns, m) \in OwnedSubtrees(ns, n)
<1> DEFINE O == OwnedSubtrees(ns, n)
<1>1. /\ ns \in [Slots -> Node] /\ NeighboursAgree(ns) /\ ListsEnd(ns) /\ Registered(ns)
      /\ rootOf \in [Slots -> Slots \cup {None}] /\ None \notin Slots
      /\ hostOf \in [Slots -> Slots \cup {None}]
  BY NoneIsNoSlot DEF Shape
<1>2. \A S \in SUBSET Slots : StaysBelow(ns, n, S) => O \subseteq S
  BY DEF OwnedSubtrees
<1>3. O \subseteq Slots /\ n \in O
  BY DEF OwnedSubtrees, StaysBelow
<1>4. \A m \in O : /\ ns[m].first \in O \cup {None} /\ rootOf[m] \in O \cup {None}
                   /\ m # n => ns[m].next \in O \cup {None}
  <2> SUFFICES ASSUME NEW m \in O
               PROVE  /\ ns[m].first \in O \cup {None} /\ rootOf[m] \in O \cup {None}
                      /\ m # n => ns[m].next \in O \cup {None}
    OBVIOUS
  <2>1. m \in Slots
    BY <1>3
  <2>2. /\ ns[m].first \in Slots \cup {None} /\ rootOf[m] \in Slots \cup {None}
        /\ ns[m].next \in Slots \cup {None}
    BY <1>1, <2>1, Fields
  <2>3. \A S \in SUBSET Slots : StaysBelow(ns, n, S) =>
           /\ ns[m].first \in S \cup {None} /\ rootOf[m] \in S \cup {None}
           /\ m # n => ns[m].next \in S \cup {None}
    BY <1>2 DEF StaysBelow
  <2> QED
    BY <2>2, <2>3 DEF OwnedSubtrees
<1>5. \A m \in O \ {n} : HostIncludingParent(ns, m) \in O
  <2> DEFINE X == {m \in O : m = n \/ HostIncludingParent(ns, m) \in O}
  <2>1. X \in SUBSET Slots /\ n \in X
    BY <1>3
  <2>2. ASSUME NEW m \in X
        PROVE  /\ {ns[m].first, rootOf[m]} \subseteq X \cup {None}
               /\ m # n => ns[m].next \in X \cup {None}
    <3>0. m \in O /\ m \in Slots /\ (m # n => HostIncludingParent(ns, m) \in O)
      BY <1>3
    <3>1. ns[m].first # None => ns[m].first \in X
      <4> SUFFICES ASSUME ns[m].first # None PROVE ns[m].first \in X
        OBVIOUS
      <4>1. ns[m].first \in O /\ ns[ns[m].first].parent = m
        BY <1>1, <1>4, <3>0 DEF NeighboursAgree
      <4>2. HostIncludingParent(ns, ns[m].first) = m
        BY <1>1, <3>0, <4>1 DEF HostIncludingParent
      <4> QED
        BY <3>0, <4>1, <4>2
    <3>2. rootOf[m] # None => rootOf[m] \in X
      <4> SUFFICES ASSUME rootOf[m] # None PROVE rootOf[m] \in X
        OBVIOUS
      <4>1. rootOf[m] \in O /\ hostOf[rootOf[m]] = m /\ rootOf[m] \in Slots
        BY <1>1, <1>3, <1>4, <3>0 DEF Registered
      <4>2. ns[rootOf[m]].parent = None
        BY <1>1, <3>0, <4>1 DEF Registered
      <4>3. HostIncludingParent(ns, rootOf[m]) = m
        BY <4>1, <4>2 DEF HostIncludingParent
      <4> QED
        BY <3>0, <4>1, <4>3
    <3>3. m # n /\ ns[m].next # None => ns[m].next \in X
      <4> SUFFICES ASSUME m # n, ns[m].next # None PROVE ns[m].next \in X
        OBVIOUS
      <4>1. /\ ns[m].next \in O /\ ns[m].parent # None
            /\ ns[ns[m].next].parent = ns[m].parent
        BY <1>1, <1>4, <3>0 DEF NeighboursAgree
      <4>2. HostIncludingParent(ns, ns[m].next) = HostIncludingParent(ns, m)
        BY <4>1 DEF HostIncludingParent
      <4> QED
        BY <3>0, <4>1, <4>2
    <3> QED
      BY <3>1, <3>2, <3>3
  <2>3. StaysBelow(ns, n, X)
    BY <2>1, <2>2 DEF StaysBelow
  <2>4. O \subseteq X
    BY <1>2, <2>1, <2>3
  <2> QED
    BY <2>4
<1>6. HostIncludingParent(ns, n) \notin O
  <2> SUFFICES ASSUME HostIncludingParent(ns, n) \in O PROVE FALSE
    OBVIOUS
  <2>1. \A m \in O : HostIncludingParent(ns, m) \in O
    BY <1>5
  <2> HIDE DEF O
  <2> QED
    BY <1>3, <2>1, UpEnds
<1>7. ASSUME NEW m \in Slots \ {n}, HostIncludingParent(ns, m) \in O PROVE m \in O
  <2> DEFINE h == HostIncludingParent(ns, m)
  <2>1. CASE ns[m].parent = None
    <3>1. h = hostOf[m] /\ h \in Slots /\ h # None
      BY <1>1, <1>3, <1>7, <2>1 DEF HostIncludingParent
    <3>2. rootOf[h] = m
      BY <1>1, <3>1 DEF Registered
    <3> QED
      BY <1>1, <1>4, <1>7, <3>2
  <2>2. CASE ns[m].parent # None
    <3> SUFFICES ASSUME m \notin O PROVE FALSE
      OBVIOUS
    <3> DEFINE Y == {k \in Slots : ns[k].parent = h /\ k \notin O}
    <3>1. h = ns[m].parent /\ h \in O /\ h \in Slots /\ h # None
      BY <1>1, <1>3, <1>7, <2>2 DEF HostIncludingParent
    <3>2. ns[n].parent # h
      BY <1>6, <3>1 DEF HostIncludingParent
    <3>3. ASSUME NEW k \in Y PROVE ns[k].prev \in Y
      <4>1. k \in Slots /\ ns[k].parent = h /\ k \notin O
        OBVIOUS
      <4>2. ns[k].prev # None
        <5>1. ns[k].prev = None => ns[h].first = k
          BY <1>1, <3>1, <4>1 DEF NeighboursAgree
        <5> QED
          BY <1>1, <1>4, <3>1, <4>1, <5>1
      <4>3. /\ ns[k].prev \in Slots /\ ns[ns[k].prev].next = k
            /\ ns[ns[k].prev].parent = h
        BY <1>1, <4>1, <4>2, Fields DEF NeighboursAgree
      <4>4. ns[k].prev # n
        BY <3>2, <4>3
      <4>5. ns[k].prev \notin O
        BY <1>1, <1>4, <4>1, <4>3, <4>4
      <4> QED
        BY <4>3, <4>5
    <3>4. Y \subseteq Slots /\ Y # {}
      BY <3>1
    <3> HIDE DEF Y
    <3> QED
      BY <1>1, <3>3, <3>4, Ends
  <2> QED
    BY <2>1, <2>2
<1> QED
  BY <1>3, <1>5, <1>6, <1>7

\* What is not above n is not below it either, when a walk up from it misses n.
LEMMA NotOwned ==
    ASSUME NEW ns, Shape(ns), NEW n \in Slots, NEW p \in Slots,
           NEW T, T \subseteq Slots, n \notin T, StaysAbove(ns, p, T)
    PROVE  T \cap OwnedSubtrees(ns, n) = {}
<1> DEFINE U == T \cap OwnedSubtrees(ns, n)
<1>1. \A m \in U : HostIncludingParent(ns, m) \in U
  <2>1. ASSUME NEW m \in U PROVE HostIncludingParent(ns, m) \in U
    <3>1. HostIncludingParent(ns, m) \in OwnedSubtrees(ns, n)
      BY OwnedBelow
    <3>2. HostIncludingParent(ns, m) # None
      BY <3>1, OwnedBelow, NoneIsNoSlot
    <3> QED
      BY <3>1, <3>2 DEF StaysAbove
  <2> QED
    BY <2>1
<1>2. U \subseteq Slots
  OBVIOUS
<1> HIDE DEF U
<1>3. U = {}
  BY <1>1, <1>2, UpEnds
<1> QED
  BY <1>3 DEF U

\* Rewriting the flag of a whole subtree keeps it exact below its top.
LEMMA Flagged ==
    ASSUME NEW ns, Shape(ns), NEW n \in Slots \ {Document}, NEW b \in BOOLEAN,
           HostIncludingParent(ns, Document) = None,
           \A m \in Slots \ {n} : ExactAt(ns, m), NEW gs, gs = SetConnected(ns, n, b)
    PROVE  /\ gs \in [Slots -> Node] /\ SameLinks(ns, gs) /\ Shape(gs)
           /\ gs[n].connected = b
           /\ \A m \in Slots \ OwnedSubtrees(ns, n) : gs[m].connected = ns[m].connected
           /\ \A m \in Slots \ {n} : ExactAt(gs, m)
<1> DEFINE O == OwnedSubtrees(ns, n)
<1>1. ns \in [Slots -> Node] /\ None \notin Slots
  BY NoneIsNoSlot DEF Shape
<1>2. /\ gs \in [Slots -> Node] /\ SameLinks(ns, gs)
      /\ \A m \in Slots : gs[m].connected = IF m \in O THEN b ELSE ns[m].connected
  BY <1>1, SetFlagFields DEF SetConnected
<1>3. /\ O \subseteq Slots /\ n \in O
      /\ \A m \in Slots \ {n} : m \in O <=> HostIncludingParent(ns, m) \in O
  BY OwnedBelow
<1>4. Document \notin O
  BY <1>1, <1>3, NoneIsNoSlot
<1> HIDE DEF O
<1>5. \A m \in Slots : HostIncludingParent(gs, m) = HostIncludingParent(ns, m)
  BY <1>2 DEF SameLinks, HostIncludingParent
<1>6. ASSUME NEW m \in Slots \ {n} PROVE ExactAt(gs, m)
  <2>1. HostIncludingParent(ns, m) \in Slots \cup {None}
    <3>1. hostOf \in [Slots -> Slots \cup {None}]
      BY DEF Shape
    <3> QED
      BY <1>1, <3>1, Fields DEF HostIncludingParent
  <2>2. CASE m \in O
    <3>1. HostIncludingParent(ns, m) \in O /\ HostIncludingParent(ns, m) # None /\ m # Document
      BY <1>1, <1>3, <1>4, <2>2
    <3> QED
      BY <1>2, <1>3, <1>5, <2>2, <3>1 DEF ExactAt
  <2>3. CASE m \notin O
    <3>1. HostIncludingParent(ns, m) \notin O /\ ExactAt(ns, m)
      BY <1>3, <2>3
    <3> QED
      BY <1>2, <1>5, <2>1, <2>3, <3>1 DEF ExactAt
  <2> QED
    BY <2>2, <2>3
<1>7. Shape(gs)
  BY <1>2, ShapeIsLinks DEF SameLinks
<1> QED
  BY <1>2, <1>3, <1>6, <1>7 DEF O

----------------------------------------------------------------------------
(* The types of what the operations read.                                  *)
Typed == /\ nodes \in [Slots -> Node] /\ len \in 1..MaxNodes
         /\ free \in [Slots -> Nat]
         /\ rootOf \in [Slots -> Slots \cup {None}]
         /\ hostOf \in [Slots -> Slots \cup {None}]

(* What every state satisfies whose tree is intact: the properties and     *)
(* what their proofs need.                                                 *)
IInv ==
    /\ Typed /\ Shape(nodes) /\ SlotsExact
    /\ nodes[Document].kind = "document"
    /\ HostIncludingParent(nodes, Document) = None
    /\ \A m \in Slots : /\ ExactAt(nodes, m)
                        /\ Exists(m) => m < len
                        /\ rootOf[m] # None => nodes[m].kind = "element"

(* A stage of an operation keeps the kinds and the slots without a node.   *)
Keeps(ns, gs) == \A m \in Slots : /\ gs[m].kind = ns[m].kind
                                  /\ ns[m] = Vacant => gs[m] = Vacant

\* A slot without a node is one whose fields say so.
LEMMA VacantFields ==
    ASSUME NEW r \in Node
    PROVE  r = Vacant <=> /\ r.kind = "none" /\ ~r.connected /\ r.parent = None
                          /\ r.first = None /\ r.last = None
                          /\ r.prev = None /\ r.next = None
BY DEF Node, Vacant, Fresh

\* Rewriting a flag keeps the slots without a node.
LEMMA FlagKeeps ==
    ASSUME NEW ns, Shape(ns), NEW n \in Slots, ns[n] # Vacant, NEW b \in BOOLEAN,
           \A m \in Slots : ns[m] = Vacant => hostOf[m] = None
    PROVE  Keeps(ns, SetConnected(ns, n, b))
<1> DEFINE O == OwnedSubtrees(ns, n)
           gs == SetFlag(ns, O, b)
<1>1. ns \in [Slots -> Node] /\ None \notin Slots
  BY NoneIsNoSlot DEF Shape
<1>2. \A m \in Slots : m \notin O => gs[m] = ns[m]
  BY DEF SetFlag
<1>3. SameLinks(ns, gs)
  BY <1>1, SetFlagFields
<1>4. ASSUME NEW m \in Slots, ns[m] = Vacant, m \in O PROVE FALSE
  <2>1. HostIncludingParent(ns, m) \in O /\ O \subseteq Slots
    BY <1>4, OwnedBelow
  <2>2. ns[m].parent = None
    BY <1>4 DEF Vacant, Fresh
  <2> QED
    BY <1>1, <1>4, <2>1, <2>2 DEF HostIncludingParent
<1> HIDE DEF O, gs
<1>5. Keeps(ns, gs)
  BY <1>2, <1>3, <1>4 DEF Keeps, SameLinks
<1> QED
  BY <1>5 DEF gs, O, SetConnected

\* So does taking a node out of its list.
LEMMA UnlinkKeeps ==
    ASSUME NEW ns, Shape(ns), NEW n \in Slots, ns[n] # Vacant
    PROVE  Keeps(ns, Unlink(ns, n))
<1> DEFINE us == Unlink(ns, n)
<1>1. ns \in [Slots -> Node] /\ NeighboursAgree(ns) /\ None \notin Slots
  BY NoneIsNoSlot DEF Shape
<1>2. /\ us \in [Slots -> Node]
      /\ \A m \in Slots :
           /\ us[m].kind = ns[m].kind /\ us[m].connected = ns[m].connected
           /\ m # n =>
              /\ us[m].parent = ns[m].parent
              /\ us[m].next = IF m = ns[n].prev THEN ns[n].next ELSE ns[m].next
              /\ us[m].prev = IF m = ns[n].next THEN ns[n].prev ELSE ns[m].prev
              /\ us[m].first = IF m = ns[n].parent /\ ns[n].prev = None
                               THEN ns[n].next ELSE ns[m].first
              /\ us[m].last = IF m = ns[n].parent /\ ns[n].next = None
                              THEN ns[n].prev ELSE ns[m].last
  BY <1>1, UnlinkFields
<1> HIDE DEF us
<1>3. ASSUME NEW m \in Slots, ns[m] = Vacant PROVE us[m] = Vacant
  <2>1. /\ ns[m].kind = "none" /\ ~ns[m].connected /\ ns[m].parent = None
        /\ ns[m].first = None /\ ns[m].last = None
        /\ ns[m].prev = None /\ ns[m].next = None
    BY <1>3 DEF Vacant, Fresh
  <2>2. m # n /\ m # ns[n].prev /\ m # ns[n].next /\ m # ns[n].parent
    BY <1>1, <1>3, <2>1 DEF NeighboursAgree
  <2>3. us[m] \in Node
    BY <1>2
  <2>4. /\ us[m].kind = "none" /\ ~us[m].connected /\ us[m].parent = None
        /\ us[m].first = None /\ us[m].last = None
        /\ us[m].prev = None /\ us[m].next = None
    BY <1>2, <2>1, <2>2
  <2> QED
    BY <2>3, <2>4, VacantFields
<1> QED
  BY <1>2, <1>3 DEF Keeps, us

\* And putting it into another.
LEMMA InsertedKeeps ==
    ASSUME NEW ns, Shape(ns), NEW p \in Slots, NEW c \in Slots, NEW b, NEW a, NEW ls,
           Gap(ns, p, c, b, a), Inserted(ns, ls, p, c, b, a),
           ns[p] # Vacant, ns[c] # Vacant
    PROVE  Keeps(ns, ls)
<1>1. ns \in [Slots -> Node] /\ None \notin Slots
  BY NoneIsNoSlot DEF Shape
<1>2. /\ ls \in [Slots -> Node]
      /\ \A m \in Slots :
           /\ ls[m].kind = ns[m].kind /\ ls[m].connected = ns[m].connected
           /\ m # c => /\ ls[m].parent = ns[m].parent
                       /\ ls[m].next = IF m = b THEN c ELSE ns[m].next
                       /\ ls[m].prev = IF m = a THEN c ELSE ns[m].prev
                       /\ ls[m].first = IF m = p /\ b = None THEN c ELSE ns[m].first
                       /\ ls[m].last = IF m = p /\ a = None THEN c ELSE ns[m].last
  BY DEF Inserted
<1>3. /\ b # None => ns[b].parent = p
      /\ a # None => ns[a].parent = p
  BY DEF Gap
<1>4. ASSUME NEW m \in Slots, ns[m] = Vacant PROVE ls[m] = Vacant
  <2>1. /\ ns[m].kind = "none" /\ ~ns[m].connected /\ ns[m].parent = None
        /\ ns[m].first = None /\ ns[m].last = None
        /\ ns[m].prev = None /\ ns[m].next = None
    BY <1>4 DEF Vacant, Fresh
  <2>2. m # c /\ m # b /\ m # a /\ m # p
    BY <1>1, <1>3, <1>4, <2>1
  <2>3. ls[m] \in Node
    BY <1>2
  <2>4. /\ ls[m].kind = "none" /\ ~ls[m].connected /\ ls[m].parent = None
        /\ ls[m].first = None /\ ls[m].last = None
        /\ ls[m].prev = None /\ ls[m].next = None
    BY <1>2, <2>1, <2>2
  <2> QED
    BY <2>3, <2>4, VacantFields
<1> QED
  BY <1>2, <1>4 DEF Keeps

\* Where the slots without a node are kept, what is written is what was meant.
LEMMA WrittenIs ==
    ASSUME NEW ns, NEW gs \in [Slots -> Node], Keeps(ns, gs),
           \A m \in Slots : ns[m].kind = "none" => ns[m] = Vacant
    PROVE  Written(ns, gs) = gs
<1>1. \A m \in Slots : Written(ns, gs)[m] = gs[m]
  BY DEF Written, Keeps
<1>2. Written(ns, gs) = [m \in Slots |-> Written(ns, gs)[m]]
  BY DEF Written
<1> QED
  BY <1>1, <1>2

\* So it is with the slots of an intact tree.
LEMMA Overwritten ==
    ASSUME IInv, NEW gs, Shape(gs), Keeps(nodes, gs)
    PROVE  Written(nodes, gs) = gs
BY WrittenIs DEF IInv, SlotsExact, Exists, Shape

\* detach, of a node that is neither the document nor a shadow root: it is in
\* no list, and the flags below every other node are exact.
LEMMA DetachedIs ==
    ASSUME IInv, NEW n \in Slots \ {Document}, Exists(n), ~IsRoot(n), NEW d \in BOOLEAN,
           NEW us, us = Detached(nodes, n, d)
    PROVE  /\ Shape(us) /\ Keeps(nodes, us)
           /\ us[n].parent = None /\ us[n].prev = None /\ us[n].next = None
           /\ us[n].first = nodes[n].first
           /\ d => ~us[n].connected
           /\ ~d => us[n].connected = nodes[n].connected
           /\ \A m \in Slots \ {n} :
                /\ ExactAt(us, m)
                /\ us[m].parent = nodes[m].parent
                /\ us[m].next = IF nodes[m].next = n THEN nodes[n].next
                                                     ELSE nodes[m].next
<1> DEFINE ns == IF d /\ nodes[n].connected THEN SetConnected(nodes, n, FALSE) ELSE nodes
           O == OwnedSubtrees(nodes, n)
<1>1. /\ Shape(nodes) /\ nodes \in [Slots -> Node] /\ None \notin Slots
      /\ NeighboursAgree(nodes) /\ n \in O
  BY NoneIsNoSlot, OwnedBelow DEF IInv, Shape
<1>2. nodes[n] # Vacant /\ \A m \in Slots : nodes[m] = Vacant => hostOf[m] = None
  BY DEF IInv, SlotsExact, Exists, Vacant, Fresh
<1>3. /\ ns \in [Slots -> Node] /\ SameLinks(nodes, ns) /\ Shape(ns) /\ Keeps(nodes, ns)
      /\ ns[n].connected = IF d THEN FALSE ELSE nodes[n].connected
      /\ \A m \in Slots \ O : ns[m].connected = nodes[m].connected
      /\ \A m \in Slots \ {n} : ExactAt(ns, m)
  <2>0. /\ nodes[n].connected \in BOOLEAN /\ HostIncludingParent(nodes, Document) = None
        /\ \A m \in Slots : ExactAt(nodes, m)
    BY <1>1, Fields DEF IInv
  <2>1. CASE d /\ nodes[n].connected
    <3> DEFINE gs == SetConnected(nodes, n, FALSE)
    <3>1. /\ gs \in [Slots -> Node] /\ SameLinks(nodes, gs) /\ Shape(gs)
          /\ gs[n].connected = FALSE
          /\ \A m \in Slots \ O : gs[m].connected = nodes[m].connected
          /\ \A m \in Slots \ {n} : ExactAt(gs, m)
      <4>1. FALSE \in BOOLEAN /\ \A m \in Slots \ {n} : ExactAt(nodes, m)
        BY <2>0
      <4> QED
        BY ONLY <1>1, <2>0, <4>1, Flagged, n \in Slots \ {Document}
    <3>2. Keeps(nodes, gs)
      BY <1>1, <1>2, FlagKeeps
    <3>3. ns = gs
      BY <2>1
    <3> HIDE DEF gs, ns
    <3> QED
      BY <2>1, <3>1, <3>2, <3>3
  <2>2. CASE ~(d /\ nodes[n].connected)
    <3>1. ns = nodes
      BY <2>2
    <3>2. SameLinks(nodes, nodes) /\ Keeps(nodes, nodes)
      BY DEF SameLinks, Keeps
    <3> HIDE DEF ns
    <3> QED
      BY <1>1, <2>0, <2>2, <3>1, <3>2
  <2> QED
    BY <2>1, <2>2
<1>4. us = Unlink(ns, n)
  BY DEF Detached
<1> HIDE DEF ns, O
<1>5. Shape(us) /\ Keeps(ns, us)
  <2>1. ns[n] # Vacant
    BY <1>3 DEF SameLinks, Vacant, Fresh, Exists
  <2> QED
    BY <1>3, <1>4, <2>1, UnlinkShape, UnlinkKeeps
<1>6. /\ us[n].parent = None /\ us[n].prev = None /\ us[n].next = None
      /\ us[n].first = ns[n].first
      /\ \A m \in Slots :
           /\ us[m].connected = ns[m].connected
           /\ m # n => /\ us[m].parent = ns[m].parent
                       /\ us[m].next = IF m = ns[n].prev THEN ns[n].next ELSE ns[m].next
  BY <1>3, <1>4, UnlinkFields
<1>7. Keeps(nodes, us)
  BY <1>3, <1>5 DEF Keeps
<1>8. ASSUME NEW m \in Slots \ {n} PROVE ExactAt(us, m)
  <2>1. HostIncludingParent(us, m) = HostIncludingParent(ns, m)
    BY <1>6 DEF HostIncludingParent
  <2>2. HostIncludingParent(ns, m) \in Slots \cup {None} /\ ExactAt(ns, m)
    BY <1>3, Fields DEF HostIncludingParent, Shape
  <2> QED
    BY <1>6, <2>1, <2>2 DEF ExactAt
<1>9. ASSUME NEW m \in Slots \ {n}
      PROVE  us[m].next = IF nodes[m].next = n THEN nodes[n].next ELSE nodes[m].next
  <2>1. m = nodes[n].prev <=> nodes[m].next = n
    BY <1>1 DEF NeighboursAgree
  <2> QED
    BY <1>3, <1>6, <2>1 DEF SameLinks
<1> QED
  BY <1>3, <1>5, <1>6, <1>7, <1>8, <1>9 DEF SameLinks, O

\* detach leaves the flags of what is not below the node.
LEMMA DetachedElsewhere ==
    ASSUME IInv, NEW n \in Slots \ {Document}, ~IsRoot(n), NEW d \in BOOLEAN,
           NEW m \in Slots, m \notin OwnedSubtrees(nodes, n)
    PROVE  Detached(nodes, n, d)[m].connected = nodes[m].connected
<1> DEFINE ns == IF d /\ nodes[n].connected THEN SetConnected(nodes, n, FALSE) ELSE nodes
           us == Detached(nodes, n, d)
<1>1. us = Unlink(ns, n) /\ m # n
  BY OwnedBelow DEF Detached, IInv
<1>2. ns[m] = nodes[m]
  BY DEF SetConnected, SetFlag
<1> HIDE DEF ns, us
<1>3. us[m].connected = ns[m].connected
  <2> DEFINE r == ns[m]
             q == us[m]
  <2>1. r \in Node
    BY <1>2 DEF IInv, Typed
  <2>2. PICK e, f, g, h :
             q = [r EXCEPT !.next = e, !.prev = f, !.first = g, !.last = h]
    BY <1>1 DEF Unlink
  <2> HIDE DEF r, q
  <2>3. q.connected = r.connected
    BY <2>1, <2>2 DEF Node
  <2> QED
    BY <2>3 DEF r, q
<1> QED
  BY <1>2, <1>3 DEF us

\* would_create_host_including_cycle lets a move pass only where a walk up from
\* the new parent misses the child, the short cut for a leaf included.
LEMMA NoCycle ==
    ASSUME NEW ns, Shape(ns), NEW p \in Slots, NEW c \in Slots, p # c,
           ~WouldCreateCycle(ns, p, c)
    PROVE  \E T \in SUBSET Slots : c \notin T /\ StaysAbove(ns, p, T)
<1>1. CASE \E S \in SUBSET Slots : c \notin S /\ StaysAbove(ns, p, S)
  BY <1>1
<1>2. CASE ~(\E S \in SUBSET Slots : c \notin S /\ StaysAbove(ns, p, S))
  <2> DEFINE T == Slots \ {c}
  <2>1. ns[c].first = None /\ rootOf[c] = None
    BY <1>2 DEF WouldCreateCycle
  <2>2. /\ ns \in [Slots -> Node] /\ NeighboursAgree(ns) /\ Registered(ns)
        /\ hostOf \in [Slots -> Slots \cup {None}] /\ None \notin Slots
    BY NoneIsNoSlot DEF Shape
  <2>3. ASSUME NEW m \in T PROVE HostIncludingParent(ns, m) \in T \cup {None}
    <3>1. ns[m].parent \in Slots \cup {None} /\ hostOf[m] \in Slots \cup {None}
      BY <2>2, Fields
    <3>2. ns[m].parent # c
      BY <2>1, <2>2 DEF NeighboursAgree
    <3>3. hostOf[m] # c
      BY <2>1, <2>2 DEF Registered
    <3> QED
      BY <3>1, <3>2, <3>3 DEF HostIncludingParent
  <2>4. StaysAbove(ns, p, T) /\ c \notin T /\ T \in SUBSET Slots
    BY <2>3 DEF StaysAbove
  <2> QED
    BY <2>4
<1> QED
  BY <1>1, <1>2

(* What follows m once c has left its place.                               *)
Skipped(c, m) == IF nodes[m].next = c THEN nodes[c].next ELSE nodes[m].next

\* append_child and insert_before, from taking the child out to its flag: the
\* invariants hold, and the tree above and beside is what Forest says.
LEMMA Moved ==
    ASSUME IInv, NEW p \in Slots, NEW c \in Slots \ {Document}, p # c,
           Exists(p), Exists(c), ~IsRoot(c), ~WouldCreateCycle(nodes, p, c),
           NEW us, us = TakenOut(c, p), NEW b, NEW a, NEW ls,
           Gap(us, p, c, b, a), Inserted(us, ls, p, c, b, a),
           NEW gs, gs = Settled(ls, c, p)
    PROVE  /\ Shape(gs) /\ Keeps(nodes, gs)
           /\ \A m \in Slots : ExactAt(gs, m)
           /\ \A m \in Slots :
                /\ gs[m].parent = IF m = c THEN p ELSE nodes[m].parent
                /\ gs[m].next = IF m = c THEN a
                                ELSE IF nodes[m].parent = p /\ Skipped(c, m) = a THEN c
                                ELSE Skipped(c, m)
           /\ p \notin OwnedSubtrees(nodes, c)
<1> DEFINE d == nodes[c].connected /\ ~nodes[p].connected
           O == OwnedSubtrees(nodes, c)
<1>1. /\ Shape(nodes) /\ nodes \in [Slots -> Node] /\ None \notin Slots
      /\ hostOf[c] = None /\ HostIncludingParent(nodes, Document) = None
      /\ \A m \in Slots : nodes[m].connected \in BOOLEAN
  BY NoneIsNoSlot, Fields DEF IInv, Shape, IsRoot
<1>2. d \in BOOLEAN /\ us = Detached(nodes, c, d)
  BY <1>1 DEF TakenOut
<1> HIDE DEF d
<1>3. /\ Shape(us) /\ Keeps(nodes, us)
      /\ us[c].parent = None
      /\ (d => ~us[c].connected) /\ (~d => us[c].connected = nodes[c].connected)
      /\ \A m \in Slots \ {c} :
           /\ ExactAt(us, m)
           /\ us[m].parent = nodes[m].parent
           /\ us[m].next = Skipped(c, m)
  <2>1. IInv /\ c \in Slots \ {Document} /\ Exists(c) /\ ~IsRoot(c)
    OBVIOUS
  <2> QED
    BY ONLY <1>2, <2>1, DetachedIs DEF Skipped
<1> PICK T \in SUBSET Slots : c \notin T /\ StaysAbove(nodes, p, T)
  BY <1>1, NoCycle
<1>0. p \notin O
  <2>1. T \cap O = {}
    BY <1>1, NotOwned
  <2> QED
    BY <2>1 DEF StaysAbove
<1>4. us[p].connected = nodes[p].connected
  BY <1>0, <1>2, DetachedElsewhere
<1>5. \A m \in Slots \ {c} : HostIncludingParent(us, m) = HostIncludingParent(nodes, m)
  BY <1>3 DEF HostIncludingParent
<1>6. StaysAbove(us, p, T)
  BY <1>5 DEF StaysAbove
<1>7. Shape(ls)
  BY <1>1, <1>3, <1>6, InsertedShape
<1>8. Keeps(us, ls)
  <2>1. us[p] # Vacant /\ us[c] # Vacant
    BY <1>3 DEF Keeps, Exists, Vacant, Fresh
  <2> QED
    BY <1>3, <2>1, InsertedKeeps
<1>9. Keeps(nodes, ls)
  BY <1>3, <1>8 DEF Keeps
<1>10. /\ ls \in [Slots -> Node] /\ ls[c].parent = p /\ ls[c].next = a
       /\ \A m \in Slots : /\ ls[m].connected = us[m].connected
                           /\ m # c => /\ ls[m].parent = us[m].parent
                                       /\ ls[m].next = IF m = b THEN c ELSE us[m].next
  BY DEF Inserted
<1>11. /\ HostIncludingParent(ls, c) = p
       /\ \A m \in Slots \ {c} : HostIncludingParent(ls, m) = HostIncludingParent(us, m)
  BY <1>1, <1>10 DEF HostIncludingParent
<1>12. \A m \in Slots \ {c} : ExactAt(ls, m)
  <2> SUFFICES ASSUME NEW m \in Slots \ {c} PROVE ExactAt(ls, m)
    OBVIOUS
  <2>1. ExactAt(us, m) /\ HostIncludingParent(us, m) \in Slots \cup {None}
    BY <1>3, Fields DEF Shape, HostIncludingParent
  <2> QED
    BY <1>10, <1>11, <2>1 DEF ExactAt
<1>13. ls[p].connected = nodes[p].connected /\ (d => ~ls[c].connected)
       /\ (~d => ls[c].connected = nodes[c].connected)
  BY <1>3, <1>4, <1>10
<1>14. HostIncludingParent(ls, Document) = None
  BY <1>1, <1>5, <1>11, NoneIsNoSlot
<1>15. /\ Shape(gs) /\ SameLinks(ls, gs) /\ Keeps(nodes, gs)
       /\ \A m \in Slots : ExactAt(gs, m)
  <2>1. CASE nodes[p].connected /\ ~nodes[c].connected
    <3>1. gs = SetConnected(ls, c, TRUE)
      BY <2>1 DEF Settled
    <3>2. TRUE \in BOOLEAN
      OBVIOUS
    <3>3. /\ SameLinks(ls, gs) /\ Shape(gs) /\ gs[c].connected = TRUE
          /\ \A m \in Slots \ {c} : ExactAt(gs, m)
      BY ONLY <1>7, <1>12, <1>14, <3>1, <3>2, Flagged, c \in Slots \ {Document}
    <3>4. Keeps(ls, gs)
      <4>1. ls[c] # Vacant /\ \A m \in Slots : ls[m] = Vacant => hostOf[m] = None
        BY <1>9 DEF Keeps, Exists, Vacant, Fresh, IInv, SlotsExact
      <4> QED
        BY <1>7, <3>1, <3>2, <4>1, FlagKeeps
    <3>5. gs[p].connected
      <4>1. p \notin OwnedSubtrees(ls, c)
        BY <1>7, <1>11, OwnedBelow
      <4>2. gs[p] = ls[p]
        BY <3>1, <4>1 DEF SetConnected, SetFlag
      <4> QED
        BY <1>13, <2>1, <4>2
    <3>6. ExactAt(gs, c)
      <4>1. HostIncludingParent(gs, c) = p
        BY <1>1, <1>10, <3>3 DEF SameLinks, HostIncludingParent
      <4> QED
        BY <1>1, <3>3, <3>5, <4>1 DEF ExactAt
    <3> QED
      BY <1>9, <3>3, <3>4, <3>6 DEF Keeps
  <2>2. CASE ~(nodes[p].connected /\ ~nodes[c].connected)
    <3>1. gs = ls
      BY <2>2 DEF Settled
    <3>2. SameLinks(ls, ls)
      BY DEF SameLinks
    <3>3. ls[c].connected <=> ls[p].connected
      BY <1>1, <1>13, <2>2 DEF d
    <3>4. ExactAt(ls, c)
      BY <1>1, <1>11, <3>3 DEF ExactAt
    <3> QED
      BY <1>7, <1>9, <1>12, <3>1, <3>2, <3>4
  <2> QED
    BY <2>1, <2>2
<1>16. ASSUME NEW m \in Slots \ {c}
       PROVE  m = b <=> us[m].parent = p /\ us[m].next = a
  <2>1. /\ b # None => us[b].next = a /\ us[b].parent = p
        /\ a # None => us[a].prev = b
        /\ a = None => us[p].last = b
        /\ a \in Slots \cup {None}
    BY DEF Gap
  <2>2. NeighboursAgree(us)
    BY <1>3 DEF Shape
  <2> QED
    BY <1>1, <2>1, <2>2 DEF NeighboursAgree
<1>17. b # c
  BY DEF Gap
<1> QED
  BY <1>0, <1>3, <1>10, <1>15, <1>16, <1>17 DEF SameLinks

----------------------------------------------------------------------------
\* What an operation that leaves the registries and the free list must show.
LEMMA KeptInv ==
    ASSUME IInv, Shape(nodes'), Keeps(nodes, nodes'),
           \A m \in Slots : ExactAt(nodes', m),
           HostIncludingParent(nodes', Document) = None,
           UNCHANGED <<len, free, rootOf, hostOf>>
    PROVE  IInv'
<1>1. /\ \A m \in Slots : nodes'[m].kind = nodes[m].kind
      /\ \A m \in Slots : nodes[m] = Vacant => nodes'[m] = Vacant
      /\ nodes' \in [Slots -> Node]
  BY DEF Keeps, Shape
<1>2. Typed'
  BY <1>1 DEF IInv, Typed
<1>3. Shape(nodes)'
  BY DEF Shape, NeighboursAgree, ListsEnd, WalksUpEnd, HostIncludingParent, Registered
<1>4. SlotsExact'
  <2>1. Registered(nodes')
    BY DEF Shape
  <2> QED
    BY <1>1, <2>1 DEF IInv, SlotsExact, Exists, Registered
<1>5. \A m \in Slots : ExactAt(nodes, m)'
  BY DEF ExactAt, HostIncludingParent
<1>6. nodes'[Document].kind = "document" /\ HostIncludingParent(nodes, Document)' = None
  BY <1>1, NoneIsNoSlot DEF IInv, HostIncludingParent
<1> QED
  BY <1>1, <1>2, <1>3, <1>4, <1>5, <1>6 DEF IInv, Exists

(* c has come between the children of p: in front of ref, or at the end.   *)
Placed(p, c, ref) ==
    \A m \in Slots : /\ nodes'[m].parent = IF m = c THEN p ELSE nodes[m].parent
                     /\ nodes'[m].next = IF m = c THEN ref
                                         ELSE IF nodes[m].parent = p /\ Skipped(c, m) = ref
                                              THEN c
                                         ELSE Skipped(c, m)

\* append_child.
LEMMA Appended ==
    ASSUME IInv, intact', NEW p \in Slots, NEW c \in Slots, AppendChild(p, c)
    PROVE  /\ c # Document /\ p # c
           /\ Shape(nodes') /\ Keeps(nodes, nodes')
           /\ \A m \in Slots : ExactAt(nodes', m)
           /\ Placed(p, c, None)
           /\ p \notin OwnedSubtrees(nodes, c)
<1> DEFINE d == nodes[c].connected /\ ~nodes[p].connected
           us == TakenOut(c, p)
           ls == LinkLast(us, p, c)
           b  == us[p].last
           gs == Settled(ls, c, p)
<1>1. /\ p # c /\ Exists(p) /\ Exists(c) /\ ~IsRoot(c) /\ ~WouldCreateCycle(nodes, p, c)
      /\ nodes' = Written(nodes, gs)
  BY DEF AppendChild
<1>2. c \in Slots \ {Document}
  BY DEF AppendChild
<1>3. Shape(us) /\ us[c].parent = None /\ us[c].prev = None /\ us[c].next = None
  <2>1. d \in BOOLEAN /\ us = Detached(nodes, c, d)
    BY Fields DEF IInv, Shape, TakenOut
  <2> HIDE DEF d, us
  <2> QED
    BY <1>1, <1>2, <2>1, DetachedIs
<1>4. Gap(us, p, c, b, None) /\ Inserted(us, ls, p, c, b, None)
  <2> HIDE DEF us
  <2> QED
    BY <1>1, <1>3, LinkLastInserts
<1>5. us = TakenOut(c, p) /\ gs = Settled(ls, c, p)
  OBVIOUS
<1> HIDE DEF us, ls, b, d, gs
<1>6. /\ Shape(gs) /\ Keeps(nodes, gs)
      /\ \A m \in Slots : ExactAt(gs, m)
      /\ \A m \in Slots :
           /\ gs[m].parent = IF m = c THEN p ELSE nodes[m].parent
           /\ gs[m].next = IF m = c THEN None
                           ELSE IF nodes[m].parent = p /\ Skipped(c, m) = None THEN c
                           ELSE Skipped(c, m)
      /\ p \notin OwnedSubtrees(nodes, c)
  BY ONLY IInv, p \in Slots, <1>1, <1>2, <1>4, <1>5, Moved
<1>7. nodes' = gs
  BY <1>1, <1>6, Overwritten
<1> QED
  BY <1>1, <1>2, <1>6, <1>7 DEF Placed

\* insert_before.
LEMMA InsertedInFront ==
    ASSUME IInv, intact', NEW ref \in Slots, NEW c \in Slots,
           NEW p, p = nodes[ref].parent, InsertBefore(ref, c)
    PROVE  /\ p \in Slots /\ c # Document /\ p # c /\ ref # c /\ Exists(p)
           /\ Shape(nodes') /\ Keeps(nodes, nodes')
           /\ \A m \in Slots : ExactAt(nodes', m)
           /\ Placed(p, c, ref)
           /\ p \notin OwnedSubtrees(nodes, c)
<1>p. /\ p \in Slots /\ ~WouldCreateCycle(nodes, p, c)
      /\ nodes' = Written(nodes, Settled(LinkBefore(TakenOut(c, p), p, c, ref), c, p))
  BY DEF InsertBefore
<1> DEFINE d == nodes[c].connected /\ ~nodes[p].connected
           us == TakenOut(c, p)
           ls == LinkBefore(us, p, c, ref)
           b  == us[ref].prev
           gs == Settled(ls, c, p)
<1>0. nodes[p].first # None /\ None \notin Slots
  BY <1>p, NoneIsNoSlot DEF IInv, Shape, NeighboursAgree
<1>1. /\ p # c /\ ref # c /\ Exists(p) /\ Exists(c) /\ ~IsRoot(c)
      /\ ~WouldCreateCycle(nodes, p, c)
      /\ nodes' = Written(nodes, gs)
  <2>1. /\ ref # c /\ Exists(c) /\ ~IsRoot(c)
    BY DEF InsertBefore
  <2>2. Exists(p)
    BY <1>0, <1>p DEF IInv, SlotsExact, Vacant, Fresh
  <2>3. p # c
    BY <1>0, <1>p DEF WouldCreateCycle, StaysAbove
  <2> QED
    BY <1>p, <2>1, <2>2, <2>3
<1>2. c \in Slots \ {Document}
  BY DEF InsertBefore
<1>3. /\ Shape(us) /\ us[c].parent = None /\ us[c].prev = None /\ us[c].next = None
      /\ us[ref].parent = p
  <2>1. d \in BOOLEAN /\ us = Detached(nodes, c, d)
    BY <1>p, Fields DEF IInv, Shape, TakenOut
  <2> HIDE DEF d, us
  <2> QED
    BY <1>1, <1>2, <2>1, DetachedIs
<1>4. Gap(us, p, c, b, ref) /\ Inserted(us, ls, p, c, b, ref)
  <2> HIDE DEF us
  <2> QED
    BY <1>p, <1>1, <1>3, LinkBeforeInserts
<1>5. us = TakenOut(c, p) /\ gs = Settled(ls, c, p)
  OBVIOUS
<1> HIDE DEF us, ls, b, d, gs
<1>6. /\ Shape(gs) /\ Keeps(nodes, gs)
      /\ \A m \in Slots : ExactAt(gs, m)
      /\ \A m \in Slots :
           /\ gs[m].parent = IF m = c THEN p ELSE nodes[m].parent
           /\ gs[m].next = IF m = c THEN ref
                           ELSE IF nodes[m].parent = p /\ Skipped(c, m) = ref THEN c
                           ELSE Skipped(c, m)
      /\ p \notin OwnedSubtrees(nodes, c)
  BY ONLY IInv, <1>p, <1>1, <1>2, <1>4, <1>5, Moved
<1>7. nodes' = gs
  BY <1>1, <1>6, Overwritten
<1> QED
  BY <1>p, <1>1, <1>2, <1>6, <1>7 DEF Placed

\* Either keeps the invariant.
LEMMA MovesKeepInv ==
    ASSUME IInv, intact', NEW p \in Slots, NEW c \in Slots,
           AppendChild(p, c) \/ InsertBefore(p, c)
    PROVE  IInv'
<1>1. UNCHANGED <<len, free, rootOf, hostOf>>
  BY DEF AppendChild, InsertBefore
<1>2. /\ c # Document /\ Shape(nodes') /\ Keeps(nodes, nodes')
      /\ \A m \in Slots : ExactAt(nodes', m)
      /\ \A m \in Slots : m # c => nodes'[m].parent = nodes[m].parent
  <2>1. CASE AppendChild(p, c)
    BY <2>1, Appended DEF Placed
  <2>2. CASE InsertBefore(p, c)
    BY <2>2, InsertedInFront DEF Placed
  <2> QED
    BY <2>1, <2>2
<1>3. HostIncludingParent(nodes', Document) = None
  BY <1>2, NoneIsNoSlot DEF IInv, HostIncludingParent
<1> QED
  BY <1>1, <1>2, <1>3, KeptInv

\* detach.
LEMMA DetachKeepsInv ==
    ASSUME IInv, NEW n \in Slots, Detach(n)
    PROVE  IInv'
<1>1. /\ Exists(n) /\ UNCHANGED <<len, free, rootOf, hostOf>>
      /\ nodes' = Written(nodes, Detached(nodes, n, TRUE))
  BY DEF Detach
<1>2. CASE n = Document \/ IsRoot(n)
  <2>2. Keeps(nodes, nodes)
    BY DEF Keeps
  <2>1. nodes' = nodes
    BY <1>1, <1>2, <2>2, Overwritten DEF Detached, IInv
  <2> QED
    BY <1>1, <2>1, <2>2, KeptInv DEF IInv
<1>3. CASE n # Document /\ ~IsRoot(n)
  <2>1. n \in Slots \ {Document} /\ TRUE \in BOOLEAN
    BY <1>3
  <2>2. /\ Shape(nodes') /\ Keeps(nodes, nodes')
        /\ nodes'[n].parent = None /\ ~nodes'[n].connected
        /\ \A m \in Slots \ {n} : /\ ExactAt(nodes', m)
                                  /\ nodes'[m].parent = nodes[m].parent
    <3> PICK d \in BOOLEAN : d
      BY TRUE \in BOOLEAN
    <3> DEFINE us == Detached(nodes, n, d)
    <3>2. /\ Shape(us) /\ Keeps(nodes, us)
          /\ us[n].parent = None /\ (d => ~us[n].connected)
          /\ \A m \in Slots \ {n} : /\ ExactAt(us, m)
                                    /\ us[m].parent = nodes[m].parent
      <4> HIDE DEF us
      <4>1. us = Detached(nodes, n, d)
        BY DEF us
      <4> QED
        BY ONLY IInv, <1>1, <1>3, <2>1, <4>1, d \in BOOLEAN, DetachedIs
    <3>1. nodes' = us
      BY <1>1, <3>2, Overwritten
    <3> HIDE DEF us
    <3> QED
      BY <3>1, <3>2
  <2>3. ExactAt(nodes', n)
    BY <1>3, <2>2 DEF ExactAt, HostIncludingParent, IsRoot
  <2>4. HostIncludingParent(nodes', Document) = None
    BY <1>3, <2>2, NoneIsNoSlot DEF IInv, HostIncludingParent
  <2> QED
    BY <1>1, <2>2, <2>3, <2>4, KeptInv
<1> QED
  BY <1>2, <1>3

\* A slot that is handed out holds no node, and no registry names it.
LEMMA Allocated ==
    ASSUME IInv, NEW n \in Slots, Allocate(n)
    PROVE  /\ nodes[n] = Vacant /\ rootOf[n] = None /\ hostOf[n] = None /\ n # Document
           /\ len' \in 1..MaxNodes /\ free' \in [Slots -> Nat]
           /\ len <= len' /\ n < len'
           /\ \A m \in Slots : free'[m] = IF m = n THEN 0
                                          ELSE IF m < len' /\ ~Exists(m) THEN 1 ELSE 0
<1>1. /\ len \in 1..MaxNodes /\ free \in [Slots -> Nat] /\ Slots \subseteq Int
      /\ MaxNodes \in Nat
      /\ \A m \in Slots : /\ free[m] = IF m < len /\ ~Exists(m) THEN 1 ELSE 0
                          /\ Exists(m) => m < len
      /\ n <= MaxNodes - 1
  BY DomTreeAssumption DEF IInv, Typed, SlotsExact, Slots
<1>2. CASE free[n] > 0 /\ free' = [free EXCEPT ![n] = @ - 1] /\ UNCHANGED len
  <2>1. free[n] = 1 /\ n < len /\ ~Exists(n)
    BY <1>1, <1>2
  <2>2. free'[n] = 0 /\ \A m \in Slots \ {n} : free'[m] = free[m]
    BY <1>1, <1>2, <2>1
  <2>3. free' \in [Slots -> Nat]
    BY <1>1, <1>2, <2>1
  <2> QED
    BY <1>1, <1>2, <2>1, <2>2, <2>3 DEF IInv, SlotsExact, Exists
<1>3. CASE (\A m \in Slots : free[m] = 0) /\ n = len /\ len' = len + 1 /\ UNCHANGED free
  <2>1. ~Exists(n) /\ len' \in 1..MaxNodes /\ len <= len' /\ n < len'
    BY <1>1, <1>3
  <2>2. \A m \in Slots : m < len' <=> m < len \/ m = n
    BY <1>1, <1>3
  <2> QED
    BY <1>1, <1>3, <2>1, <2>2 DEF IInv, SlotsExact, Exists
<1> QED
  BY <1>2, <1>3 DEF Allocate

\* new_node.
LEMMA NewNodeKeepsInv ==
    ASSUME IInv, NEW n \in Slots, NEW kind \in {"element", "document"}, NewNode(n, kind)
    PROVE  IInv'
<1>1. /\ nodes' = [nodes EXCEPT ![n] = Fresh(kind)] /\ UNCHANGED <<rootOf, hostOf>>
      /\ nodes[n] = Vacant /\ rootOf[n] = None /\ hostOf[n] = None /\ n # Document
      /\ len' \in 1..MaxNodes /\ free' \in [Slots -> Nat]
      /\ len <= len' /\ n < len'
      /\ \A m \in Slots : free'[m] = IF m = n THEN 0
                                     ELSE IF m < len' /\ ~Exists(m) THEN 1 ELSE 0
  BY Allocated DEF NewNode
<1>2. Fresh(kind) \in Node
  BY DEF Fresh, Node
<1>3. /\ nodes' \in [Slots -> Node]
      /\ \A m \in Slots :
           /\ nodes'[m].parent = nodes[m].parent
           /\ nodes'[m].first = nodes[m].first /\ nodes'[m].last = nodes[m].last
           /\ nodes'[m].prev = nodes[m].prev /\ nodes'[m].next = nodes[m].next
           /\ nodes'[m].connected = nodes[m].connected
      /\ nodes'[n].kind = kind
      /\ \A m \in Slots \ {n} : nodes'[m] = nodes[m]
  <2>1. nodes \in [Slots -> Node]
    BY DEF IInv, Typed
  <2>2. nodes'[n] = Fresh(kind) /\ \A m \in Slots \ {n} : nodes'[m] = nodes[m]
    BY <1>1, <2>1
  <2>3. /\ nodes'[n].parent = nodes[n].parent
        /\ nodes'[n].first = nodes[n].first /\ nodes'[n].last = nodes[n].last
        /\ nodes'[n].prev = nodes[n].prev /\ nodes'[n].next = nodes[n].next
        /\ nodes'[n].connected = nodes[n].connected /\ nodes'[n].kind = kind
    <3>1. nodes[n] = Vacant /\ nodes'[n] = Fresh(kind)
      BY <1>1, <2>2
    <3> QED
      BY ONLY <3>1 DEF Vacant, Fresh
  <2>4. nodes' \in [Slots -> Node]
    BY <1>1, <1>2, <2>1
  <2> QED
    BY <2>2, <2>3, <2>4
<1>4. Shape(nodes')
  BY <1>3, ShapeIsLinks DEF IInv
<1>5. Shape(nodes)'
  BY <1>1, <1>4
     DEF Shape, NeighboursAgree, ListsEnd, WalksUpEnd, HostIncludingParent, Registered
<1>6. Typed'
  BY <1>1, <1>3 DEF IInv, Typed
<1>7. SlotsExact'
  <2>1. \A m \in Slots : Exists(m)' <=> Exists(m) \/ m = n
    BY <1>1, <1>3 DEF Exists
  <2>2. \A m \in Slots : free'[m] = IF m < len' /\ ~Exists(m)' THEN 1 ELSE 0
    BY <1>1, <2>1
  <2>3. Registered(nodes')
    BY <1>4 DEF Shape
  <2> QED
    BY <1>1, <1>3, <2>1, <2>2, <2>3 DEF IInv, SlotsExact, Registered
<1>8. \A m \in Slots : ExactAt(nodes, m)'
  <2> SUFFICES ASSUME NEW m \in Slots PROVE ExactAt(nodes, m)'
    OBVIOUS
  <2>1. HostIncludingParent(nodes, m)' = HostIncludingParent(nodes, m)
    BY <1>1, <1>3 DEF HostIncludingParent
  <2>2. ExactAt(nodes, m) /\ HostIncludingParent(nodes, m) \in Slots \cup {None}
    BY Fields DEF IInv, Shape, HostIncludingParent
  <2> QED
    BY <1>3, <2>1, <2>2 DEF ExactAt
<1>9. nodes'[Document].kind = "document" /\ HostIncludingParent(nodes, Document)' = None
  BY <1>1, <1>3, NoneIsNoSlot DEF IInv, HostIncludingParent
<1>10. \A m \in Slots : Exists(m)' => m < len'
  <2>1. Slots \subseteq Int /\ len \in Int /\ len' \in Int
    BY <1>1, DomTreeAssumption DEF IInv, Typed, Slots
  <2> QED
    BY <1>1, <1>3, <2>1 DEF IInv, Exists
<1>11. \A m \in Slots : rootOf'[m] # None => nodes'[m].kind = "element"
  BY <1>1, <1>3 DEF IInv
<1> QED
  BY <1>5, <1>6, <1>7, <1>8, <1>9, <1>10, <1>11 DEF IInv

\* detach of any node but the document: a shadow root stays where it is.
LEMMA DetachedAny ==
    ASSUME IInv, NEW n \in Slots \ {Document}, Exists(n),
           NEW us, us = Detached(nodes, n, TRUE)
    PROVE  /\ Shape(us) /\ Keeps(nodes, us) /\ us[n].parent = None
           /\ \A m \in Slots \ {n} : /\ ExactAt(us, m)
                                     /\ us[m].parent = nodes[m].parent
                                     /\ us[m].next = Skipped(n, m)
<1>1. CASE IsRoot(n)
  <2>1. us = nodes
    BY <1>1 DEF Detached
  <2>2. nodes[n].parent = None /\ \A m \in Slots : nodes[m].next # n
    BY <1>1, NoneIsNoSlot DEF IsRoot, IInv, Shape, Registered, NeighboursAgree
  <2> QED
    BY <2>1, <2>2 DEF IInv, Keeps, Skipped
<1>2. CASE ~IsRoot(n)
  <2> PICK d \in BOOLEAN : d
    BY TRUE \in BOOLEAN
  <2>1. us = Detached(nodes, n, d)
    OBVIOUS
  <2>2. IInv /\ n \in Slots \ {Document} /\ Exists(n)
    OBVIOUS
  <2> QED
    BY ONLY <1>2, <2>1, <2>2, d \in BOOLEAN, DetachedIs DEF Skipped
<1> QED
  BY <1>1, <1>2

(* gone is live and cut off from the rest of us.                           *)
Apart(us, n, gone) ==
    /\ gone \subseteq Slots /\ n \in gone /\ Document \notin gone
    /\ \A m \in gone : Exists(m)
    /\ \A m \in Slots \ gone : /\ us[m].parent \notin gone /\ us[m].first \notin gone
                               /\ us[m].last \notin gone /\ us[m].prev \notin gone
                               /\ us[m].next \notin gone /\ hostOf[m] \notin gone
    /\ \A m \in Slots \ {n} : HostIncludingParent(us, m) = HostIncludingParent(nodes, m)

\* What remove vacates is closed below, and no link leads into it from outside.
LEMMA Gone ==
    ASSUME IInv, NEW n \in Slots \ {Document}, Exists(n), NEW us,
           us = Detached(nodes, n, TRUE), NEW gone, gone = OwnedSubtrees(nodes, n)
    PROVE  Apart(us, n, gone)
<1>1. /\ Shape(us) /\ Keeps(nodes, us) /\ us[n].parent = None
      /\ \A m \in Slots \ {n} : us[m].parent = nodes[m].parent
  BY DetachedAny
<1>2. /\ gone \subseteq Slots /\ n \in gone
      /\ \A m \in Slots \ {n} : m \in gone <=> HostIncludingParent(nodes, m) \in gone
  BY OwnedBelow DEF IInv
<1>3. None \notin Slots /\ None \notin gone /\ Document \in Slots
  BY <1>2, NoneIsNoSlot
<1>4. \A m \in Slots \ {n} : HostIncludingParent(us, m) = HostIncludingParent(nodes, m)
  BY <1>1 DEF HostIncludingParent
<1>5. Document \notin gone
  BY <1>2, <1>3 DEF IInv
<1>6. \A m \in gone : Exists(m)
  <2>1. ASSUME NEW m \in gone, ~Exists(m) PROVE FALSE
    <3>1. m # n /\ m \in Slots
      BY <1>2, <2>1
    <3>2. nodes[m].parent = None /\ hostOf[m] = None
      BY <2>1, <3>1 DEF IInv, SlotsExact, Vacant, Fresh
    <3> QED
      BY <1>2, <1>3, <2>1, <3>1, <3>2 DEF HostIncludingParent
  <2> QED
    BY <2>1
<1>7. ASSUME NEW m \in Slots \ gone
      PROVE  /\ us[m].parent \notin gone /\ us[m].first \notin gone
             /\ us[m].last \notin gone /\ us[m].prev \notin gone
             /\ us[m].next \notin gone /\ hostOf[m] \notin gone
  <2>0. m \in Slots \ {n} /\ HostIncludingParent(us, m) \notin gone
    BY <1>2, <1>4
  <2>1. us[m].parent \notin gone
    BY <1>3, <2>0 DEF HostIncludingParent
  <2>2. hostOf[m] \notin gone
    <3>1. hostOf[m] # None => us[m].parent = None
      BY <1>1 DEF Shape, Registered
    <3> QED
      BY <1>3, <2>0, <3>1 DEF HostIncludingParent
  <2>3. ASSUME NEW k \in gone, us[k].parent # None PROVE us[k].parent \in gone
    BY <1>1, <1>2, <1>4, <2>3 DEF HostIncludingParent
  <2>4. /\ us[m].first # None => us[us[m].first].parent = m
        /\ us[m].last # None => us[us[m].last].parent = m
        /\ us[m].prev # None => /\ us[us[m].prev].parent = us[m].parent
                                /\ us[m].parent # None
        /\ us[m].next # None => /\ us[us[m].next].parent = us[m].parent
                                /\ us[m].parent # None
    BY <1>1 DEF Shape, NeighboursAgree
  <2>5. us[m].first \notin gone /\ us[m].last \notin gone
    BY <1>3, <1>7, <2>3, <2>4
  <2>6. us[m].prev \notin gone /\ us[m].next \notin gone
    BY <1>3, <1>7, <2>1, <2>3, <2>4
  <2> QED
    BY <2>1, <2>2, <2>5, <2>6
<1> QED
  BY <1>2, <1>4, <1>5, <1>6, <1>7 DEF Apart

\* remove.
LEMMA RemoveKeepsInv ==
    ASSUME IInv, intact', NEW n \in Slots, RemoveNode(n)
    PROVE  IInv'
<1> PICK us : us = Detached(nodes, n, TRUE)
  OBVIOUS
<1> PICK gone : gone = OwnedSubtrees(nodes, n)
  OBVIOUS
<1>0. /\ n \in Slots \ {Document} /\ Exists(n)
  BY DEF RemoveNode
<1>00. Written(nodes, us) = us
  BY <1>0, DetachedAny, Overwritten
<1>1. /\ n \in Slots \ {Document} /\ Exists(n) /\ UNCHANGED len
      /\ nodes' = [m \in Slots |-> IF m \in gone THEN Vacant ELSE us[m]]
      /\ free' = [m \in Slots |-> IF m \in gone /\ Exists(m) THEN free[m] + 1 ELSE free[m]]
      /\ rootOf' = [m \in Slots |-> IF m \in gone \/ rootOf[m] \in gone THEN None ELSE rootOf[m]]
      /\ hostOf' = [m \in Slots |-> IF m \in gone \/ hostOf[m] \in gone THEN None ELSE hostOf[m]]
  BY <1>0, <1>00 DEF RemoveNode, Vacate
<1>2. /\ Shape(us) /\ Keeps(nodes, us)
      /\ \A m \in Slots \ {n} : ExactAt(us, m)
  BY <1>1, DetachedAny
<1>3. /\ gone \subseteq Slots /\ n \in gone /\ Document \notin gone
      /\ \A m \in gone : Exists(m)
      /\ \A m \in Slots \ gone :
           /\ us[m].parent \notin gone /\ us[m].first \notin gone
           /\ us[m].last \notin gone /\ us[m].prev \notin gone
           /\ us[m].next \notin gone /\ hostOf[m] \notin gone
      /\ \A m \in Slots \ {n} : HostIncludingParent(us, m) = HostIncludingParent(nodes, m)
  <2>1. /\ IInv /\ us = Detached(nodes, n, TRUE)
        /\ gone = OwnedSubtrees(nodes, n)
    OBVIOUS
  <2>2. Apart(us, n, gone)
    BY ONLY <1>1, <2>1, Gone
  <2> QED
    BY <2>2 DEF Apart
<1>4. /\ us \in [Slots -> Node] /\ rootOf \in [Slots -> Slots \cup {None}]
      /\ hostOf \in [Slots -> Slots \cup {None}] /\ None \notin Slots
      /\ Document \in Slots
  BY <1>2, NoneIsNoSlot DEF Shape
<1>5. /\ Vacant \in Node /\ Vacant.parent = None /\ Vacant.first = None
      /\ Vacant.last = None /\ Vacant.prev = None /\ Vacant.next = None
      /\ ~Vacant.connected /\ Vacant.kind = "none"
  BY DEF Vacant, Fresh, Node
<1>6. /\ \A m \in gone : nodes'[m] = Vacant /\ rootOf'[m] = None /\ hostOf'[m] = None
      /\ \A m \in Slots \ gone : nodes'[m] = us[m] /\ hostOf'[m] = hostOf[m]
      /\ nodes' \in [Slots -> Node]
      /\ rootOf' \in [Slots -> Slots \cup {None}]
      /\ hostOf' \in [Slots -> Slots \cup {None}]
  BY <1>1, <1>3, <1>4, <1>5
<1>7. NeighboursAgree(nodes')
  <2> SUFFICES ASSUME NEW m \in Slots
      PROVE  /\ nodes'[m].prev # None =>
                   /\ nodes'[nodes'[m].prev].next = m /\ nodes'[m].parent # None
                   /\ nodes'[nodes'[m].prev].parent = nodes'[m].parent
             /\ nodes'[m].next # None =>
                   /\ nodes'[nodes'[m].next].prev = m /\ nodes'[m].parent # None
                   /\ nodes'[nodes'[m].next].parent = nodes'[m].parent
             /\ nodes'[m].parent # None =>
                   /\ nodes'[nodes'[m].parent].first # None
                   /\ nodes'[m].prev = None => nodes'[nodes'[m].parent].first = m
                   /\ nodes'[m].next = None => nodes'[nodes'[m].parent].last = m
             /\ nodes'[m].first # None => /\ nodes'[nodes'[m].first].parent = m
                                          /\ nodes'[nodes'[m].first].prev = None
             /\ nodes'[m].last # None => /\ nodes'[nodes'[m].last].parent = m
                                         /\ nodes'[nodes'[m].last].next = None
             /\ nodes'[m].first = None <=> nodes'[m].last = None
    BY DEF NeighboursAgree
  <2>1. CASE m \in gone
    BY <1>5, <1>6, <2>1
  <2>2. CASE m \notin gone
    <3>1. /\ us[m].prev \in (Slots \ gone) \cup {None}
          /\ us[m].next \in (Slots \ gone) \cup {None}
          /\ us[m].parent \in (Slots \ gone) \cup {None}
          /\ us[m].first \in (Slots \ gone) \cup {None}
          /\ us[m].last \in (Slots \ gone) \cup {None}
      BY <1>3, <1>4, <2>2, Fields
    <3>2. nodes'[m] = us[m] /\ \A k \in (Slots \ gone) : nodes'[k] = us[k]
      BY <1>6, <2>2
    <3>3. /\ us[m].prev # None => /\ us[us[m].prev].next = m /\ us[m].parent # None
                                  /\ us[us[m].prev].parent = us[m].parent
          /\ us[m].next # None => /\ us[us[m].next].prev = m /\ us[m].parent # None
                                  /\ us[us[m].next].parent = us[m].parent
          /\ us[m].parent # None => /\ us[us[m].parent].first # None
                                    /\ us[m].prev = None => us[us[m].parent].first = m
                                    /\ us[m].next = None => us[us[m].parent].last = m
          /\ us[m].first # None => us[us[m].first].parent = m /\ us[us[m].first].prev = None
          /\ us[m].last # None => us[us[m].last].parent = m /\ us[us[m].last].next = None
          /\ us[m].first = None <=> us[m].last = None
      BY <1>2 DEF Shape, NeighboursAgree
    <3> QED
      BY ONLY <3>1, <3>2, <3>3
  <2> QED
    BY <2>1, <2>2
<1>8. ListsEnd(nodes')
  <2> SUFFICES ASSUME NEW S \in SUBSET Slots, S # {}
               PROVE  /\ \E m \in S : nodes'[m].next \notin S
                      /\ \E m \in S : nodes'[m].prev \notin S
    BY DEF ListsEnd
  <2>1. CASE S \cap gone = {}
    <3>1. \A m \in S : nodes'[m] = us[m]
      BY <1>6, <2>1
    <3>2. ListsEnd(us)
      BY <1>2 DEF Shape
    <3> QED
      BY <3>1, <3>2, Ends
  <2>2. CASE S \cap gone # {}
    BY <1>4, <1>5, <1>6, <2>2
  <2> QED
    BY <2>1, <2>2
<1>9. /\ \A m \in gone : HostIncludingParent(nodes, m)' = None
      /\ \A m \in Slots \ gone : HostIncludingParent(nodes, m)' = HostIncludingParent(us, m)
  BY <1>5, <1>6 DEF HostIncludingParent
<1>10. WalksUpEnd(nodes)'
  <2> SUFFICES ASSUME NEW S \in SUBSET Slots, S # {},
                      \A m \in S : HostIncludingParent(nodes, m)' \in S
               PROVE  FALSE
    BY DEF WalksUpEnd
  <2>1. S \cap gone = {}
    BY <1>4, <1>9
  <2>2. \A m \in S : HostIncludingParent(us, m) \in S
    BY <1>9, <2>1
  <2> QED
    BY <1>2, <2>2, UpEnds
<1>11. Registered(nodes)'
  <2>1. Registered(us)
    BY <1>2 DEF Shape
  <2>2. ASSUME NEW m \in Slots, rootOf'[m] # None PROVE hostOf'[rootOf'[m]] = m
    <3>1. rootOf'[m] = rootOf[m] /\ rootOf[m] \in Slots \ gone
      BY <1>1, <1>4, <2>2
    <3> QED
      BY <1>6, <2>1, <2>2, <3>1 DEF Registered
  <2>3. ASSUME NEW m \in Slots, hostOf'[m] # None
        PROVE  rootOf'[hostOf'[m]] = m /\ nodes'[m].parent = None
    <3>1. m \notin gone /\ hostOf'[m] = hostOf[m] /\ hostOf[m] \in Slots \ gone
      BY <1>3, <1>4, <1>6, <2>3
    <3>2. rootOf[hostOf[m]] = m /\ us[m].parent = None
      BY <2>1, <2>3, <3>1 DEF Registered
    <3>3. rootOf'[hostOf[m]] = m
      BY <1>1, <3>1, <3>2
    <3> QED
      BY <1>6, <3>1, <3>2, <3>3
  <2> QED
    BY <2>2, <2>3 DEF Registered
<1>12. Shape(nodes)'
  <2>1. NeighboursAgree(nodes)' /\ ListsEnd(nodes)'
    BY <1>7, <1>8 DEF NeighboursAgree, ListsEnd
  <2> QED
    BY <1>6, <1>10, <1>11, <2>1 DEF Shape
<1>13. Typed'
  <2>1. free' \in [Slots -> Nat]
    BY <1>1 DEF IInv, Typed
  <2> QED
    BY <1>1, <1>6, <2>1 DEF IInv, Typed
<1>14. \A m \in Slots : Exists(m)' <=> Exists(m) /\ m \notin gone
  BY <1>2, <1>5, <1>6 DEF Exists, Keeps
<1>15. SlotsExact'
  <2> SUFFICES ASSUME NEW m \in Slots
      PROVE  /\ free'[m] = IF m < len' /\ ~Exists(m)' THEN 1 ELSE 0
             /\ ~Exists(m)' => /\ nodes'[m] = Vacant /\ rootOf'[m] = None
                               /\ hostOf'[m] = None
             /\ rootOf'[m] # None => hostOf'[rootOf'[m]] = m
             /\ hostOf'[m] # None => rootOf'[hostOf'[m]] = m /\ nodes'[m].parent = None
    BY DEF SlotsExact
  <2>1. free'[m] = IF m < len' /\ ~Exists(m)' THEN 1 ELSE 0
    BY <1>1, <1>3, <1>14 DEF IInv, SlotsExact
  <2>2. ~Exists(m)' => nodes'[m] = Vacant /\ rootOf'[m] = None /\ hostOf'[m] = None
    <3>1. CASE m \in gone
      BY <1>6, <3>1
    <3>2. CASE m \notin gone
      BY <1>1, <1>2, <1>6, <1>14, <3>2 DEF IInv, SlotsExact, Keeps
    <3> QED
      BY <3>1, <3>2
  <2> QED
    BY <1>11, <2>1, <2>2 DEF Registered
<1>16. \A m \in Slots : ExactAt(nodes, m)'
  <2> SUFFICES ASSUME NEW m \in Slots PROVE ExactAt(nodes, m)'
    OBVIOUS
  <2>1. CASE m \in gone
    BY <1>3, <1>5, <1>6, <1>9, <2>1 DEF ExactAt
  <2>2. CASE m \notin gone
    <3>1. ExactAt(us, m) /\ HostIncludingParent(us, m) \in (Slots \ gone) \cup {None}
      BY <1>2, <1>3, <1>4, <2>2, Fields DEF HostIncludingParent
    <3> QED
      BY <1>6, <1>9, <2>2, <3>1 DEF ExactAt
  <2> QED
    BY <2>1, <2>2
<1>17. nodes'[Document].kind = "document" /\ HostIncludingParent(nodes, Document)' = None
  BY <1>1, <1>2, <1>3, <1>4, <1>6, <1>9 DEF IInv, Keeps
<1>18. \A m \in Slots : /\ Exists(m)' => m < len'
                        /\ rootOf'[m] # None => nodes'[m].kind = "element"
  BY <1>1, <1>2, <1>6, <1>14 DEF IInv, Keeps
<1> QED
  BY <1>12, <1>13, <1>15, <1>16, <1>17, <1>18 DEF IInv

(* h stands above all of some set that is closed upwards and misses r.     *)
Clear(h, r) == \E T \in SUBSET Slots : r \notin T /\ StaysAbove(nodes, h, T)

(* r, new or a fragment with what is below it, becomes the shadow root of  *)
(* h, which is not below it.                                               *)
Hosted(h, r) ==
    /\ nodes[h].kind = "element" /\ rootOf[h] = None /\ r # h /\ r # Document
    /\ hostOf[r] = None /\ rootOf[r] = None /\ nodes[r].parent = None
    /\ Clear(h, r)
    /\ nodes' \in [Slots -> Node]
    /\ nodes'[r].kind = "document" /\ nodes'[r].connected = nodes'[h].connected
    /\ \A m \in Slots : /\ nodes'[m].parent = nodes[m].parent
                        /\ nodes'[m].first = nodes[m].first /\ nodes'[m].last = nodes[m].last
                        /\ nodes'[m].prev = nodes[m].prev /\ nodes'[m].next = nodes[m].next
    /\ \A m \in Slots \ {r} : /\ nodes'[m].kind = nodes[m].kind
                              /\ nodes[m] = Vacant => nodes'[m] = Vacant
                              /\ ExactAt(nodes', m)
    /\ rootOf' = [rootOf EXCEPT ![h] = r] /\ hostOf' = [hostOf EXCEPT ![r] = h]
    /\ len' \in 1..MaxNodes /\ free' \in [Slots -> Nat] /\ len <= len' /\ r < len'
    /\ \A m \in Slots : free'[m] = IF m = r THEN 0
                                   ELSE IF m < len' /\ ~Exists(m) THEN 1 ELSE 0

\* A slot without a node is below nothing and above nothing.
LEMMA VacantIsClear ==
    ASSUME IInv, NEW h \in Slots, NEW r \in Slots, r # h,
           nodes[r].first = None, rootOf[r] = None
    PROVE  Clear(h, r)
<1> DEFINE T == Slots \ {r}
<1>1. /\ nodes \in [Slots -> Node] /\ hostOf \in [Slots -> Slots \cup {None}]
      /\ NeighboursAgree(nodes) /\ Registered(nodes) /\ None \notin Slots
  BY NoneIsNoSlot DEF IInv, Shape
<1>2. ASSUME NEW m \in T PROVE HostIncludingParent(nodes, m) \in T \cup {None}
  <2>1. nodes[m].parent \in Slots \cup {None} /\ hostOf[m] \in Slots \cup {None}
    BY <1>1, Fields
  <2>2. nodes[m].parent # r
    BY <1>1 DEF NeighboursAgree
  <2>3. hostOf[m] # r
    BY <1>1 DEF Registered
  <2> QED
    BY <2>1, <2>2, <2>3 DEF HostIncludingParent
<1>3. StaysAbove(nodes, h, T) /\ r \notin T /\ T \in SUBSET Slots
  BY <1>2 DEF StaysAbove
<1> QED
  BY <1>3 DEF Clear

\* What both ways to attach a shadow root start from: the root is live in ns, and
\* ns has the links and flags of the arena.
LEMMA AttachStarts ==
    ASSUME IInv, intact', NEW h \in Slots, NEW r \in Slots,
           AttachShadow(h, r) \/ AttachContents(h, r)
    PROVE  \E ns \in [Slots -> Node] :
             /\ nodes' = Written(ns, SetConnected(ns, r, ns[h].connected))
             /\ nodes[h].kind = "element" /\ rootOf[h] = None /\ r # h /\ r # Document
             /\ hostOf[r] = None /\ rootOf[r] = None /\ nodes[r].parent = None
             /\ Clear(h, r) /\ ns[r].kind = "document"
             /\ \A m \in Slots \ {r} : ns[m] = nodes[m]
             /\ \A m \in Slots :
                  /\ ns[m].parent = nodes[m].parent /\ ns[m].first = nodes[m].first
                  /\ ns[m].last = nodes[m].last /\ ns[m].prev = nodes[m].prev
                  /\ ns[m].next = nodes[m].next /\ ns[m].connected = nodes[m].connected
<1>1. nodes \in [Slots -> Node] /\ None \notin Slots
  BY NoneIsNoSlot DEF IInv, Typed
<1>2. CASE AttachShadow(h, r)
  <2> DEFINE ns == [nodes EXCEPT ![r] = Fresh("document")]
  <2>1. /\ nodes[h].kind = "element" /\ rootOf[h] = None
        /\ nodes' = Written(ns, SetConnected(ns, r, ns[h].connected))
    BY <1>2 DEF AttachShadow, Register
  <2>2. /\ nodes[r] = Vacant /\ rootOf[r] = None /\ hostOf[r] = None /\ r # Document
    BY <1>2, Allocated DEF AttachShadow
  <2>3. /\ ns[r] = Fresh("document") /\ Fresh("document") \in Node
        /\ \A m \in Slots \ {r} : ns[m] = nodes[m]
    BY <1>1 DEF Fresh, Node
  <2>4. ns \in [Slots -> Node]
    BY <1>1, <2>3
  <2> HIDE DEF ns
  <2>5. /\ nodes[r].kind = "none" /\ nodes[r].first = None /\ nodes[r].parent = None
        /\ ns[r].kind = "document"
        /\ ns[r].parent = nodes[r].parent /\ ns[r].first = nodes[r].first
        /\ ns[r].last = nodes[r].last /\ ns[r].prev = nodes[r].prev
        /\ ns[r].next = nodes[r].next /\ ns[r].connected = nodes[r].connected
    BY ONLY <2>2, <2>3 DEF Vacant, Fresh
  <2>6. r # h
    BY <2>1, <2>5
  <2>7. Clear(h, r)
    BY <2>2, <2>5, <2>6, VacantIsClear
  <2> QED
    BY <2>1, <2>2, <2>3, <2>4, <2>5, <2>6, <2>7
<1>3. CASE AttachContents(h, r)
  <2>1. /\ nodes[h].kind = "element" /\ rootOf[h] = None
        /\ r # Document /\ ~IsRoot(r) /\ nodes[r].kind = "document"
        /\ nodes[r].parent = None
        /\ nodes' = Written(nodes, SetConnected(nodes, r, nodes[h].connected))
        /\ ~StandsInside(h, r)
    BY <1>3 DEF AttachContents, Register
  <2>2. rootOf[r] = None /\ hostOf[r] = None /\ r # h
    BY <2>1 DEF IInv, IsRoot
  <2>3. Clear(h, r)
    BY <2>1 DEF StandsInside, Clear
  <2> QED
    BY <1>1, <2>1, <2>2, <2>3
<1> QED
  BY <1>2, <1>3

\* What they do to the registries and the free list.
LEMMA AttachBooks ==
    ASSUME IInv, NEW h \in Slots, NEW r \in Slots,
           AttachShadow(h, r) \/ AttachContents(h, r)
    PROVE  /\ rootOf' = [rootOf EXCEPT ![h] = r] /\ hostOf' = [hostOf EXCEPT ![r] = h]
           /\ len' \in 1..MaxNodes /\ free' \in [Slots -> Nat] /\ len <= len' /\ r < len'
           /\ \A m \in Slots : free'[m] = IF m = r THEN 0
                                          ELSE IF m < len' /\ ~Exists(m) THEN 1 ELSE 0
<1>1. /\ rootOf' = [rootOf EXCEPT ![h] = r] /\ hostOf' = [hostOf EXCEPT ![r] = h]
  BY DEF AttachShadow, AttachContents, Register
<1>2. CASE AttachShadow(h, r)
  BY <1>1, <1>2, Allocated DEF AttachShadow
<1>3. CASE AttachContents(h, r)
  <2>1. UNCHANGED <<len, free>> /\ Exists(r)
    BY <1>3 DEF AttachContents, Exists
  <2>2. len \in 1..MaxNodes /\ MaxNodes \in Nat /\ free \in [Slots -> Nat]
    BY DomTreeAssumption DEF IInv, Typed
  <2> QED
    BY <1>1, <2>1, <2>2 DEF IInv, SlotsExact
<1> QED
  BY <1>2, <1>3

\* What both come to.
LEMMA AttachHosts ==
    ASSUME IInv, intact', NEW h \in Slots, NEW r \in Slots,
           AttachShadow(h, r) \/ AttachContents(h, r)
    PROVE  Hosted(h, r)
<1> PICK ns \in [Slots -> Node] :
             /\ nodes' = Written(ns, SetConnected(ns, r, ns[h].connected))
             /\ nodes[h].kind = "element" /\ rootOf[h] = None /\ r # h /\ r # Document
             /\ hostOf[r] = None /\ rootOf[r] = None /\ nodes[r].parent = None
             /\ Clear(h, r) /\ ns[r].kind = "document"
             /\ \A m \in Slots \ {r} : ns[m] = nodes[m]
             /\ \A m \in Slots :
                  /\ ns[m].parent = nodes[m].parent /\ ns[m].first = nodes[m].first
                  /\ ns[m].last = nodes[m].last /\ ns[m].prev = nodes[m].prev
                  /\ ns[m].next = nodes[m].next /\ ns[m].connected = nodes[m].connected
  BY AttachStarts
<1> DEFINE gs == SetConnected(ns, r, ns[h].connected)
<1>1. /\ Shape(nodes) /\ nodes \in [Slots -> Node] /\ None \notin Slots
      /\ Document \in Slots /\ hostOf \in [Slots -> Slots \cup {None}]
  BY NoneIsNoSlot DEF IInv, Shape
<1>2. Shape(ns)
  BY <1>1, ShapeIsLinks
<1>3. \A m \in Slots : HostIncludingParent(ns, m) = HostIncludingParent(nodes, m)
  BY DEF HostIncludingParent
<1>4. \A m \in Slots : ExactAt(ns, m)
  <2> SUFFICES ASSUME NEW m \in Slots PROVE ExactAt(ns, m)
    OBVIOUS
  <2>1. ExactAt(nodes, m) /\ HostIncludingParent(nodes, m) \in Slots \cup {None}
    BY <1>1, Fields DEF IInv, HostIncludingParent
  <2> QED
    BY <1>3, <2>1 DEF ExactAt
<1>5. HostIncludingParent(ns, Document) = None
  BY <1>1, <1>3 DEF IInv
<1>6. ns[h].connected \in BOOLEAN
  BY Fields
<1>7. /\ gs \in [Slots -> Node] /\ SameLinks(ns, gs)
      /\ gs[r].connected = ns[h].connected
      /\ \A m \in Slots \ OwnedSubtrees(ns, r) : gs[m].connected = ns[m].connected
      /\ \A m \in Slots \ {r} : ExactAt(gs, m)
  <2>1. r \in Slots \ {Document} /\ \A m \in Slots \ {r} : ExactAt(ns, m)
    BY <1>4
  <2> QED
    BY ONLY <1>2, <1>5, <1>6, <2>1, Flagged
<1>8. h \notin OwnedSubtrees(ns, r)
  <2>1. PICK T \in SUBSET Slots : r \notin T /\ StaysAbove(nodes, h, T)
    BY DEF Clear
  <2>2. StaysAbove(ns, h, T)
    BY <1>3, <2>1 DEF StaysAbove
  <2>3. T \cap OwnedSubtrees(ns, r) = {}
    BY <1>2, <2>1, <2>2, NotOwned
  <2> QED
    BY <2>2, <2>3 DEF StaysAbove
<1>9. Keeps(ns, gs)
  <2>1. ns[r] # Vacant
    BY DEF Vacant, Fresh
  <2>2. \A m \in Slots : ns[m] = Vacant => hostOf[m] = None
    BY <2>1 DEF IInv, SlotsExact, Exists, Vacant, Fresh
  <2> QED
    BY <1>2, <1>6, <2>1, <2>2, FlagKeeps
<1>10. \A m \in Slots : ns[m].kind = "none" => ns[m] = Vacant
  BY DEF IInv, SlotsExact, Exists
<1> HIDE DEF gs
<1>11. nodes' = gs
  BY <1>7, <1>9, <1>10, WrittenIs DEF gs
<1>12. /\ gs[r].kind = "document" /\ gs[r].connected = gs[h].connected
       /\ \A m \in Slots : /\ gs[m].parent = nodes[m].parent
                           /\ gs[m].first = nodes[m].first /\ gs[m].last = nodes[m].last
                           /\ gs[m].prev = nodes[m].prev /\ gs[m].next = nodes[m].next
       /\ \A m \in Slots \ {r} : /\ gs[m].kind = nodes[m].kind
                                 /\ nodes[m] = Vacant => gs[m] = Vacant
  BY <1>7, <1>8, <1>9 DEF SameLinks, Keeps
<1> QED
  BY <1>7, <1>11, <1>12, AttachBooks DEF Hosted

\* attach_shadow, and the parser's declarative shadow root.
LEMMA AttachKeepsInv ==
    ASSUME IInv, NEW h \in Slots, NEW r \in Slots, Hosted(h, r)
    PROVE  IInv'
<1>1. /\ nodes[h].kind = "element" /\ rootOf[h] = None /\ r # h /\ r # Document
      /\ hostOf[r] = None /\ rootOf[r] = None /\ nodes[r].parent = None
      /\ nodes' \in [Slots -> Node]
      /\ nodes'[r].kind = "document" /\ nodes'[r].connected = nodes'[h].connected
      /\ \A m \in Slots \ {r} : /\ nodes'[m].kind = nodes[m].kind
                                /\ nodes[m] = Vacant => nodes'[m] = Vacant
                                /\ ExactAt(nodes', m)
      /\ rootOf' = [rootOf EXCEPT ![h] = r] /\ hostOf' = [hostOf EXCEPT ![r] = h]
  BY DEF Hosted
<1>2. /\ len' \in 1..MaxNodes /\ free' \in [Slots -> Nat] /\ len <= len' /\ r < len'
      /\ \A m \in Slots : free'[m] = IF m = r THEN 0
                                     ELSE IF m < len' /\ ~Exists(m) THEN 1 ELSE 0
  BY DEF Hosted
<1>3. /\ Shape(nodes) /\ Registered(nodes) /\ NeighboursAgree(nodes)
      /\ rootOf \in [Slots -> Slots \cup {None}]
      /\ hostOf \in [Slots -> Slots \cup {None}]
      /\ None \notin Slots /\ Document \in Slots
  BY NoneIsNoSlot DEF IInv, Shape
<1>4. /\ rootOf'[h] = r /\ \A m \in Slots \ {h} : rootOf'[m] = rootOf[m]
      /\ hostOf'[r] = h /\ \A m \in Slots \ {r} : hostOf'[m] = hostOf[m]
      /\ rootOf' \in [Slots -> Slots \cup {None}]
      /\ hostOf' \in [Slots -> Slots \cup {None}]
  BY <1>1, <1>3
<1>5. Shape(nodes')
  <2>1. \A m \in Slots :
           /\ nodes'[m].parent = nodes[m].parent
           /\ nodes'[m].first = nodes[m].first /\ nodes'[m].last = nodes[m].last
           /\ nodes'[m].prev = nodes[m].prev /\ nodes'[m].next = nodes[m].next
    BY DEF Hosted
  <2> QED
    BY <1>1, <1>3, <2>1, ShapeIsLinks
<1>6. /\ HostIncludingParent(nodes, r)' = h
      /\ \A m \in Slots \ {r} : HostIncludingParent(nodes, m)' = HostIncludingParent(nodes, m)
  <2>1. \A m \in Slots : nodes'[m].parent = nodes[m].parent
    BY DEF Hosted
  <2> QED
    BY <1>1, <1>4, <2>1 DEF HostIncludingParent
<1>7. PICK T \in SUBSET Slots : r \notin T /\ StaysAbove(nodes, h, T)
  BY DEF Hosted, Clear
<1>8. WalksUpEnd(nodes)'
  <2> SUFFICES ASSUME NEW S \in SUBSET Slots, S # {},
                      \A m \in S : HostIncludingParent(nodes, m)' \in S
               PROVE  FALSE
    BY DEF WalksUpEnd
  <2>1. CASE r \notin S
    <3>1. \A m \in S : HostIncludingParent(nodes, m) \in S
      BY <1>6, <2>1
    <3> QED
      BY <1>3, <3>1, UpEnds
  <2>2. CASE r \in S
    <3> DEFINE U == S \cap T
    <3>1. h \in U
      BY <1>6, <1>7, <2>2 DEF StaysAbove
    <3>2. \A m \in U : HostIncludingParent(nodes, m) \in U
      BY <1>3, <1>6, <1>7 DEF StaysAbove
    <3>3. U \subseteq Slots
      OBVIOUS
    <3> HIDE DEF U
    <3> QED
      BY <1>3, <3>1, <3>2, <3>3, UpEnds
  <2> QED
    BY <2>1, <2>2
<1>9. Registered(nodes)'
  <2>1. ASSUME NEW m \in Slots, rootOf'[m] # None PROVE hostOf'[rootOf'[m]] = m
    <3>1. CASE m = h
      BY <1>4, <3>1
    <3>2. CASE m # h
      <4>1. rootOf'[m] = rootOf[m] /\ hostOf[rootOf[m]] = m /\ rootOf[m] \in Slots
        BY <1>3, <1>4, <2>1, <3>2 DEF Registered
      <4> QED
        BY <1>1, <1>3, <1>4, <4>1
    <3> QED
      BY <3>1, <3>2
  <2>2. ASSUME NEW m \in Slots, hostOf'[m] # None
        PROVE  rootOf'[hostOf'[m]] = m /\ nodes'[m].parent = None
    <3>1. CASE m = r
      BY <1>1, <1>4, <3>1 DEF Hosted
    <3>2. CASE m # r
      <4>1. /\ hostOf'[m] = hostOf[m] /\ rootOf[hostOf[m]] = m /\ hostOf[m] \in Slots
            /\ nodes[m].parent = None
        BY <1>3, <1>4, <2>2, <3>2 DEF Registered
      <4>2. nodes'[m].parent = nodes[m].parent
        BY DEF Hosted
      <4> QED
        BY <1>1, <1>3, <1>4, <3>2, <4>1, <4>2
    <3> QED
      BY <3>1, <3>2
  <2> QED
    BY <2>1, <2>2 DEF Registered
<1>10. Shape(nodes)'
  <2>1. NeighboursAgree(nodes)' /\ ListsEnd(nodes)'
    BY <1>5 DEF Shape, NeighboursAgree, ListsEnd
  <2> QED
    BY <1>1, <1>4, <1>8, <1>9, <2>1 DEF Shape
<1>11. Typed'
  BY <1>1, <1>2, <1>4 DEF Typed
<1>12. \A m \in Slots : Exists(m)' <=> Exists(m) \/ m = r
  BY <1>1 DEF Exists
<1>13. SlotsExact'
  <2>1. \A m \in Slots : free'[m] = IF m < len' /\ ~Exists(m)' THEN 1 ELSE 0
    BY <1>2, <1>12
  <2>2. \A m \in Slots : ~Exists(m)' => /\ nodes'[m] = Vacant /\ rootOf'[m] = None
                                        /\ hostOf'[m] = None
    <3> SUFFICES ASSUME NEW m \in Slots, ~Exists(m)'
                 PROVE  nodes'[m] = Vacant /\ rootOf'[m] = None /\ hostOf'[m] = None
      OBVIOUS
    <3>1. m # r /\ ~Exists(m) /\ m # h
      BY <1>1, <1>12 DEF Exists
    <3> QED
      BY <1>1, <1>4, <3>1 DEF IInv, SlotsExact
  <2> QED
    BY <1>9, <2>1, <2>2 DEF SlotsExact, Registered
<1>14. \A m \in Slots : ExactAt(nodes, m)'
  <2> SUFFICES ASSUME NEW m \in Slots PROVE ExactAt(nodes, m)'
    OBVIOUS
  <2>1. CASE m = r
    BY <1>1, <1>3, <1>6, <2>1 DEF ExactAt
  <2>2. CASE m # r
    <3>1. /\ ExactAt(nodes', m)
          /\ HostIncludingParent(nodes', m) = HostIncludingParent(nodes, m)'
      BY <1>1, <1>4, <2>2 DEF HostIncludingParent
    <3> QED
      BY <3>1 DEF ExactAt
  <2> QED
    BY <2>1, <2>2
<1>15. nodes'[Document].kind = "document" /\ HostIncludingParent(nodes, Document)' = None
  BY <1>1, <1>3, <1>6 DEF IInv
<1>16. \A m \in Slots : Exists(m)' => m < len'
  <2>1. Slots \subseteq Int /\ len \in Int /\ len' \in Int
    BY <1>2, DomTreeAssumption DEF IInv, Typed, Slots
  <2> QED
    BY <1>1, <1>2, <2>1 DEF IInv, Exists
<1>17. \A m \in Slots : rootOf'[m] # None => nodes'[m].kind = "element"
  BY <1>1, <1>4 DEF IInv
<1> QED
  BY <1>10, <1>11, <1>13, <1>14, <1>15, <1>16, <1>17 DEF IInv

----------------------------------------------------------------------------
\* The first state.
LEMMA InitInv == Init => IInv
<1> SUFFICES ASSUME Init PROVE IInv
  OBVIOUS
<1>1. /\ MaxNodes \in Nat /\ MaxNodes >= 1 /\ Slots \subseteq Int
      /\ None \notin Slots /\ Document \in Slots
      /\ \A n \in Slots : n >= 0
  BY NoneIsNoSlot, DomTreeAssumption DEF Slots
<1>2. /\ len = 1 /\ free = [n \in Slots |-> 0]
      /\ rootOf = [n \in Slots |-> None] /\ hostOf = [n \in Slots |-> None]
      /\ nodes = [n \in Slots |-> IF n = Document
                     THEN [Fresh("document") EXCEPT !.connected = TRUE] ELSE Vacant]
  BY DEF Init
<1>3. \A n \in Slots :
         /\ nodes[n] \in Node /\ nodes[n].parent = None
         /\ nodes[n].first = None /\ nodes[n].last = None
         /\ nodes[n].prev = None /\ nodes[n].next = None
         /\ nodes[n].connected <=> n = Document
         /\ nodes[n].kind = IF n = Document THEN "document" ELSE "none"
         /\ n # Document => nodes[n] = Vacant
  BY <1>2 DEF Fresh, Vacant, Node
<1>4. nodes \in [Slots -> Node]
  BY <1>2, <1>3
<1>5. \A n \in Slots : HostIncludingParent(nodes, n) = None
  BY <1>2, <1>3 DEF HostIncludingParent
<1>6. Shape(nodes)
  <2>1. NeighboursAgree(nodes)
    BY <1>3 DEF NeighboursAgree
  <2>2. ListsEnd(nodes)
    <3>1. ASSUME NEW S \in SUBSET Slots, NEW m \in S
          PROVE  nodes[m].next \notin S /\ nodes[m].prev \notin S
      <4>1. m \in Slots
        OBVIOUS
      <4> QED
        BY <1>1, <1>3, <4>1
    <3>2. \A S \in SUBSET Slots : \A m \in S : nodes[m].next \notin S /\ nodes[m].prev \notin S
      BY <3>1
    <3> QED
      BY <3>2 DEF ListsEnd
  <2>3. WalksUpEnd(nodes)
    BY <1>1, <1>5 DEF WalksUpEnd
  <2>4. Registered(nodes)
    BY <1>2 DEF Registered
  <2> QED
    BY <1>2, <1>4, <2>1, <2>2, <2>3, <2>4 DEF Shape
<1>7. Typed
  <2>1. len \in 1..MaxNodes
    BY <1>1, <1>2
  <2>2. free \in [Slots -> Nat]
    BY <1>2
  <2>3. /\ rootOf \in [Slots -> Slots \cup {None}]
        /\ hostOf \in [Slots -> Slots \cup {None}]
    BY <1>2
  <2> QED
    BY <1>4, <2>1, <2>2, <2>3 DEF Typed
<1>8. SlotsExact
  <2>1. \A n \in Slots : n < len <=> n = Document
    BY <1>1, <1>2 DEF Document
  <2> QED
    BY <1>2, <1>3, <2>1 DEF SlotsExact, Exists
<1>9. \A n \in Slots : ExactAt(nodes, n)
  BY <1>3, <1>5 DEF ExactAt
<1>10. \A n \in Slots : /\ Exists(n) => n < len
                        /\ rootOf[n] # None => nodes[n].kind = "element"
  BY <1>2, <1>3 DEF Exists, Document
<1> QED
  BY <1>1, <1>3, <1>5, <1>6, <1>7, <1>8, <1>9, <1>10 DEF IInv

\* Every step keeps the invariant.
LEMMA NextKeepsInv ==
    IInv /\ intact' /\ [Next]_vars => IInv'
<1> SUFFICES ASSUME IInv, intact', [Next]_vars PROVE IInv'
  OBVIOUS
<1>1. ASSUME NEW n \in Slots, NEW kind \in {"element", "document"}, NewNode(n, kind)
      PROVE  IInv'
  BY <1>1, NewNodeKeepsInv
<1>2. ASSUME NEW p \in Slots, NEW c \in Slots, AppendChild(p, c) \/ InsertBefore(p, c)
      PROVE  IInv'
  BY <1>2, MovesKeepInv
<1>3. ASSUME NEW n \in Slots, Detach(n) PROVE IInv'
  BY <1>3, DetachKeepsInv
<1>4. ASSUME NEW n \in Slots, RemoveNode(n) PROVE IInv'
  BY <1>4, RemoveKeepsInv
<1>5. ASSUME NEW h \in Slots, NEW r \in Slots, AttachShadow(h, r) \/ AttachContents(h, r)
      PROVE  IInv'
  BY <1>5, AttachHosts, AttachKeepsInv
<1>6. CASE UNCHANGED vars
  BY <1>6 DEF vars, IInv, Typed, Shape, NeighboursAgree, ListsEnd, WalksUpEnd, Registered,
              SlotsExact, ExactAt, HostIncludingParent, Exists
<1> QED
  BY <1>1, <1>2, <1>3, <1>4, <1>5, <1>6 DEF Next

\* A tree that is intact has been so before.
LEMMA IntactBefore == [Next]_vars /\ intact' => intact
<1> SUFFICES ASSUME [Next]_vars, intact' PROVE intact
  OBVIOUS
<1>1. CASE UNCHANGED vars
  BY <1>1 DEF vars
<1>2. CASE Next
  BY <1>2 DEF Next, NewNode, AppendChild, InsertBefore, Detach, RemoveNode, AttachShadow,
              AttachContents
<1> QED
  BY <1>1, <1>2

\* The invariant of every behaviour, for as long as the tree is intact.
THEOREM Invariant == Spec => [](intact => IInv)
<1> DEFINE Inv == intact => IInv
<1>1. Init => Inv
  BY InitInv
<1>2. Inv /\ [Next]_vars => Inv'
  BY IntactBefore, NextKeepsInv
<1>3. Spec => []Inv
  BY <1>1, <1>2, PTL DEF Spec
<1> QED
  BY <1>3

\* The links a move writes are links, whatever the tree looks like.
LEMMA LinkTypes ==
    ASSUME NEW ns \in [Slots -> Node], NEW p \in Slots, NEW c \in Slots
    PROVE  /\ LinkLast(ns, p, c) \in [Slots -> Node]
           /\ \A ref \in Slots : LinkBefore(ns, p, c, ref) \in [Slots -> Node]
<1>2. LinkLast(ns, p, c) \in [Slots -> Node]
  <2>1. ASSUME NEW m \in Slots PROVE LinkLast(ns, p, c)[m] \in Node
    <3> DEFINE pa == IF m = c THEN p ELSE ns[m].parent
               pr == IF m = c THEN ns[p].last ELSE ns[m].prev
               nx == IF m = ns[p].last THEN c ELSE IF m = c THEN None ELSE ns[m].next
               fi == IF m = p /\ ns[m].first = None THEN c ELSE ns[m].first
               la == IF m = p THEN c ELSE ns[m].last
    <3>1. /\ pa \in Slots \cup {None} /\ pr \in Slots \cup {None}
          /\ nx \in Slots \cup {None} /\ fi \in Slots \cup {None}
          /\ la \in Slots \cup {None} /\ ns[m] \in Node
      BY Fields
    <3>2. LinkLast(ns, p, c)[m] = [ns[m] EXCEPT !.parent = pa, !.prev = pr, !.next = nx,
                                               !.first = fi, !.last = la]
      BY DEF LinkLast
    <3> HIDE DEF pa, pr, nx, fi, la
    <3>3. PICK r \in Node : r = ns[m]
      BY <3>1
    <3>4. [r EXCEPT !.parent = pa, !.prev = pr, !.next = nx, !.first = fi,
                    !.last = la] \in Node
      BY <3>1, <3>3 DEF Node
    <3> QED
      BY <3>2, <3>3, <3>4
  <2> QED
    BY <2>1 DEF LinkLast
<1>3. ASSUME NEW ref \in Slots PROVE LinkBefore(ns, p, c, ref) \in [Slots -> Node]
  <2>1. ASSUME NEW m \in Slots PROVE LinkBefore(ns, p, c, ref)[m] \in Node
    <3> DEFINE pa == IF m = c THEN p ELSE ns[m].parent
               pr == IF m = ref THEN c ELSE IF m = c THEN ns[ref].prev ELSE ns[m].prev
               nx == IF m = ns[ref].prev THEN c ELSE IF m = c THEN ref ELSE ns[m].next
               fi == IF m = p /\ ns[ref].prev = None THEN c ELSE ns[m].first
    <3>1. /\ pa \in Slots \cup {None} /\ pr \in Slots \cup {None}
          /\ nx \in Slots \cup {None} /\ fi \in Slots \cup {None} /\ ns[m] \in Node
      BY Fields
    <3>2. LinkBefore(ns, p, c, ref)[m] = [ns[m] EXCEPT !.parent = pa, !.prev = pr,
                                                      !.next = nx, !.first = fi]
      BY DEF LinkBefore
    <3> HIDE DEF pa, pr, nx, fi
    <3>3. PICK r \in Node : r = ns[m]
      BY <3>1
    <3>4. [r EXCEPT !.parent = pa, !.prev = pr, !.next = nx, !.first = fi] \in Node
      BY <3>1, <3>3 DEF Node
    <3> QED
      BY <3>2, <3>3, <3>4
  <2> QED
    BY <2>1 DEF LinkBefore
<1> QED
  BY <1>2, <1>3

\* So are those of the other stages.
LEMMA StageTypes ==
    ASSUME NEW ns \in [Slots -> Node], NEW c \in Slots
    PROVE  /\ \A b \in BOOLEAN : SetConnected(ns, c, b) \in [Slots -> Node]
           /\ \A d : Detached(ns, c, d) \in [Slots -> Node]
           /\ \A p : Settled(ns, c, p) \in [Slots -> Node]
           /\ \A gs \in [Slots -> Node] : Written(ns, gs) \in [Slots -> Node]
<1>1. \A b \in BOOLEAN : SetConnected(ns, c, b) \in [Slots -> Node]
  BY SetFlagFields DEF SetConnected
<1>2. \A d : Detached(ns, c, d) \in [Slots -> Node]
  <2> SUFFICES ASSUME NEW d PROVE Detached(ns, c, d) \in [Slots -> Node]
    OBVIOUS
  <2>1. PICK gs \in [Slots -> Node] :
          gs = IF d /\ ns[c].connected THEN SetConnected(ns, c, FALSE) ELSE ns
    BY <1>1
  <2>2. Unlink(gs, c) \in [Slots -> Node]
    BY UnlinkFields
  <2> QED
    BY <2>1, <2>2 DEF Detached
<1>3. \A p : Settled(ns, c, p) \in [Slots -> Node]
  BY <1>1 DEF Settled
<1>4. \A gs \in [Slots -> Node] : Written(ns, gs) \in [Slots -> Node]
  BY DEF Written
<1> QED
  BY <1>1, <1>2, <1>3, <1>4

\* A slot is handed out below the bound.
LEMMA AllocateTypes ==
    ASSUME TypeOK, NEW n \in Slots, Allocate(n)
    PROVE  len' \in 1..MaxNodes /\ free' \in [Slots -> Nat]
<1>1. len \in 1..MaxNodes /\ free \in [Slots -> Nat] /\ MaxNodes \in Nat
      /\ n \in Int /\ n <= MaxNodes - 1
  BY DomTreeAssumption DEF TypeOK, Slots
<1>2. CASE free[n] > 0 /\ free' = [free EXCEPT ![n] = @ - 1] /\ UNCHANGED len
  <2>1. free[n] - 1 \in Nat
    BY <1>1, <1>2
  <2> QED
    BY <1>1, <1>2, <2>1
<1>3. CASE n = len /\ len' = len + 1 /\ UNCHANGED free
  BY <1>1, <1>3
<1> QED
  BY <1>2, <1>3 DEF Allocate

\* Every step keeps the types, whether or not the tree is intact.
LEMMA NextKeepsTypes == TypeOK /\ [Next]_vars => TypeOK'
<1> SUFFICES ASSUME TypeOK, [Next]_vars PROVE TypeOK'
  OBVIOUS
<1>0. /\ nodes \in [Slots -> Node] /\ len \in 1..MaxNodes /\ free \in [Slots -> Nat]
      /\ rootOf \in [Slots -> Slots \cup {None}] /\ hostOf \in [Slots -> Slots \cup {None}]
      /\ intact \in BOOLEAN
  BY DEF TypeOK
<1>v. Vacant \in Node /\ \A kind \in {"element", "document"} : Fresh(kind) \in Node
  BY DEF Vacant, Fresh, Node
<1>1. ASSUME NEW n \in Slots, NEW kind \in {"element", "document"}, NewNode(n, kind)
      PROVE  TypeOK'
  BY <1>0, <1>v, <1>1, AllocateTypes DEF NewNode, TypeOK
<1>2. ASSUME NEW p \in Slots, NEW c \in Slots, AppendChild(p, c) PROVE TypeOK'
  <2>1. PICK us \in [Slots -> Node] : us = TakenOut(c, p)
    BY <1>0, StageTypes DEF TakenOut
  <2>2. PICK ls \in [Slots -> Node] : ls = LinkLast(us, p, c)
    BY LinkTypes
  <2>3. PICK gs \in [Slots -> Node] : gs = Settled(ls, c, p)
    BY StageTypes
  <2>4. Written(nodes, gs) \in [Slots -> Node]
    BY <1>0, StageTypes, c \in Slots
  <2>5. /\ nodes' = Written(nodes, gs) /\ intact' \in BOOLEAN
        /\ UNCHANGED <<len, free, rootOf, hostOf>>
    BY <1>2, <2>1, <2>2, <2>3 DEF AppendChild
  <2> QED
    BY <1>0, <2>4, <2>5 DEF TypeOK
<1>3. ASSUME NEW ref \in Slots, NEW c \in Slots, InsertBefore(ref, c) PROVE TypeOK'
  <2>0. PICK p \in Slots :
           nodes' = Written(nodes, Settled(LinkBefore(TakenOut(c, p), p, c, ref), c, p))
    BY <1>3 DEF InsertBefore
  <2>1. PICK us \in [Slots -> Node] : us = TakenOut(c, p)
    BY <1>0, StageTypes DEF TakenOut
  <2>2. PICK ls \in [Slots -> Node] : ls = LinkBefore(us, p, c, ref)
    BY LinkTypes
  <2>3. PICK gs \in [Slots -> Node] : gs = Settled(ls, c, p)
    BY StageTypes
  <2>4. Written(nodes, gs) \in [Slots -> Node]
    BY <1>0, StageTypes, c \in Slots
  <2>5. intact' \in BOOLEAN /\ UNCHANGED <<len, free, rootOf, hostOf>>
    BY <1>3 DEF InsertBefore
  <2> QED
    BY <1>0, <2>0, <2>1, <2>2, <2>3, <2>4, <2>5 DEF TypeOK
<1>4. ASSUME NEW n \in Slots PROVE Written(nodes, Detached(nodes, n, TRUE)) \in [Slots -> Node]
  BY <1>0, StageTypes
<1>5. ASSUME NEW n \in Slots, Detach(n) PROVE TypeOK'
  BY <1>0, <1>4, <1>5 DEF Detach, TypeOK
<1>6. ASSUME NEW n \in Slots, RemoveNode(n) PROVE TypeOK'
  <2>1. PICK gone : gone = OwnedSubtrees(nodes, n)
    OBVIOUS
  <2>2. PICK us \in [Slots -> Node] : us = Written(nodes, Detached(nodes, n, TRUE))
    BY <1>4
  <2>3. /\ nodes' = [m \in Slots |-> IF m \in gone THEN Vacant ELSE us[m]]
        /\ free' = [m \in Slots |-> IF m \in gone /\ Exists(m) THEN free[m] + 1 ELSE free[m]]
        /\ rootOf' = [m \in Slots |-> IF m \in gone \/ rootOf[m] \in gone
                                      THEN None ELSE rootOf[m]]
        /\ hostOf' = [m \in Slots |-> IF m \in gone \/ hostOf[m] \in gone
                                      THEN None ELSE hostOf[m]]
        /\ UNCHANGED len /\ intact' \in BOOLEAN
    BY <1>6, <2>1, <2>2 DEF RemoveNode, Vacate
  <2>4. nodes' \in [Slots -> Node]
    BY <1>v, <2>3
  <2>5. free' \in [Slots -> Nat]
    BY <1>0, <2>3
  <2>6. rootOf' \in [Slots -> Slots \cup {None}] /\ hostOf' \in [Slots -> Slots \cup {None}]
    BY <1>0, <2>3
  <2> QED
    BY <1>0, <2>3, <2>4, <2>5, <2>6 DEF TypeOK
<1>7. ASSUME NEW h \in Slots, NEW r \in Slots, NEW ns \in [Slots -> Node], Register(h, r, ns)
      PROVE  /\ nodes' \in [Slots -> Node]
             /\ rootOf' \in [Slots -> Slots \cup {None}]
             /\ hostOf' \in [Slots -> Slots \cup {None}]
  <2>1. ns[h].connected \in BOOLEAN
    BY Fields
  <2>2. PICK gs \in [Slots -> Node] : gs = SetConnected(ns, r, ns[h].connected)
    BY <2>1, StageTypes
  <2>3. Written(ns, gs) \in [Slots -> Node]
    BY StageTypes, r \in Slots
  <2> QED
    BY <1>0, <1>7, <2>2, <2>3 DEF Register
<1>8. ASSUME NEW h \in Slots, NEW r \in Slots, AttachShadow(h, r) PROVE TypeOK'
  <2>1. [nodes EXCEPT ![r] = Fresh("document")] \in [Slots -> Node]
    BY <1>0, <1>v
  <2>2. Register(h, r, [nodes EXCEPT ![r] = Fresh("document")]) /\ UNCHANGED intact
        /\ Allocate(r)
    BY <1>8 DEF AttachShadow
  <2> QED
    BY <1>0, <1>7, <2>1, <2>2, AllocateTypes DEF TypeOK
<1>9. ASSUME NEW h \in Slots, NEW r \in Slots, AttachContents(h, r) PROVE TypeOK'
  <2>1. Register(h, r, nodes) /\ UNCHANGED <<len, free>> /\ intact' \in BOOLEAN
    BY <1>9 DEF AttachContents
  <2> QED
    BY <1>0, <1>7, <2>1 DEF TypeOK
<1>10. CASE UNCHANGED vars
  BY <1>0, <1>10 DEF vars, TypeOK
<1> QED
  BY <1>1, <1>2, <1>3, <1>5, <1>6, <1>8, <1>9, <1>10 DEF Next

\* Every link, flag and registry entry keeps its type, for ever.
THEOREM TypeCorrect == Spec => []TypeOK
<1>1. Init => TypeOK
  <2>1. Init => IInv /\ intact
    BY InitInv DEF Init
  <2> QED
    BY <2>1 DEF IInv, Typed, TypeOK, Init
<1> QED
  BY <1>1, NextKeepsTypes, PTL DEF Spec

\* The free list holds each slot without a node once, and the registries agree,
\* for as long as the tree is intact.
THEOREM SlotsStayExact == Spec => [](intact => SlotsExact)
<1>1. (intact => IInv) => (intact => SlotsExact)
  BY DEF IInv
<1> QED
  BY <1>1, Invariant, PTL

\* The children of every node are one list that reads the same both ways and ends,
\* for as long as the tree is intact.
THEOREM LinksStayInAgreement == Spec => []LinksAgree
<1>1. (intact => IInv) => LinksAgree
  BY DEF IInv, Shape, LinksAgree
<1> QED
  BY <1>1, Invariant, PTL

\* No node is above itself, through parents and from a shadow root to its host,
\* for as long as the tree is intact.
THEOREM NoCycleArises == Spec => []NoneAboveItself
<1>1. (intact => IInv) => NoneAboveItself
  BY DEF IInv, Shape, NoneAboveItself
<1> QED
  BY <1>1, Invariant, PTL

----------------------------------------------------------------------------
(* The arena implements Forest.                                            *)
Live == {n \in Slots : Exists(n)}
Flags == {n \in Slots : nodes[n].connected}

\* Forest's host of a node is what the registry of shadow roots says.
LEMMA Hosts ==
    IInv => \A m \in Slots : Tree!HostOf(m) = {hostOf[m]} \ {None}
<1> SUFFICES ASSUME IInv, NEW m \in Slots
             PROVE  Tree!HostOf(m) = {hostOf[m]} \ {None}
  OBVIOUS
<1>1. /\ \A n \in Slots : rootOf[n] # None => hostOf[rootOf[n]] = n
      /\ \A n \in Slots : hostOf[n] # None => rootOf[hostOf[n]] = n
      /\ hostOf[m] \in Slots \cup {None} /\ None \notin Slots
  BY NoneIsNoSlot DEF IInv, Shape, Registered
<1> QED
  BY <1>1 DEF Tree!HostOf

\* What Forest has above a node is the code's host-including parent.
LEMMA AboveIs ==
    IInv => \A m \in Slots : Tree!Above(m) = HostIncludingParent(nodes, m)
<1> SUFFICES ASSUME IInv, NEW m \in Slots
             PROVE  Tree!Above(m) = HostIncludingParent(nodes, m)
  OBVIOUS
<1>1. Tree!HostOf(m) = {hostOf[m]} \ {None}
  BY Hosts
<1> QED
  BY <1>1 DEF Tree!Above, HostIncludingParent

\* The flags are exact.
LEMMA FlagsExact ==
    IInv => \A m \in Slots : m \in Flags <=> m = Document \/ Tree!Above(m) \in Flags
<1> SUFFICES ASSUME IInv, NEW m \in Slots
             PROVE  m \in Flags <=> m = Document \/ Tree!Above(m) \in Flags
  OBVIOUS
<1>1. Tree!Above(m) = HostIncludingParent(nodes, m) /\ ExactAt(nodes, m)
  BY AboveIs DEF IInv
<1>2. HostIncludingParent(nodes, m) \in Slots \cup {None} /\ None \notin Slots
  BY Fields, NoneIsNoSlot DEF IInv, Shape, HostIncludingParent
<1> QED
  BY <1>1, <1>2 DEF ExactAt, Flags

\* What is above a live node is live.
LEMMA AboveLives ==
    ASSUME IInv, NEW m \in Live
    PROVE  HostIncludingParent(nodes, m) \in Live \cup {None}
<1> DEFINE h == HostIncludingParent(nodes, m)
<1>1. /\ m \in Slots /\ h \in Slots \cup {None} /\ None \notin Slots
  BY Fields, NoneIsNoSlot DEF Live, IInv, Shape, HostIncludingParent
<1>2. h # None => nodes[h].first # None \/ rootOf[h] # None
  BY <1>1 DEF IInv, Shape, Registered, NeighboursAgree, HostIncludingParent
<1>3. h # None => Exists(h)
  BY <1>1, <1>2 DEF IInv, SlotsExact, Vacant, Fresh
<1> QED
  BY <1>1, <1>3 DEF Live

\* Forest's subtree is the one the code collects.
LEMMA BelowIs ==
    ASSUME IInv, NEW c \in Live
    PROVE  Tree!Below(c) = OwnedSubtrees(nodes, c)
<1> DEFINE O == OwnedSubtrees(nodes, c)
<1>1. /\ c \in Slots /\ None \notin Slots /\ Live \subseteq Slots
  BY NoneIsNoSlot DEF Live
<1>2. /\ O \subseteq Slots /\ c \in O
      /\ \A m \in Slots \ {c} : m \in O <=> HostIncludingParent(nodes, m) \in O
  BY <1>1, OwnedBelow DEF IInv
<1>3. \A m \in Slots : Tree!Above(m) = HostIncludingParent(nodes, m)
  BY AboveIs
<1>4. O \subseteq Live
  <2>1. ASSUME NEW m \in O, m \notin Live PROVE FALSE
    <3>1. m \in Slots /\ m # c /\ ~Exists(m)
      BY <1>2, <2>1 DEF Live
    <3>2. nodes[m].parent = None /\ hostOf[m] = None
      BY <3>1 DEF IInv, SlotsExact, Vacant, Fresh
    <3> QED
      BY <1>1, <1>2, <3>1, <3>2 DEF HostIncludingParent
  <2> QED
    BY <2>1
<1> HIDE DEF O
<1>5. \A S : S \in Tree!Upward <=> /\ S \subseteq Live
                                   /\ \A m \in S : Tree!Above(m) \in S \cup {None}
  BY DEF Tree!Upward, Live
<1>6. \A m : m \in Tree!Below(c) <=> /\ m \in Live
                                     /\ \A S \in Tree!Upward : c \notin S => m \notin S
  BY DEF Tree!Below, Live
<1>7. ASSUME NEW m \in Live, m \notin O PROVE m \notin Tree!Below(c)
  <2> DEFINE U == Live \ O
  <2>1. \A k \in U : Tree!Above(k) \in U \cup {None}
    <3>1. ASSUME NEW k \in U PROVE Tree!Above(k) \in U \cup {None}
      <4>1. k \in Slots \ {c} /\ HostIncludingParent(nodes, k) \notin O
        BY <1>1, <1>2
      <4>2. HostIncludingParent(nodes, k) \in Live \cup {None}
        BY AboveLives
      <4> QED
        BY <1>3, <4>1, <4>2
    <3> QED
      BY <3>1
  <2>2. U \in Tree!Upward
    BY <1>5, <2>1
  <2> QED
    BY <1>2, <1>6, <1>7, <2>2
<1>8. ASSUME NEW m \in O PROVE m \in Tree!Below(c)
  <2>1. ASSUME NEW S \in Tree!Upward, c \notin S, m \in S PROVE FALSE
    <3> DEFINE U == O \cap S
    <3>1. \A k \in U : HostIncludingParent(nodes, k) \in U
      <4>1. ASSUME NEW k \in U PROVE HostIncludingParent(nodes, k) \in U
        <5>1. k \in Slots \ {c} /\ k \in S
          BY <1>2, <2>1
        <5>2. HostIncludingParent(nodes, k) \in O
          BY <1>2, <5>1
        <5>3. HostIncludingParent(nodes, k) \in S \cup {None}
          BY <1>3, <1>5, <5>1
        <5> QED
          BY <1>1, <1>2, <5>2, <5>3
      <4> QED
        BY <4>1
    <3>2. U \subseteq Slots /\ m \in U
      BY <1>2, <2>1
    <3> HIDE DEF U
    <3> QED
      BY <3>1, <3>2, UpEnds DEF IInv
  <2> QED
    BY <1>4, <1>6, <2>1
<1>9. Tree!Below(c) \subseteq Live
  BY <1>6
<1> QED
  BY <1>4, <1>7, <1>8, <1>9 DEF O

\* Forest's next without c is Skipped.
LEMMA SkippedIs ==
    ASSUME NEW c \in Slots, NEW m \in Slots
    PROVE  Tree!NextWithout(c, m) = IF m = c THEN None ELSE Skipped(c, m)
BY DEF Tree!NextWithout, Skipped

\* The state Forest sees, slot by slot.
LEMMA Mapped ==
    ASSUME IInv, IInv'
    PROVE  /\ Live \subseteq Slots /\ nodes \in [Slots -> Node]
           /\ rootOf \in [Slots -> Slots \cup {None}]
           /\ nodes' \in [Slots -> Node] /\ rootOf' \in [Slots -> Slots \cup {None}]
BY DEF IInv, Typed, Live

\* A node put in its place, behind the last child of p or in front of ref.
LEMMA PlaceIs ==
    ASSUME IInv, IInv', NEW p \in Slots, NEW c \in Slots, p # c, c # Document,
           Exists(p), Exists(c), ~IsRoot(c), Keeps(nodes, nodes'),
           UNCHANGED <<rootOf, hostOf>>,
           NEW ref, ref = None \/ (ref \in Slots /\ ref # c /\ nodes[ref].parent = p),
           Placed(p, c, ref), p \notin OwnedSubtrees(nodes, c)
    PROVE  Tree!Place(c, p)
<1> DEFINE parent == [n \in Slots |-> nodes[n].parent]
           next == [n \in Slots |-> nodes[n].next]
<1>1. Live' = Live
  BY DEF Keeps, Live, Exists
<1>2. parent' = [parent EXCEPT ![c] = p]
  BY DEF Placed
<1>3. c \in Live \ {Document} /\ p \in Live
  BY DEF Live
<1>4. Tree!HostOf(c) = {}
  BY Hosts DEF IsRoot
<1>5. p \notin Tree!Below(c)
  BY <1>3, BelowIs
<1>6. ref \in {m \in Slots \ {c} : parent[m] = p} \cup {None}
  OBVIOUS
<1>7. next' = Tree!With(c, p, ref)
  <2>1. \A m \in Slots : next'[m] = Tree!With(c, p, ref)[m]
    BY SkippedIs DEF Placed, Tree!With
  <2> QED
    BY <2>1 DEF Tree!With
<1>8. \E r \in {m \in Slots \ {c} : parent[m] = p} \cup {None} : next' = Tree!With(c, p, r)
  BY <1>6, <1>7
<1> QED
  BY <1>1, <1>2, <1>3, <1>4, <1>5, <1>8 DEF Tree!Place, Live

\* append_child.
LEMMA AppendPlaces ==
    ASSUME IInv, IInv', intact', NEW p \in Slots, NEW c \in Slots,
           AppendChild(p, c)
    PROVE  Tree!Place(c, p)
<1> PICK ref : ref = None
  OBVIOUS
<1>1. /\ Exists(p) /\ Exists(c) /\ ~IsRoot(c) /\ UNCHANGED <<rootOf, hostOf>>
  BY DEF AppendChild
<1>2. /\ c # Document /\ p # c /\ Keeps(nodes, nodes') /\ p \notin OwnedSubtrees(nodes, c)
      /\ Placed(p, c, ref)
  BY Appended
<1> QED
  BY <1>1, <1>2, PlaceIs

\* insert_before.
LEMMA InsertPlaces ==
    ASSUME IInv, IInv', intact', NEW ref \in Slots, NEW c \in Slots,
           InsertBefore(ref, c)
    PROVE  \E p \in Slots : Tree!Place(c, p)
<1> PICK p : p = nodes[ref].parent
  OBVIOUS
<1>1. /\ Exists(c) /\ ~IsRoot(c) /\ UNCHANGED <<rootOf, hostOf>>
  BY DEF InsertBefore
<1>2. /\ p \in Slots /\ c # Document /\ p # c /\ ref # c /\ Exists(p)
      /\ Keeps(nodes, nodes') /\ p \notin OwnedSubtrees(nodes, c)
      /\ Placed(p, c, ref)
  BY InsertedInFront
<1>3. ref = None \/ (ref \in Slots /\ ref # c /\ nodes[ref].parent = p)
  BY <1>2
<1>4. Tree!Place(c, p)
  BY <1>1, <1>2, <1>3, PlaceIs
<1> QED
  BY <1>2, <1>4

\* detach.
LEMMA DetachTakes ==
    ASSUME IInv, IInv', NEW n \in Slots, Detach(n)
    PROVE  Tree!Take(n) \/ UNCHANGED Tree!vars
<1> DEFINE parent == [m \in Slots |-> nodes[m].parent]
           next == [m \in Slots |-> nodes[m].next]
<1>1. /\ Exists(n) /\ UNCHANGED <<rootOf, hostOf>>
      /\ nodes' = Written(nodes, Detached(nodes, n, TRUE))
  BY DEF Detach
<1>2. CASE n = Document \/ IsRoot(n)
  <2>0. Keeps(nodes, nodes)
    BY DEF Keeps
  <2>1. nodes' = nodes
    BY <1>1, <1>2, <2>0, Overwritten DEF Detached, IInv
  <2> QED
    BY <1>1, <2>1 DEF Tree!vars, Exists
<1>3. CASE n # Document /\ ~IsRoot(n)
  <2>1. /\ Keeps(nodes, nodes') /\ nodes'[n].parent = None
        /\ \A m \in Slots \ {n} : /\ nodes'[m].parent = nodes[m].parent
                                  /\ nodes'[m].next = Skipped(n, m)
    <3> PICK us : us = Detached(nodes, n, TRUE)
      OBVIOUS
    <3>1. /\ Shape(us) /\ Keeps(nodes, us) /\ us[n].parent = None
          /\ \A m \in Slots \ {n} : us[m].parent = nodes[m].parent /\ us[m].next = Skipped(n, m)
      BY <1>1, <1>3, DetachedAny
    <3>2. nodes' = us
      BY <1>1, <3>1, Overwritten
    <3> QED
      BY <3>1, <3>2
  <2>2. nodes'[n].next = None
    BY <2>1, NoneIsNoSlot DEF IInv, Shape, NeighboursAgree
  <2>3. Live' = Live
    BY <2>1 DEF Keeps, Live, Exists
  <2>4. parent' = [parent EXCEPT ![n] = None]
    BY <2>1
  <2>5. next' = Tree!Without(n)
    <3>1. \A m \in Slots : next'[m] = Tree!Without(n)[m]
      BY <2>1, <2>2, SkippedIs DEF Tree!Without
    <3> QED
      BY <3>1 DEF Tree!Without
  <2>6. Tree!Take(n)
    BY <1>1, <1>3, <2>3, <2>4, <2>5 DEF Tree!Take, Live
  <2> QED
    BY <2>6
<1> QED
  BY <1>2, <1>3

\* new_node.
LEMMA NewNodeCreates ==
    ASSUME IInv, IInv', NEW n \in Slots, NEW kind \in {"element", "document"},
           NewNode(n, kind)
    PROVE  Tree!Create
<1>1. /\ nodes' = [nodes EXCEPT ![n] = Fresh(kind)] /\ UNCHANGED <<rootOf, hostOf>>
      /\ nodes[n] = Vacant /\ nodes \in [Slots -> Node]
  BY Allocated DEF NewNode, IInv, Typed
<1>2. nodes'[n] = Fresh(kind) /\ \A m \in Slots \ {n} : nodes'[m] = nodes[m]
  BY <1>1
<1>3. /\ nodes'[n].parent = nodes[n].parent /\ nodes'[n].next = nodes[n].next
      /\ nodes'[n].kind # "none" /\ nodes[n].kind = "none"
  <2>1. nodes[n] = Vacant /\ nodes'[n] = Fresh(kind)
    BY <1>1, <1>2
  <2> QED
    BY ONLY <2>1, kind \in {"element", "document"} DEF Vacant, Fresh
<1>4. n \in Slots \ Live /\ Live' = Live \cup {n}
  BY <1>2, <1>3 DEF Live, Exists
<1>5. /\ [m \in Slots |-> nodes[m].parent]' = [m \in Slots |-> nodes[m].parent]
      /\ [m \in Slots |-> nodes[m].next]' = [m \in Slots |-> nodes[m].next]
  BY <1>2, <1>3
<1> QED
  BY <1>1, <1>4, <1>5 DEF Tree!Create, Live

\* remove.
LEMMA RemoveFrees ==
    ASSUME IInv, IInv', intact', NEW n \in Slots, RemoveNode(n)
    PROVE  Tree!Free(n)
<1> PICK us : us = Detached(nodes, n, TRUE)
  OBVIOUS
<1> PICK gone : gone = OwnedSubtrees(nodes, n)
  OBVIOUS
<1>0. /\ n \in Slots \ {Document} /\ Exists(n)
  BY DEF RemoveNode
<1>00. Written(nodes, us) = us
  BY <1>0, DetachedAny, Overwritten
<1> DEFINE parent == [m \in Slots |-> nodes[m].parent]
           next == [m \in Slots |-> nodes[m].next]
<1>1. /\ n \in Slots \ {Document} /\ Exists(n) /\ n \in Live
      /\ nodes' = [m \in Slots |-> IF m \in gone THEN Vacant ELSE us[m]]
      /\ rootOf' = [m \in Slots |-> IF m \in gone \/ rootOf[m] \in gone THEN None ELSE rootOf[m]]
  BY <1>0, <1>00 DEF RemoveNode, Vacate, Live
<1>2. /\ Keeps(nodes, us)
      /\ \A m \in Slots \ {n} : us[m].parent = nodes[m].parent /\ us[m].next = Skipped(n, m)
  BY <1>1, DetachedAny
<1>3. Tree!Below(n) = gone /\ n \in gone
  <2>1. n \in gone
    BY OwnedBelow DEF IInv
  <2> QED
    BY <1>1, <2>1, BelowIs
<1>4. Vacant.kind = "none" /\ Vacant.parent = None /\ Vacant.next = None
  BY DEF Vacant, Fresh
<1>5. Live' = Live \ gone
  BY <1>1, <1>2, <1>4 DEF Keeps, Live, Exists
<1>6. parent' = [m \in Slots |-> IF m \in gone THEN None ELSE parent[m]]
  BY <1>1, <1>2, <1>3, <1>4
<1>7. next' = [m \in Slots |-> IF m \in gone THEN None ELSE Tree!NextWithout(n, m)]
  BY <1>1, <1>2, <1>3, <1>4, SkippedIs
<1> QED
  BY <1>1, <1>3, <1>5, <1>6, <1>7 DEF Tree!Free, Live

\* attach_shadow, and the parser's declarative shadow root.
LEMMA AttachAttaches ==
    ASSUME IInv, IInv', NEW h \in Slots, NEW r \in Slots, Hosted(h, r)
    PROVE  Tree!Attach(h, r)
<1>1. /\ nodes[h].kind = "element" /\ rootOf[h] = None /\ r # h /\ r # Document
      /\ hostOf[r] = None /\ rootOf[r] = None
      /\ nodes[r].parent = None
      /\ nodes'[r].kind = "document"
      /\ \A m \in Slots \ {r} : nodes'[m].kind = nodes[m].kind
      /\ \A m \in Slots : nodes'[m].parent = nodes[m].parent /\ nodes'[m].next = nodes[m].next
      /\ rootOf' = [rootOf EXCEPT ![h] = r]
  BY DEF Hosted
<1>2. h \in Live /\ Live' = Live \cup {r}
  BY <1>1 DEF Live, Exists
<1>3. Tree!HostOf(r) = {}
  BY <1>1, Hosts
<1>4. h \notin Tree!Below(r)
  <2>1. PICK T \in SUBSET Slots : r \notin T /\ StaysAbove(nodes, h, T)
    BY DEF Hosted, Clear
  <2> DEFINE U == Live \cap T
  <2>2. \A m \in U : Tree!Above(m) \in U \cup {None}
    <3>1. ASSUME NEW m \in U PROVE Tree!Above(m) \in U \cup {None}
      <4>1. m \in Live /\ m \in Slots /\ m \in T
        BY DEF Live
      <4>2. Tree!Above(m) = HostIncludingParent(nodes, m)
        BY <4>1, AboveIs
      <4>3. HostIncludingParent(nodes, m) \in Live \cup {None}
        BY <4>1, AboveLives
      <4>4. HostIncludingParent(nodes, m) \in T \cup {None}
        BY <2>1, <4>1 DEF StaysAbove
      <4> QED
        BY <4>2, <4>3, <4>4
    <3> QED
      BY <3>1
  <2>3. U \in Tree!Upward
    BY <2>2 DEF Tree!Upward, Live
  <2>4. h \in U /\ r \notin U
    BY <1>2, <2>1 DEF StaysAbove
  <2> QED
    BY <2>3, <2>4 DEF Tree!Below
<1>5. /\ [m \in Slots |-> nodes[m].parent]' = [m \in Slots |-> nodes[m].parent]
      /\ [m \in Slots |-> nodes[m].next]' = [m \in Slots |-> nodes[m].next]
  BY <1>1
<1> QED
  BY <1>1, <1>2, <1>3, <1>4, <1>5 DEF Tree!Attach, Live

\* Every step of the arena is a step of the forest, or changes nothing of it.
LEMMA StepRefines ==
    IInv /\ IInv' /\ intact' /\ [Next]_vars => [Tree!Next]_(Tree!vars)
<1>1. IInv' => \A m \in Slots : m \in Flags' <=> m = Document \/ Tree!Above(m)' \in Flags'
  <2>1. (IInv => \A m \in Slots : m \in Flags <=> m = Document \/ Tree!Above(m) \in Flags)'
    BY FlagsExact, PTL
  <2> QED
    BY <2>1
<1> SUFFICES ASSUME IInv, IInv', intact', [Next]_vars
             PROVE  Tree!Next \/ UNCHANGED Tree!vars
  OBVIOUS
<1>2. \A m \in Slots : m \in Flags' <=> m = Document \/ Tree!Above(m)' \in Flags'
  BY <1>1
<1> DEFINE Moves == \/ Tree!Create
                    \/ \E c \in Slots : Tree!Take(c)
                    \/ \E c, p \in Slots : Tree!Place(c, p)
                    \/ \E h, r \in Slots : Tree!Attach(h, r)
                    \/ \E c \in Slots : Tree!Free(c)
<1>3. Moves => Tree!Next
  BY <1>2 DEF Tree!Next, Flags
<1>4. ASSUME NEW n \in Slots, NEW kind \in {"element", "document"}, NewNode(n, kind)
      PROVE  Moves
  BY <1>4, NewNodeCreates
<1>5. ASSUME NEW p \in Slots, NEW c \in Slots, AppendChild(p, c) PROVE Moves
  BY <1>5, AppendPlaces
<1>6. ASSUME NEW r \in Slots, NEW c \in Slots, InsertBefore(r, c) PROVE Moves
  BY <1>6, InsertPlaces
<1>7. ASSUME NEW n \in Slots, Detach(n) PROVE Moves \/ UNCHANGED Tree!vars
  BY <1>7, DetachTakes
<1>8. ASSUME NEW n \in Slots, RemoveNode(n) PROVE Moves
  BY <1>8, RemoveFrees
<1>9. ASSUME NEW h \in Slots, NEW r \in Slots, AttachShadow(h, r) \/ AttachContents(h, r)
      PROVE  Moves
  BY <1>9, AttachHosts, AttachAttaches
<1>10. CASE UNCHANGED vars
  BY <1>10 DEF vars, Tree!vars, Exists
<1> HIDE DEF Moves
<1> QED
  BY <1>3, <1>4, <1>5, <1>6, <1>7, <1>8, <1>9, <1>10 DEF Next

\* The first state of the arena is the forest of the document alone.
LEMMA InitRefines == Init => Tree!Init
<1> SUFFICES ASSUME Init PROVE Tree!Init
  OBVIOUS
<1>1. /\ nodes = [n \in Slots |-> IF n = Document
                     THEN [Fresh("document") EXCEPT !.connected = TRUE] ELSE Vacant]
      /\ rootOf = [n \in Slots |-> None] /\ Document \in Slots
  BY NoneIsNoSlot DEF Init
<1>2. \A n \in Slots : /\ Exists(n) <=> n = Document
                       /\ nodes[n].connected <=> n = Document
                       /\ nodes[n].parent = None /\ nodes[n].next = None
  BY <1>1 DEF Fresh, Vacant, Exists
<1> QED
  BY <1>1, <1>2 DEF Tree!Init

\* The arena of any size implements the ordered forest with shadow trees, and a
\* node is flagged connected exactly when the document is above it, for as long as
\* the tree is intact.
THEOREM Implements == Spec => IsAForest
<1> DEFINE Inv == intact => IInv
<1>1. Inv /\ Inv' /\ [Next]_vars => [intact' => Tree!Next]_(Tree!vars)
  BY IntactBefore, StepRefines
<1>2. Spec => []Inv
  BY Invariant
<1> HIDE DEF Inv
<1> QED
  BY <1>1, <1>2, InitRefines, PTL DEF Spec, IsAForest
=============================================================================
