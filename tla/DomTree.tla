-------------------------------- MODULE DomTree --------------------------------
(***************************************************************************)
(* The arena of telemaco-dom (tree.rs): nodes in slots, linked by parent,  *)
(* first and last child, previous and next sibling; a "connected" flag     *)
(* kept up to date where subtrees move; shadow roots in two registries,    *)
(* outside the parent links; freed slots handed out again.  Attributes,    *)
(* text and the id index are left out.                                     *)
(*                                                                         *)
(* A slot that holds no node is the record Vacant.  The order of free_list *)
(* is abstracted: free counts its entries per slot and any may be popped.  *)
(***************************************************************************)
EXTENDS Integers

CONSTANT MaxNodes         \* bound: slots the arena may come to have

ASSUME DomTreeAssumption == MaxNodes \in Nat \ {0}

Slots == 0..(MaxNodes - 1)
Document == 0
None == -1

VARIABLES nodes,          \* the slots
          len,            \* nodes.len()
          free,           \* free_list
          rootOf,         \* shadow_roots_by_host
          hostOf,         \* shadow_roots
          intact          \* history: none of the calls below has been made

(* Three calls the code accepts spoil the tree: the document given as a    *)
(* child, the document removed, a fragment attached to a host inside it.   *)
(* intact only records that none was made; nothing looks at it.            *)
vars == <<nodes, len, free, rootOf, hostOf, intact>>

Node == [kind : {"element", "document", "none"}, connected : BOOLEAN,
         parent : Slots \cup {None}, first : Slots \cup {None},
         last : Slots \cup {None}, prev : Slots \cup {None},
         next : Slots \cup {None}]

Fresh(kind) == [kind |-> kind, connected |-> FALSE, parent |-> None,
                first |-> None, last |-> None, prev |-> None, next |-> None]
Vacant == Fresh("none")

TypeOK == /\ nodes \in [Slots -> Node] /\ len \in 1..MaxNodes
          /\ free \in [Slots -> Nat]
          /\ rootOf \in [Slots -> Slots \cup {None}]
          /\ hostOf \in [Slots -> Slots \cup {None}]
          /\ intact \in BOOLEAN

Init ==
    /\ nodes = [n \in Slots |-> IF n = Document
                   THEN [Fresh("document") EXCEPT !.connected = TRUE] ELSE Vacant]
    /\ len = 1 /\ free = [n \in Slots |-> 0]
    /\ rootOf = [n \in Slots |-> None] /\ hostOf = [n \in Slots |-> None]
    /\ intact = TRUE

Exists(n) == nodes[n].kind # "none"
IsRoot(n) == hostOf[n] # None

----------------------------------------------------------------------------
(* What the code's walks over the links reach: the smallest set they stay  *)
(* in.  The step bounds the walks carry are left out: LinksAgree and       *)
(* NoneAboveItself say that none is met in a tree that is intact.          *)

(* A walk down from n: first children and their siblings, hosted roots.    *)
StaysBelow(ns, n, S) ==
    /\ n \in S
    /\ \A m \in S : /\ {ns[m].first, rootOf[m]} \subseteq S \cup {None}
                    /\ m # n => ns[m].next \in S \cup {None}

\* A bug it could have: the shadow trees hosted below are not followed.
OwnedSubtrees_Light(ns, n) ==
    {m \in Slots : \A S \in SUBSET Slots :
        (/\ n \in S
         /\ \A k \in S : /\ ns[k].first \in S \cup {None}
                         /\ k # n => ns[k].next \in S \cup {None}) => m \in S}

OwnedSubtrees(ns, n) ==
    LET closed == {S \in SUBSET Slots : StaysBelow(ns, n, S)}
    IN  {m \in Slots : \A S \in closed : m \in S}

HostIncludingParent(ns, n) ==
    IF ns[n].parent # None THEN ns[n].parent ELSE hostOf[n]

(* A walk up.                                                              *)
StaysAbove(ns, n, S) ==
    n \in S /\ \A m \in S : HostIncludingParent(ns, m) \in S \cup {None}

\* A bug it could have: a host without children is taken for a leaf.
WouldCreateCycle_Leaf(ns, parent, child) ==
    /\ ns[child].first # None
    /\ ~\E S \in SUBSET Slots : child \notin S /\ StaysAbove(ns, parent, S)

WouldCreateCycle(ns, parent, child) ==
    /\ ns[child].first # None \/ rootOf[child] # None
    /\ ~\E S \in SUBSET Slots : child \notin S /\ StaysAbove(ns, parent, S)

----------------------------------------------------------------------------
(* What the operations do to the slots.                                    *)
SetFlag(ns, owned, b) ==
    [m \in Slots |-> IF m \in owned THEN [ns[m] EXCEPT !.connected = b] ELSE ns[m]]
SetConnected(ns, top, b) == SetFlag(ns, OwnedSubtrees(ns, top), b)

Unlink(ns, n) ==
    [m \in Slots |->
        IF m = n THEN [ns[m] EXCEPT !.parent = None, !.prev = None, !.next = None]
        ELSE [ns[m] EXCEPT
            !.next  = IF m = ns[n].prev THEN ns[n].next ELSE @,
            !.prev  = IF m = ns[n].next THEN ns[n].prev ELSE @,
            !.first = IF m = ns[n].parent /\ ns[n].prev = None THEN ns[n].next ELSE @,
            !.last  = IF m = ns[n].parent /\ ns[n].next = None THEN ns[n].prev ELSE @]]

Detached(ns, n, disconnect) ==
    IF n = Document \/ IsRoot(n) THEN ns
    ELSE Unlink(IF disconnect /\ ns[n].connected THEN SetConnected(ns, n, FALSE)
                                                 ELSE ns, n)

LinkLast(ns, p, c) ==
    [m \in Slots |-> [ns[m] EXCEPT
        !.parent = IF m = c THEN p ELSE @,
        !.prev   = IF m = c THEN ns[p].last ELSE @,
        !.next   = IF m = ns[p].last THEN c ELSE IF m = c THEN None ELSE @,
        !.first  = IF m = p /\ @ = None THEN c ELSE @,
        !.last   = IF m = p THEN c ELSE @]]

\* A bug it could have: prev is read before c is taken out of the list.
LinkBefore_Stale(ns, p, c, ref) ==
    [m \in Slots |-> [ns[m] EXCEPT
        !.parent = IF m = c THEN p ELSE @,
        !.prev   = IF m = ref THEN c ELSE IF m = c THEN nodes[ref].prev ELSE @,
        !.next   = IF m = nodes[ref].prev THEN c ELSE IF m = c THEN ref ELSE @,
        !.first  = IF m = p /\ nodes[ref].prev = None THEN c ELSE @]]

LinkBefore(ns, p, c, ref) ==
    [m \in Slots |-> [ns[m] EXCEPT
        !.parent = IF m = c THEN p ELSE @,
        !.prev   = IF m = ref THEN c ELSE IF m = c THEN ns[ref].prev ELSE @,
        !.next   = IF m = ns[ref].prev THEN c ELSE IF m = c THEN ref ELSE @,
        !.first  = IF m = p /\ ns[ref].prev = None THEN c ELSE @]]

(* append_child and insert_before rewrite the flag of the subtree only     *)
(* where the move changes it: before it is taken out, or once it is linked.*)
TakenOut(c, p) == Detached(nodes, c, nodes[c].connected /\ ~nodes[p].connected)
Settled(ns, c, p) == IF nodes[p].connected /\ ~nodes[c].connected
                     THEN SetConnected(ns, c, TRUE) ELSE ns

(* Every write looks whether the slot still holds a node.                  *)
Written(ns, gs) == [m \in Slots |-> IF ns[m].kind = "none" THEN ns[m] ELSE gs[m]]

----------------------------------------------------------------------------
(* The operations.                                                         *)

(* A popped slot, or a new one.                                            *)
Allocate(n) == \/ /\ free[n] > 0 /\ free' = [free EXCEPT ![n] = @ - 1]
                  /\ UNCHANGED len
               \/ /\ \A m \in Slots : free[m] = 0
                  /\ n = len /\ len' = len + 1 /\ UNCHANGED free

NewNode(n, kind) ==
    /\ Allocate(n)
    /\ nodes' = [nodes EXCEPT ![n] = Fresh(kind)]
    /\ UNCHANGED <<rootOf, hostOf, intact>>

AppendChild(p, c) ==
    /\ p # c /\ Exists(p) /\ Exists(c) /\ ~IsRoot(c)
    /\ ~WouldCreateCycle(nodes, p, c)
    /\ nodes' = Written(nodes, Settled(LinkLast(TakenOut(c, p), p, c), c, p))
    /\ intact' = (intact /\ c # Document)
    /\ UNCHANGED <<len, free, rootOf, hostOf>>

InsertBefore(ref, c) ==
    /\ ref # c /\ Exists(c) /\ ~IsRoot(c)
    /\ \E p \in Slots :
           /\ p = nodes[ref].parent /\ ~WouldCreateCycle(nodes, p, c)
           /\ nodes' = Written(nodes, Settled(LinkBefore(TakenOut(c, p), p, c, ref), c, p))
    /\ intact' = (intact /\ c # Document)
    /\ UNCHANGED <<len, free, rootOf, hostOf>>

Detach(n) ==
    /\ Exists(n)
    /\ nodes' = Written(nodes, Detached(nodes, n, TRUE))
    /\ UNCHANGED <<len, free, rootOf, hostOf, intact>>

(* Every slot that was live is vacated and freed once; both registries     *)
(* forget the hosts and the roots among them.                              *)
Vacate(n, gone) ==
    /\ nodes' = [m \in Slots |-> IF m \in gone THEN Vacant
                                 ELSE Written(nodes, Detached(nodes, n, TRUE))[m]]
    /\ free' = [m \in Slots |-> IF m \in gone /\ Exists(m) THEN free[m] + 1
                                                           ELSE free[m]]
    /\ rootOf' = [m \in Slots |-> IF m \in gone \/ rootOf[m] \in gone
                                  THEN None ELSE rootOf[m]]
    /\ hostOf' = [m \in Slots |-> IF m \in gone \/ hostOf[m] \in gone
                                  THEN None ELSE hostOf[m]]

RemoveNode(n) == /\ Exists(n)
                 /\ Vacate(n, OwnedSubtrees(nodes, n))
                 /\ intact' = (intact /\ n # Document)
                 /\ UNCHANGED len

(* The registries first, then the flag of the tree that came with the root.*)
Register(h, r, ns) ==
    /\ rootOf' = [rootOf EXCEPT ![h] = r] /\ hostOf' = [hostOf EXCEPT ![r] = h]
    /\ nodes' = Written(ns, SetConnected(ns, r, ns[h].connected))

AttachShadow(h, n) ==
    /\ nodes[h].kind = "element" /\ rootOf[h] = None
    /\ Allocate(n)
    /\ Register(h, n, [nodes EXCEPT ![n] = Fresh("document")])
    /\ UNCHANGED intact

(* A detached fragment becomes the shadow root of h.  The parser hands in  *)
(* the contents of a template it has just made; that h might stand inside  *)
(* the fragment is nowhere refused.                                        *)
StandsInside(h, r) == ~\E S \in SUBSET Slots : r \notin S /\ StaysAbove(nodes, h, S)

AttachContents(h, r) ==
    /\ nodes[h].kind = "element" /\ rootOf[h] = None
    /\ r # Document /\ ~IsRoot(r) /\ nodes[r].kind = "document"
    /\ nodes[r].parent = None /\ nodes[r].prev = None /\ nodes[r].next = None
    /\ Register(h, r, nodes)
    /\ intact' = (intact /\ ~StandsInside(h, r))
    /\ UNCHANGED <<len, free>>

Next ==
    \/ \E n \in Slots, kind \in {"element", "document"} : NewNode(n, kind)
    \/ \E p, c \in Slots : AppendChild(p, c) \/ InsertBefore(p, c)
    \/ \E n \in Slots : Detach(n) \/ RemoveNode(n)
    \/ \E h, n \in Slots : AttachShadow(h, n) \/ AttachContents(h, n)

Spec == Init /\ [][Next]_vars

----------------------------------------------------------------------------
(* Whom a node names as a neighbour names it back and has its parent; a   *)
(* node without a previous sibling is its parent's first child, one        *)
(* without a next sibling the last; a node in no list has no sibling.      *)
NeighboursAgree(ns) ==
    \A m \in Slots :
        /\ ns[m].prev # None => /\ ns[ns[m].prev].next = m /\ ns[m].parent # None
                                /\ ns[ns[m].prev].parent = ns[m].parent
        /\ ns[m].next # None => /\ ns[ns[m].next].prev = m /\ ns[m].parent # None
                                /\ ns[ns[m].next].parent = ns[m].parent
        /\ ns[m].parent # None => /\ ns[ns[m].parent].first # None
                                  /\ ns[m].prev = None => ns[ns[m].parent].first = m
                                  /\ ns[m].next = None => ns[ns[m].parent].last = m
        /\ ns[m].first # None => ns[ns[m].first].parent = m /\ ns[ns[m].first].prev = None
        /\ ns[m].last # None => ns[ns[m].last].parent = m /\ ns[ns[m].last].next = None
        /\ ns[m].first = None <=> ns[m].last = None

(* No set of slots can be walked for ever, forwards or backwards.          *)
ListsEnd(ns) ==
    \A S \in SUBSET Slots : S # {} => /\ \E m \in S : ns[m].next \notin S
                                    /\ \E m \in S : ns[m].prev \notin S

(* The children of every node are one list that reads the same both ways   *)
(* and ends: children, next_sibling and the walks over a subtree meet each *)
(* of them exactly once, as long as the tree is intact.  (A document that  *)
(* is appended to one detached element twice becomes its own sibling.)     *)
LinksAgree == intact => NeighboursAgree(nodes) /\ ListsEnd(nodes)

(* No node is above itself, through parents and from a shadow root to its  *)
(* host: every walk to the top ends, as long as the tree is intact.        *)
(* would_create_host_including_cycle skips its walk for a leaf that hosts  *)
(* nothing.                                                                *)
WalksUpEnd(ns) ==
    \A S \in SUBSET Slots : S # {} => \E m \in S : HostIncludingParent(ns, m) \notin S

NoneAboveItself == intact => WalksUpEnd(nodes)

(* A slot is on the free list exactly once when it holds no node and not   *)
(* at all when it does, and the two registries name each other, so that a  *)
(* slot handed out again starts with no parent, host or shadow root.       *)
(* Proved of a tree that is intact.                                        *)
SlotsExact ==
    \A n \in Slots :
        /\ free[n] = IF n < len /\ ~Exists(n) THEN 1 ELSE 0
        /\ ~Exists(n) => nodes[n] = Vacant /\ rootOf[n] = None /\ hostOf[n] = None
        /\ rootOf[n] # None => hostOf[rootOf[n]] = n
        /\ hostOf[n] # None => rootOf[hostOf[n]] = n /\ nodes[n].parent = None

(* The links, the flag and the registries implement the ordered forest:    *)
(* every operation after which the tree is intact is one of its steps, and *)
(* a node is flagged connected exactly when the document is above it.      *)
Tree == INSTANCE Forest WITH Nodes <- Slots,
            live <- {n \in Slots : Exists(n)},
            parent <- [n \in Slots |-> nodes[n].parent],
            next <- [n \in Slots |-> nodes[n].next], hosted <- rootOf,
            connected <- {n \in Slots : nodes[n].connected}

IsAForest == Tree!Init /\ [][intact' => Tree!Next]_(Tree!vars)
=============================================================================
