-------------------------------- MODULE Forest --------------------------------
(***************************************************************************)
(* What telemaco-dom's arena promises its callers: an ordered forest whose *)
(* elements may each host one shadow tree.  Nodes are placed, taken out    *)
(* and freed; a node never comes to be above itself, through parents and   *)
(* from a shadow root to its host; and "connected" is always the set of    *)
(* nodes below the document.  DomTree implements it with doubly linked     *)
(* lists, a cached flag per node, two registries and reused slots.         *)
(*                                                                         *)
(* The order of siblings is given by the next of each, None for the last.  *)
(***************************************************************************)
CONSTANTS Nodes, Document, None

VARIABLES live, parent, next, hosted, connected

vars == <<live, parent, next, hosted, connected>>

HostOf(n) == {h \in Nodes : hosted[h] = n}

(* A node's parent, or the host of a shadow root; None above a top.        *)
Above(n) == IF parent[n] # None \/ HostOf(n) = {} THEN parent[n]
            ELSE CHOOSE h \in HostOf(n) : TRUE

(* The sets that hold, with a node, all there is above it.                 *)
Upward == {S \in SUBSET live : \A m \in S : Above(m) \in S \cup {None}}

(* The node and all there is below it, into the shadow trees it hosts.     *)
Below(c) == {m \in live : \A S \in {U \in Upward : c \notin U} : m \notin S}

Init ==
    /\ live = {Document} /\ connected = {Document}
    /\ parent = [n \in Nodes |-> None] /\ next = [n \in Nodes |-> None]
    /\ hosted = [n \in Nodes |-> None]

(* The order of siblings when c has left its place, and when c has come    *)
(* in front of ref, or behind the last child of p.                         *)
NextWithout(c, m) == IF m = c THEN None ELSE IF next[m] = c THEN next[c] ELSE next[m]
Without(c) == [m \in Nodes |-> NextWithout(c, m)]
With(c, p, ref) ==
    [m \in Nodes |-> IF m = c THEN ref
                     ELSE IF parent[m] = p /\ NextWithout(c, m) = ref THEN c
                     ELSE NextWithout(c, m)]

Create == /\ \E n \in Nodes \ live : live' = live \cup {n}
          /\ UNCHANGED <<parent, next, hosted>>

Place(c, p) ==
    /\ UNCHANGED <<live, hosted>>
    /\ parent' = [parent EXCEPT ![c] = p]
    /\ c \in live \ {Document} /\ HostOf(c) = {} /\ p \in live
    /\ \E ref \in {m \in Nodes \ {c} : parent[m] = p} \cup {None} :
           next' = With(c, p, ref)
    /\ p \notin Below(c)

Take(c) ==
    /\ UNCHANGED <<live, hosted>>
    /\ c # Document
    /\ parent' = [parent EXCEPT ![c] = None] /\ next' = Without(c)

(* r, new or the top of a tree of its own, becomes the shadow root of h.   *)
Attach(h, r) ==
    /\ UNCHANGED <<parent, next>>
    /\ h \in live /\ hosted[h] = None
    /\ r # Document /\ HostOf(r) = {} /\ parent[r] = None
    /\ live' = live \cup {r} /\ hosted' = [hosted EXCEPT ![h] = r]
    /\ h \notin Below(r)

Free(c) ==
    /\ c \in live \ {Document}
    /\ LET gone == Below(c) IN
       /\ live' = live \ gone
       /\ parent' = [n \in Nodes |-> IF n \in gone THEN None ELSE parent[n]]
       /\ next' = [n \in Nodes |-> IF n \in gone THEN None ELSE NextWithout(c, n)]
       /\ hosted' = [n \in Nodes |-> IF n \in gone \/ hosted[n] \in gone
                                     THEN None ELSE hosted[n]]

Next ==
    /\ \/ Create
       \/ \E c \in Nodes : Take(c)
       \/ \E c, p \in Nodes : Place(c, p)
       \/ \E h, r \in Nodes : Attach(h, r)
       \/ \E c \in Nodes : Free(c)
    /\ \A m \in Nodes : m \in connected' <=> m = Document \/ Above(m)' \in connected'

Spec == Init /\ [][Next]_vars
=============================================================================
