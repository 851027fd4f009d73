------------------------------ MODULE MCDomTree ------------------------------
(* The document and four more slots: a host in a shadow tree of a host.  A  *)
(* tree that is no longer intact is looked at once and not taken further.   *)
EXTENDS DomTree

Intact == intact

\* "The public mutation API cannot create such a cycle" (tree.rs:2310): by hand,
\* with MCDomTreeDocument.cfg, which shows the two calls that do.
SiblingsEnd == ListsEnd(nodes)
=============================================================================
