------------------------ MODULE MCCookiePersistence --------------------------
(***************************************************************************)
(* Small instances of CookiePersistence.  Connections are interchangeable, *)
(* and so are cookie keys.                                                 *)
(***************************************************************************)
EXTENDS CookiePersistence, TLC

Symmetric == Permutations(Conns) \cup Permutations(Keys)
=============================================================================
