-------------------------- MODULE MCResourceCache --------------------------
(* Empty bodies make the entry limit bind, longer ones the byte limit, the  *)
(* longest fits no cache.                                                   *)
EXTENDS ResourceCache
MCLifetimes == {0, 1}
MCSizes == {0, 1, 2, 3}
=============================================================================
