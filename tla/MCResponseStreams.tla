-------------------------- MODULE MCResponseStreams --------------------------
(***************************************************************************)
(* A small instance of ResponseStreams: two streams, four bytes.           *)
(***************************************************************************)
EXTENDS ResponseStreams

\* One byte, a body that takes two chunks to read, one that fills the store
\* and one the store refuses.
MCSizes == {1, 3, 4, 5}
=============================================================================
