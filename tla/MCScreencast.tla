---------------------------- MODULE MCScreencast ----------------------------
(* Two streams of one session, sampled at every frame or every other one. *)
EXTENDS Screencast
=============================================================================
