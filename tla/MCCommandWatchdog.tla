------------------------- MODULE MCCommandWatchdog -------------------------
(* Two connections: one with two pages, which share its isolate, one with a *)
(* page of its own.                                                         *)
EXTENDS CommandWatchdog, TLC

CONSTANTS c1, c2, p1, p2, p3

PagesOwner == p1 :> c1 @@ p2 :> c1 @@ p3 :> c2
=============================================================================
