--------------------------- MODULE MCCdpProcessor ----------------------------
(***************************************************************************)
(* Small instances of CdpProcessor.                                        *)
(***************************************************************************)
EXTENDS CdpProcessor, TLC

\* Three navigations, an evaluation and one command of the other kinds: enough
\* for two to be put off in either order, for a third to be refused, and for a
\* navigation that was put off to put off more while an older command waits.
FewOfEach == {"navigate"} :> 3 @@ {"evaluate"} :> 1 @@ {"mention", "other", "detach"} :> 1

\* No bound but MaxCommands.
AnyNumber == <<>>
==============================================================================
