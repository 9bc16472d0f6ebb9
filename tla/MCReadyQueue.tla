---------------------------- MODULE MCReadyQueue ----------------------------
(***************************************************************************)
(* Instances of ReadyQueue for TLC.                                        *)
(***************************************************************************)
EXTENDS ReadyQueue

CONSTANTS a, b, c, th1, th2, th3

MCElem   == {a, b, c}
MCThread == {th1, th2, th3}

MCSymmetry == Permutations(MCElem) \cup Permutations(MCThread)

=============================================================================
