----------------------------- MODULE MCLifecycle -----------------------------
(***************************************************************************)
(* Instances of Lifecycle for TLC.                                         *)
(***************************************************************************)
EXTENDS Lifecycle, TLC

\* Two workers on node 0, one on node 1.
TwoAndOne == 0 :> 2 @@ 1 :> 1
AnyLibrary == BOOLEAN
SafeLibrary == {TRUE}

=============================================================================
