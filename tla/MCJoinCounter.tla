---------------------------- MODULE MCJoinCounter ----------------------------
(***************************************************************************)
(* Instances of JoinCounter for TLC: a parent with a pool of three child   *)
(* descriptors, so that early finishers overlap with creations and waits.  *)
(***************************************************************************)
EXTENDS JoinCounter

CONSTANTS c1, c2, c3

MCChild == {c1, c2, c3}

\* The waits without torc_waitall2.
LockedWaits == {"waitall", "waitall3"}

=============================================================================
