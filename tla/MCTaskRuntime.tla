---------------------------- MODULE MCTaskRuntime ----------------------------
(***************************************************************************)
(* Instances of TaskRuntime for TLC.                                       *)
(***************************************************************************)
EXTENDS TaskRuntime

CONSTANTS w1, w2, w3, t1, t2, t3, root

\* One worker on each of two nodes.
OnePerNode == {w1, w2}
OnePerNodeOf == [w \in OnePerNode |-> IF w = w1 THEN 0 ELSE 1]

\* Two workers on node 0, which share its queues and its internode_m.
TwoAndOne == {w1, w2, w3}
TwoAndOneOf == [w \in TwoAndOne |-> IF w = w3 THEN 1 ELSE 0]

TwoTasks   == {t1, t2}
ThreeTasks == {t1, t2, t3}

\* The safety runs are unchanged when the tasks are exchanged.
TaskSymmetry == Permutations(ThreeTasks)

\* What the application calls, besides torc_waitall.
OnlyTasks == {"torc_task"}
Stealing  == {"torc_task", "stealing"}
Counted   == {"torc_task", "torc_task_direct", "torc_waitall3", "stealing"}

=============================================================================
