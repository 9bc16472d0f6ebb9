-------------------------- MODULE JoinCounterProofs --------------------------
(***************************************************************************)
(* The join counter is right for any number of children and any choice of  *)
(* waits, provided the application does not spin in torc_waitall3 without  *)
(* having created a task (which makes ndep -1).                            *)
(*                                                                         *)
(* Count alone is not inductive: to know that a wait finds the guard in    *)
(* ndep, and that the clamp is only reached when nothing was created, one  *)
(* must know at which points of the parent the guard is there (GuardAt).   *)
(* NoTouchAfterRecycle needs besides that the lock has the one owner the   *)
(* children's positions say (LockOwner).                                   *)
(***************************************************************************)
EXTENDS JoinCounter, FiniteSetTheorems, TLAPS

\* Where the guard must be in ndep, and where it cannot be.
GuardAt ==
  /\ pc \in {"depadd", "publish"} => guard = 1
  /\ pc \notin {"body", "depadd", "publish"} => guard = 0

\* The inductive invariant behind Count and JoinSafe.
CountInv == TypeOK /\ GuardAt /\ Count /\ JoinSafe

----------------------------------------------------------------------------
(* Pending, as a child moves.                                              *)

\* Pending is a finite set, empty exactly when its cardinality is zero.
LEMMA PendingFinite ==
  /\ IsFiniteSet(Pending)
  /\ Cardinality(Pending) \in Nat
  /\ Cardinality(Pending) = 0 <=> Pending = {}
<1>1. Pending \subseteq Child
  BY DEF Pending
<1>2. IsFiniteSet(Pending)
  BY <1>1, FS_Subset, ChildAssumption
<1> QED
  BY <1>2, FS_CardinalityType, FS_EmptySet

\* Publishing a child adds one to the pending children.
LEMMA PendingPublish ==
  ASSUME TypeOK, NEW c \in Child, Publish(c)
  PROVE  Cardinality(Pending') = Cardinality(Pending) + 1
<1>1. Pending' = Pending \cup {c}
  BY DEF TypeOK, Publish, Pending
<1>2. c \notin Pending
  BY DEF Publish, Pending
<1> QED
  BY <1>1, <1>2, PendingFinite, FS_AddElement

\* A decrement takes one off the pending children.
LEMMA PendingDecrement ==
  ASSUME TypeOK, NEW c \in Child, ChildDecrement(c)
  PROVE  Cardinality(Pending') = Cardinality(Pending) - 1
<1>1. Pending' = Pending \ {c}
  BY DEF TypeOK, ChildDecrement, ChildGoes, Pending
<1>2. c \in Pending
  BY DEF ChildDecrement, ChildGoes, Pending
<1> QED
  BY <1>1, <1>2, PendingFinite, FS_RemoveElement

----------------------------------------------------------------------------
\* The initial state satisfies the invariant: no child, an empty count.
LEMMA CountInit == Init => CountInv
<1> SUFFICES ASSUME Init PROVE CountInv
  OBVIOUS
<1>1. TypeOK
  BY DEF Init, TypeOK, ParentPC, ChildPC
<1>2. Pending = {}
  BY DEF Init, Pending
<1>3. Count
  BY <1>2, FS_EmptySet DEF Init, Count, Creating
<1> QED
  BY <1>1, <1>2, <1>3 DEF Init, CountInv, GuardAt, JoinSafe, Joined

\* Every step of the parent or of a child keeps the invariant.
LEMMA CountStep ==
  ASSUME SpinWithoutTasks = FALSE
  PROVE  CountInv /\ [Next]_vars => CountInv'
<1> SUFFICES ASSUME CountInv, [Next]_vars PROVE CountInv'
  OBVIOUS
<1>0. /\ Cardinality(Pending) \in Nat
      /\ Cardinality(Pending) = 0 <=> Pending = {}
      /\ IsFiniteSet(Pending)
  BY PendingFinite
<1> USE DEF CountInv, TypeOK, GuardAt, Count, Creating, JoinSafe, Joined,
            ParentPC, ParentGoes, AllWaits
<1>1. CASE AddGuard
  <2>1. Pending' = Pending
    BY <1>1 DEF AddGuard, Pending
  <2>2. ndep = guard + Cardinality(Pending) /\ (guard = 0 => Cardinality(Pending) = 0)
    BY <1>0, <1>1 DEF AddGuard
  <2>3. GuardedNdep(ndep) = 1 + Cardinality(Pending)
    BY <1>0, <2>2 DEF GuardedNdep
  <2> QED
    BY <1>0, <1>1, <2>1, <2>3 DEF AddGuard
<1>2. CASE DepAdd
  <2>1. Pending' = Pending
    BY <1>2 DEF DepAdd, Pending
  <2> QED
    BY <1>0, <1>2, <2>1 DEF DepAdd
<1>3. ASSUME NEW c \in Child, Publish(c) PROVE CountInv'
  <2>1. Cardinality(Pending') = Cardinality(Pending) + 1
    BY <1>3, PendingPublish
  <2>2. cpc' \in [Child -> ChildPC]
    BY <1>3 DEF Publish, ChildPC
  <2> QED
    BY <1>0, <1>3, <2>1, <2>2 DEF Publish
<1>4. CASE Block \/ Block2 \/ Spin
  <2>1. Pending' = Pending
    BY <1>4 DEF Block, Block2, Spin, Pending
  <2>2. CASE Block
    BY <1>0, <2>1, <2>2 DEF Block, BlockNdep
  <2>3. CASE Block2
    BY <1>0, <2>1, <2>3 DEF Block2, BlockNdep
  <2>4. CASE Spin
    BY <1>0, <2>1, <2>4 DEF Spin
  <2> QED
    BY <1>4, <2>2, <2>3, <2>4
<1>5. CASE Waiting
  <2>1. Pending' = Pending
    BY <1>5 DEF Waiting, BlockReturn, SpinReturn, Block2Top, Block2Locked, Block2Busy,
                Block2Idle, Block2Test, Pending
  <2>2. CASE BlockReturn \/ SpinReturn
    <3>1. guard = 0 /\ pc # "publish" /\ ndep <= 0
      BY <2>2 DEF BlockReturn, BlockTest, SpinReturn
    <3>2. Pending = {}
      BY <1>0, <3>1
    <3> QED
      BY <2>1, <2>2, <3>1, <3>2 DEF BlockReturn, SpinReturn
  <2>3. CASE Block2Top \/ Block2Busy \/ Block2Idle
    BY <1>0, <2>1, <2>3 DEF Block2Top, Block2Busy, Block2Idle
  <2>4. CASE Block2Locked
    BY <1>0, <2>1, <2>4 DEF Block2Locked
  <2>5. CASE Block2Test
    BY <1>0, <2>1, <2>5 DEF Block2Test
  <2> QED
    BY <1>5, <2>2, <2>3, <2>4, <2>5 DEF Waiting
<1>6. CASE Recycle \/ Reuse
  <2>1. Pending' = Pending
    BY <1>6 DEF Recycle, Reuse, Pending
  <2> QED
    BY <1>0, <1>6, <2>1 DEF Recycle, Reuse
<1>7. ASSUME NEW c \in Child, ChildAcquire(c) \/ ChildRelease(c) PROVE CountInv'
  <2>1. Pending' = Pending
    BY <1>7 DEF ChildAcquire, ChildRelease, ChildGoes, Pending
  <2>2. cpc' \in [Child -> ChildPC]
    BY <1>7 DEF ChildAcquire, ChildRelease, ChildGoes, ChildPC
  <2> QED
    BY <1>0, <1>7, <2>1, <2>2 DEF ChildAcquire, ChildRelease
<1>8. ASSUME NEW c \in Child, ChildDecrement(c) PROVE CountInv'
  <2>1. Cardinality(Pending') = Cardinality(Pending) - 1
    BY <1>8, PendingDecrement
  <2>2. cpc' \in [Child -> ChildPC]
    BY <1>8 DEF ChildDecrement, ChildGoes, ChildPC
  <2>3. c \in Pending
    BY <1>8 DEF ChildDecrement, ChildGoes, Pending
  <2> QED
    BY <1>0, <1>8, <2>1, <2>2, <2>3 DEF ChildDecrement
<1>9. CASE UNCHANGED vars
  <2>1. Pending' = Pending
    BY <1>9 DEF vars, Pending
  <2> QED
    BY <1>0, <1>9, <2>1 DEF vars
<1> QED
  BY <1>1, <1>2, <1>3, <1>4, <1>5, <1>6, <1>7, <1>8, <1>9 DEF Next, Create, ChildStep

\* Type correctness, the exact count and the safety of the waits, for any
\* set of children and any use of the three waits.
THEOREM CountInvariant ==
  ASSUME SpinWithoutTasks = FALSE
  PROVE  Spec => [](TypeOK /\ Count /\ JoinSafe)
<1>1. Init => CountInv
  BY CountInit
<1>2. CountInv /\ [Next]_vars => CountInv'
  BY CountStep
<1>3. CountInv => TypeOK /\ Count /\ JoinSafe
  BY DEF CountInv
<1> QED
  BY <1>1, <1>2, <1>3, PTL DEF Spec

\* No wait returns to the parent while one of its children is pending.
THEOREM NoWaitPassedEarly ==
  ASSUME SpinWithoutTasks = FALSE
  PROVE  Spec => []JoinSafe
BY CountInvariant, PTL

----------------------------------------------------------------------------
\* A child in its critical section owns the parent's lock.
LockOwner == \A c \in Child : cpc[c] \in {"locked", "dec"} => lock = c

\* The parent is inside torc_waitall2 only if that is its last wait.
LastAt == pc \in {"b2top", "b2lock", "b2work", "b2test"} => last = "waitall2"

\* Nothing touches a parent that has joined its children by another wait.
Quiet == Joined /\ last # "waitall2" => Touching = {}

TouchInv == LockOwner /\ LastAt /\ Quiet

\* The initial state satisfies the invariant about touching.
LEMMA TouchInit == Init => TouchInv
  BY DEF Init, TouchInv, LockOwner, LastAt, Quiet, Touching

\* A wait with a locked test sees the lock free, so that a child whose
\* decrement it has seen has also left its critical section.
LEMMA LockedTest ==
  ASSUME CountInv, TouchInv, BlockReturn \/ SpinReturn
  PROVE  Touching = {}
<1>0. /\ Cardinality(Pending) \in Nat
      /\ Cardinality(Pending) = 0 <=> Pending = {}
  BY PendingFinite
<1>1. lock = NULL /\ ndep <= 0 /\ guard = 0 /\ pc # "publish"
  BY DEF BlockReturn, SpinReturn, BlockTest, ParentGoes, CountInv, GuardAt
<1>2. Pending = {}
  BY <1>0, <1>1 DEF CountInv, Count, Creating
<1>3. \A c \in Child : cpc[c] \notin {"alive", "locked", "dec"}
  BY <1>1, <1>2, ChildAssumption DEF Pending, TouchInv, LockOwner
<1> QED
  BY <1>3 DEF CountInv, TypeOK, ChildPC, Touching

\* Every step keeps the invariant about touching.
LEMMA TouchStep == CountInv /\ TouchInv /\ [Next]_vars => TouchInv'
<1> SUFFICES ASSUME CountInv, TouchInv, [Next]_vars PROVE TouchInv'
  OBVIOUS
<1> USE ChildAssumption DEF TouchInv, LockOwner, LastAt, Quiet, Joined, Touching, ParentGoes
<1>1. CASE AddGuard \/ DepAdd \/ Block \/ Block2 \/ Spin \/ Recycle
  BY <1>1 DEF AddGuard, DepAdd, Block, Block2, Spin, Recycle
<1>2. ASSUME NEW c \in Child, Publish(c) PROVE TouchInv'
  <2>1. guard' = 1
    BY <1>2 DEF Publish, CountInv, GuardAt
  <2> QED
    BY <1>2, <2>1 DEF Publish, CountInv, TypeOK
<1>3. CASE BlockReturn \/ SpinReturn
  <2>1. Touching = {}
    BY <1>3, LockedTest
  <2> QED
    BY <1>3, <2>1 DEF BlockReturn, SpinReturn
<1>4. CASE Block2Top \/ Block2Locked \/ Block2Busy \/ Block2Idle \/ Block2Test
  BY <1>4 DEF Block2Top, Block2Locked, Block2Busy, Block2Idle, Block2Test
<1>5. CASE Reuse
  BY <1>5 DEF Reuse
<1>6. ASSUME NEW c \in Child, ChildStep(c) PROVE TouchInv'
  <2>1. c \in Touching /\ UNCHANGED <<pc, guard, last>>
    BY <1>6 DEF ChildStep, ChildAcquire, ChildDecrement, ChildRelease, ChildGoes
  <2>2. LastAt' /\ Quiet'
    BY <2>1
  <2>3. LockOwner'
    BY <1>6 DEF ChildStep, ChildAcquire, ChildDecrement, ChildRelease, ChildGoes,
                CountInv, TypeOK
  <2> QED
    BY <2>2, <2>3
<1>7. CASE UNCHANGED vars
  BY <1>7 DEF vars
<1> QED
  BY <1>1, <1>2, <1>3, <1>4, <1>5, <1>6, <1>7 DEF Next, Create, Waiting

\* A descriptor is never recycled under one of its task's children, unless
\* the last wait of the task was torc_waitall2.
THEOREM RecycleSafe ==
  ASSUME SpinWithoutTasks = FALSE
  PROVE  Spec => []NoTouchAfterRecycle
<1>1. Init => CountInv /\ TouchInv
  BY CountInit, TouchInit
<1>2. CountInv /\ TouchInv /\ [Next]_vars => CountInv' /\ TouchInv'
  BY CountStep, TouchStep
<1>3. CountInv /\ TouchInv => NoTouchAfterRecycle
  BY DEF CountInv, GuardAt, TouchInv, Quiet, Joined, NoTouchAfterRecycle
<1> QED
  BY <1>1, <1>2, <1>3, PTL DEF Spec

\* The count stays a natural number, and at most one child holds the lock:
\* neither the clamp nor a late decrement takes ndep below zero.
THEOREM CountTypes ==
  ASSUME SpinWithoutTasks = FALSE
  PROVE  Spec => []TypeOK
<1>1. CountInv => TypeOK
  BY DEF CountInv
<1> QED
  BY <1>1, CountInit, CountStep, PTL DEF Spec

=============================================================================
