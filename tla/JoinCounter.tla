----------------------------- MODULE JoinCounter -----------------------------
(***************************************************************************)
(* The join counter of one task descriptor: how a parent that creates      *)
(* tasks counts them in desc->ndep, how each finished child takes itself   *)
(* off (by a worker in _torc_cleanup or by the server thread when an       *)
(* answer arrives), and how the three waits of the API decide that the     *)
(* count is complete:                                                      *)
(*                                                                         *)
(*   torc_waitall    _torc_block    locked test, runs other tasks between  *)
(*   torc_waitall2   _torc_block2   the test that lets it return is not    *)
(*                                  under the lock                         *)
(*   torc_waitall3                  locked test, spins                     *)
(*                                                                         *)
(* The count carries one extra unit, the guard, from the first creation to *)
(* the wait, so that a child that finishes early cannot bring it to zero   *)
(* while the parent is still creating.                                     *)
(*                                                                         *)
(* The parent's critical sections touch ndep only and are one step each;   *)
(* a child's is three (acquire, decrement, release), because waitall2      *)
(* reads ndep inside it.  Child stands for the pool of descriptors the     *)
(* parent's tasks live in; a finished child's descriptor can be used       *)
(* again, and so can the parent's own.                                     *)
(***************************************************************************)
EXTENDS Integers, FiniteSets

CONSTANTS
  Child,            \* descriptors for the tasks of this parent
  Waits,            \* the waits the application uses
  SpinWithoutTasks, \* may it call torc_waitall3 when it created nothing?
  NULL              \* no owner

AllWaits == {"waitall", "waitall2", "waitall3"}

ASSUME ChildAssumption == IsFiniteSet(Child) /\ NULL \notin Child
ASSUME WaitsAssumption == Waits \subseteq AllWaits
ASSUME SpinAssumption  == SpinWithoutTasks \in BOOLEAN

VARIABLES
  ndep,     \* desc->ndep of the parent
  lock,     \* the child inside desc->lock's critical section, or NULL
  pc,       \* where the parent is
  cpc,      \* where each child is
  guard,    \* history: the guard unit in ndep, 0 or 1
  last      \* history: the last wait of the parent, NULL before the first

vars == <<ndep, lock, pc, cpc, guard, last>>

ParentPC == {"body", "depadd", "publish", "block",
             "b2top", "b2lock", "b2work", "b2test", "spin", "recycled"}
ChildPC  == {"free", "alive", "locked", "dec"}

\* Children whose unit is in ndep.
Pending == {c \in Child : cpc[c] \in {"alive", "locked"}}

\* Children that may still read or write the parent's descriptor.
Touching == {c \in Child : cpc[c] # "free"}

Init ==
  /\ ndep = 0
  /\ lock = NULL
  /\ pc = "body"
  /\ cpc = [c \in Child |-> "free"]
  /\ guard = 0
  /\ last = NULL

ParentGoes(from, to) == pc = from /\ pc' = to

----------------------------------------------------------------------------
(* Creating a task: torc_task and its variants.                            *)

\* Variants of GuardedNdep: the test is forgotten; the guard is forgotten.
GuardOverwrites(d) == 1
GuardForgotten(d)  == d

\* What the first critical section leaves in ndep.
GuardedNdep(d) == IF d = 0 THEN 1 ELSE d

AddGuard ==
  /\ ParentGoes("body", "depadd")
  /\ lock = NULL
  /\ \E c \in Child : cpc[c] = "free"
  /\ ndep' = GuardedNdep(ndep)
  /\ guard' = 1
  /\ UNCHANGED <<lock, cpc, last>>

DepAdd ==
  /\ ParentGoes("depadd", "publish")
  /\ lock = NULL
  /\ ndep' = ndep + 1
  /\ UNCHANGED <<lock, cpc, guard, last>>

Publish(c) ==
  /\ ParentGoes("publish", "body")
  /\ cpc[c] = "free"
  /\ cpc' = [cpc EXCEPT ![c] = "alive"]
  /\ UNCHANGED <<ndep, lock, guard, last>>

----------------------------------------------------------------------------
(* A child finishes: _torc_depsatisfy.                                     *)

ChildGoes(c, from, to) == cpc[c] = from /\ cpc' = [cpc EXCEPT ![c] = to]

ChildAcquire(c) ==
  /\ ChildGoes(c, "alive", "locked")
  /\ lock = NULL
  /\ lock' = c
  /\ UNCHANGED <<ndep, pc, guard, last>>

ChildDecrement(c) ==
  /\ ChildGoes(c, "locked", "dec")
  /\ ndep' = ndep - 1
  /\ UNCHANGED <<lock, pc, guard, last>>

ChildRelease(c) ==
  /\ ChildGoes(c, "dec", "free")
  /\ lock' = NULL
  /\ UNCHANGED <<ndep, pc, guard, last>>

----------------------------------------------------------------------------
(* The waits.                                                              *)

\* Variants of BlockNdep: no clamp; the guard is not given up.
BlockUnclamped(d) == d - 1
BlockKeepsGuard(d) == d

\* ndep after a wait of the block family has given up the guard.
BlockNdep(d) == IF d - 1 < 0 THEN 0 ELSE d - 1

\* Variant of BlockTest: without the lock.
BlockTestUnlocked == ndep <= 0

\* The test under the lock that lets _torc_block return.
BlockTest == lock = NULL /\ ndep <= 0

Block ==
  /\ "waitall" \in Waits
  /\ ParentGoes("body", "block")
  /\ lock = NULL
  /\ ndep' = BlockNdep(ndep)
  /\ guard' = 0
  /\ last' = "waitall"
  /\ UNCHANGED <<lock, cpc>>

\* A test that fails changes nothing: the loop runs another task.
BlockReturn ==
  /\ ParentGoes("block", "body")
  /\ BlockTest
  /\ UNCHANGED <<ndep, lock, cpc, guard, last>>

Block2 ==
  /\ "waitall2" \in Waits
  /\ ParentGoes("body", "b2top")
  /\ lock = NULL
  /\ ndep' = BlockNdep(ndep)
  /\ guard' = 0
  /\ last' = "waitall2"
  /\ UNCHANGED <<lock, cpc>>

\* The unlocked look at ndep at the top of the loop.
Block2Top ==
  /\ pc = "b2top"
  /\ pc' = IF ndep > 0 THEN "b2lock" ELSE "b2work"
  /\ UNCHANGED <<ndep, lock, cpc, guard, last>>

Block2Locked ==
  /\ pc = "b2lock"
  /\ lock = NULL
  /\ IF ndep <= 0
       THEN pc' = "body" /\ ndep' = 0
       ELSE pc' = "b2work" /\ UNCHANGED ndep
  /\ UNCHANGED <<lock, cpc, guard, last>>

\* _torc_scheduler_loop(1) ran a task, or found none.
Block2Busy == ParentGoes("b2work", "b2top") /\ UNCHANGED <<ndep, lock, cpc, guard, last>>

Block2Idle == ParentGoes("b2work", "b2test") /\ UNCHANGED <<ndep, lock, cpc, guard, last>>

\* The unlocked test after an idle round.
Block2Test ==
  /\ pc = "b2test"
  /\ pc' = IF ndep = 0 THEN "body" ELSE "b2top"
  /\ UNCHANGED <<ndep, lock, cpc, guard, last>>

Spin ==
  /\ "waitall3" \in Waits
  /\ guard = 1 \/ SpinWithoutTasks
  /\ ParentGoes("body", "spin")
  /\ lock = NULL
  /\ ndep' = ndep - 1
  /\ guard' = 0
  /\ last' = "waitall3"
  /\ UNCHANGED <<lock, cpc>>

SpinReturn ==
  /\ ParentGoes("spin", "body")
  /\ lock = NULL
  /\ ndep = 0
  /\ UNCHANGED <<ndep, lock, cpc, guard, last>>

----------------------------------------------------------------------------
(* The parent returns.  An application joins what it created before it     *)
(* returns; its descriptor then goes to the reuse queue (_torc_cleanup)    *)
(* and is cleared, and its lock initialised, when it is taken out again    *)
(* for a new task (torc.c:225-228).  What happens when that is             *)
(* done under a child that still holds its lock is undefined: the model    *)
(* does not go on from there.                                              *)

Recycle ==
  /\ guard = 0
  /\ ParentGoes("body", "recycled")
  /\ UNCHANGED <<ndep, lock, cpc, guard, last>>

Reuse ==
  /\ ParentGoes("recycled", "body")
  /\ Touching = {}
  /\ ndep' = 0
  /\ lock' = NULL
  /\ last' = NULL
  /\ UNCHANGED <<cpc, guard>>

----------------------------------------------------------------------------
ChildStep(c) == ChildAcquire(c) \/ ChildDecrement(c) \/ ChildRelease(c)

Create == AddGuard \/ DepAdd \/ \E c \in Child : Publish(c)

Waiting ==
  \/ BlockReturn \/ SpinReturn
  \/ Block2Top \/ Block2Locked \/ Block2Busy \/ Block2Idle \/ Block2Test

Next ==
  \/ Create
  \/ Block \/ Block2 \/ Spin \/ Waiting
  \/ Recycle \/ Reuse
  \/ \E c \in Child : ChildStep(c)

Spec == Init /\ [][Next]_vars

(***************************************************************************)
(* Fairness.  Every thread keeps running (workers and the server thread    *)
(* never block for ever), a creation that has begun is finished, and the   *)
(* mutex is not starved.  The work a waiting parent can pick up besides    *)
(* its own children runs out, so an idle round comes again and again:      *)
(* strong fairness of Block2Idle.                                          *)
(***************************************************************************)
Fairness ==
  /\ WF_vars(DepAdd \/ \E c \in Child : Publish(c))
  /\ WF_vars(Waiting)
  /\ SF_vars(Block2Idle)
  /\ \A c \in Child : WF_vars(ChildStep(c))

FairSpec == Spec /\ Fairness

----------------------------------------------------------------------------
(* Properties.                                                             *)

\* Every component has its type; the counter is never negative.
TypeOK ==
  /\ ndep \in Nat
  /\ lock \in Child \cup {NULL}
  /\ pc \in ParentPC
  /\ cpc \in [Child -> ChildPC]
  /\ guard \in 0..1
  /\ last \in AllWaits \cup {NULL}

\* ndep counts exactly the guard, the creation in progress and the children
\* that have not yet taken themselves off, at every moment: the three locked
\* updates (the guard, the addition, the decrement) and the clamp of the
\* waits never lose or invent a unit.
Creating == IF pc = "publish" THEN 1 ELSE 0
Count == ndep = guard + Creating + Cardinality(Pending)

\* A parent that is back from a wait, and has created nothing since, has no
\* child left that was created before the wait: none of the three tests can
\* be passed early.
Joined == pc \in {"body", "recycled"} /\ guard = 0
JoinSafe == Joined => Pending = {}

\* When the last wait of the parent was one that tests under the lock, no
\* child reads or writes the parent's descriptor, its lock included, once
\* it is in the reuse queue: the parent cannot be recycled under a child
\* that is still inside _torc_depsatisfy.
NoTouchAfterRecycle == pc = "recycled" /\ last # "waitall2" => Touching = {}

\* Every wait returns: the children finish and the last decrement is seen.
InWait == pc \in {"block", "b2top", "b2lock", "b2work", "b2test", "spin"}
WaitReturns == InWait ~> pc = "body"

=============================================================================
