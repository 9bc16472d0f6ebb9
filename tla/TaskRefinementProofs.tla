------------------------ MODULE TaskRefinementProofs ------------------------
(***************************************************************************)
(* Join counters and parents, for any number of nodes, workers, tasks and  *)
(* levels: a counter is what its owner has created and what is not         *)
(* finished (JoinCount), and the parent of an unfinished task is on a      *)
(* stack of the task's home node (ParentAlive).  The second part shows     *)
(* that the runtime implements fork-join, and has its own introduction.    *)
(*                                                                         *)
(* JoinCount alone is not inductive.  torc_task adds the guard of the      *)
(* counter only when it finds 0, and torc_waitall takes it away only when  *)
(* there is one: both are right because a task at work that has not forked *)
(* counts nothing (RunningCounts).  A task begins its work so because the  *)
(* tasks on no stack count nothing (OffStack), and it ends so because a    *)
(* task that returns has waited for what it created (ReturnedDone).        *)
(***************************************************************************)
EXTENDS TaskRuntimeProofs

\* Where a worker is at work for the task on top of its stack.
AtWork == {"run", "create", "fetch", "stash", "clean"}

\* A task at work with no creation to wait for counts nothing.
RunningCounts ==
  \A w \in Worker : pc[w] \in AtWork /\ forked[Self(w)] = 0 => ndep[Self(w)] = 0

\* A task that has returned has waited for all it created.
ReturnedDone == \A w \in Worker : pc[w] = "clean" => forked[Self(w)] = 0

\* Tasks that are on no stack count nothing.
OnStack(f) == \E w \in Worker : f \in Range(stack[w])
OffStack   == \A t \in Task : ~OnStack(t) => forked[t] = 0 /\ ndep[t] = 0

JoinInv == JoinCount /\ RunningCounts /\ ReturnedDone /\ OffStack /\ ParentAlive

\* Everything known of a state.
AllInv == TypeInv /\ HolderInv /\ JoinInv

Somewhere(x) == \E k, i : Has(k, i, x)

----------------------------------------------------------------------------
(* Outstanding tasks, children and creations.                              *)

\* The outstanding tasks are those that are in some place.
OutstandingHeld == \A t \in Task : t \in Outstanding <=> Somewhere(t)

LEMMA OutstandingSomewhere == TypeInv => OutstandingHeld
<1> SUFFICES ASSUME TypeInv, NEW t \in Task PROVE t \in Outstanding <=> Somewhere(t)
  BY DEF OutstandingHeld
<1> USE Constants
<1>1. t \in Queued <=> (\E i : Has("private", i, t) \/ Has("public", i, t))
  <2>1. ASSUME NEW n \in Node, NEW l \in Levels, t \in Range(public_grq[n][l])
        PROVE  Has("public", <<n, l>>, t)
    <3>1. <<n, l>> \in Node \X Levels /\ <<n, l>>[1] = n /\ <<n, l>>[2] = l
      OBVIOUS
    <3> QED
      BY <2>1, <3>1 DEF Has
  <2>2. \A i \in Node \X Levels : i[1] \in Node /\ i[2] \in Levels
    OBVIOUS
  <2>3. ASSUME t \in Queued PROVE \E i : Has("private", i, t) \/ Has("public", i, t)
    <3>1. CASE t \in UNION {Range(private_grq[n]) : n \in Node}
      <4>1. PICK n \in Node : t \in Range(private_grq[n])
        BY <3>1
      <4> QED
        BY <4>1 DEF Has
    <3>2. CASE t \in UNION {Range(public_grq[n][l]) : n \in Node, l \in 0 .. NumLevels - 1}
      <4>1. PICK n \in Node, l \in Levels : t \in Range(public_grq[n][l])
        BY <3>2 DEF Levels
      <4> QED
        BY <2>1, <4>1
    <3> QED
      BY <2>3, <3>1, <3>2 DEF Queued
  <2>4. ASSUME NEW i, Has("private", i, t) \/ Has("public", i, t) PROVE t \in Queued
    BY <2>2, <2>4 DEF Has, Queued, Levels
  <2> QED
    BY <2>3, <2>4
<1>2. t \in Travelling <=> (\E i : Has("chan", i, t))
  <2>1. \A c \in Thread \X Node : t \in Range(Carried(chan[c])) <=> \E m \in Range(chan[c]) : m.arg = t
    BY DEF Range, Carried
  <2>2. t \in Travelling <=> \E c \in Thread \X Node : \E m \in Range(chan[c]) : m.arg = t
    BY DEF Travelling
  <2> QED
    BY <2>1, <2>2 DEF Has
<1>3. /\ t \in Range(reply) <=> (\E i : Has("reply", i, t))
      /\ t \in Range(hand) <=> (\E i : Has("hand", i, t))
      /\ t \in Range(serving) <=> (\E i : Has("serving", i, t))
  <2>1. DOMAIN reply = Worker /\ DOMAIN hand = Worker /\ DOMAIN serving = Node
    BY TypeInvImpliesTypeOK DEF TypeOK
  <2> QED
    BY <2>1 DEF Has, Range
<1>4. t \in UNION {Range(stack[w]) : w \in Worker} <=> (\E i : Has("stack", i, t))
  BY DEF Has
<1>5. \A k, i : Has(k, i, t) => \/ k \in {"private", "public", "chan", "stack", "reply", "hand", "serving"}
  BY DEF Has
<1> QED
  BY <1>1, <1>2, <1>3, <1>4, <1>5 DEF Outstanding, Somewhere

\* What a step does to a task decides whether it is outstanding afterwards.
LEMMA OutstandingNext ==
  ASSUME TypeInv, TypeInv', NEW t \in Task
  PROVE  /\ Stays(t) => (t \in Outstanding' <=> t \in Outstanding)
         /\ Leaves(t) => t \notin Outstanding'
         /\ (\E k, i : Goes(t, k, i)) => t \in Outstanding'
         /\ (\E k, i : Has(k, i, t)) <=> t \in Outstanding
<1>1. t \in Outstanding <=> Somewhere(t)
  BY OutstandingSomewhere DEF OutstandingHeld
<1>2. TypeInv' => OutstandingHeld'
  BY OutstandingSomewhere, PTL
<1>3. t \in Outstanding' <=> Somewhere(t)'
  BY <1>2 DEF OutstandingHeld
<1>4. Stays(t) => (Somewhere(t)' <=> Somewhere(t))
  BY DEF Stays, Somewhere
<1>5. Leaves(t) => ~Somewhere(t)'
  BY DEF Leaves, Somewhere
<1>6. (\E k, i : Goes(t, k, i)) => Somewhere(t)'
  BY DEF Goes, Somewhere
<1> QED
  BY <1>1, <1>3, <1>4, <1>5, <1>6 DEF Somewhere

\* The children that a counter counts: finitely many.
LEMMA ChildrenFinite ==
  ASSUME NEW f PROVE ChildrenOf(f) \subseteq Task /\ IsFiniteSet(ChildrenOf(f))
<1>1. ChildrenOf(f) \subseteq Task
  BY DEF ChildrenOf, Outstanding
<1> QED
  BY <1>1, TasksAssumption, FS_Subset

\* A frame is on top of one stack at most.
LEMMA OneTop ==
  ASSUME TypeInv, HolderInv, NEW v \in Worker, NEW w \in Worker, stack[v] # <<>>, stack[w] # <<>>,
         Self(v) \in Range(stack[w])
  PROVE  v = w
<1>1. stack[v] \in Seq(Frame)
  BY TypeInvImpliesTypeOK DEF TypeOK
<1>2. Self(v) \in Frame /\ Self(v) \in Range(stack[v])
  BY <1>1, FrontRange DEF Self
<1>3. Has("stack", v, Self(v)) /\ Has("stack", w, Self(v)) /\ Self(v) \in Token
  BY <1>2 DEF Has, Frame, Token
<1> QED
  BY <1>3 DEF HolderInv, Apart, AtMostOnePlace

\* The top of a stack is on it.
LEMMA SelfOnStack ==
  ASSUME TypeInv, NEW w \in Worker, stack[w] # <<>>
  PROVE  Self(w) \in Frame /\ Self(w) \in Range(stack[w]) /\ stack[w] \in Seq(Frame)
BY TypeInvImpliesTypeOK, FrontRange DEF TypeOK, Self

\* A frame has one creation in progress at most.
LEMMA CreatingOne ==
  ASSUME TypeInv, HolderInv, NEW f
  PROVE  /\ \A v, w \in Creating(f) : v = w
         /\ IsFiniteSet(Creating(f))
         /\ Cardinality(Creating(f)) = IF Creating(f) = {} THEN 0 ELSE 1
<1>1. ASSUME NEW v \in Creating(f), NEW w \in Creating(f) PROVE v = w
  <2>1. v \in Worker /\ w \in Worker /\ stack[v] # <<>> /\ stack[w] # <<>> /\ Self(v) = f /\ Self(w) = f
    BY DEF Creating, TypeInv, Positions
  <2> QED
    BY <2>1, OneTop, SelfOnStack
<1> QED
  BY <1>1, AtMostOneElement

\* Counters are never negative; a frame with an unfinished child counts it.
LEMMA CountBounds ==
  ASSUME TypeInv, HolderInv, JoinCount, NEW f \in Frame
  PROVE  /\ ndep[f] \in Nat
         /\ \A t \in ChildrenOf(f) : ndep[f] > 0
         /\ \A w \in Creating(f) : ndep[f] > 0
         /\ ndep[f] >= forked[f]
<1>1. Cardinality(ChildrenOf(f)) \in Nat
  BY ChildrenFinite, FS_CardinalityType
<1>2. (\A t \in ChildrenOf(f) : Cardinality(ChildrenOf(f)) > 0)
  <2>1. ASSUME NEW t \in ChildrenOf(f) PROVE Cardinality(ChildrenOf(f)) # 0
    BY ChildrenFinite, FS_EmptySet
  <2> QED
    BY <1>1, <2>1
<1>3. Cardinality(Creating(f)) = IF Creating(f) = {} THEN 0 ELSE 1
  BY CreatingOne
<1>4. forked[f] \in 0 .. 1
  BY TypeInvImpliesTypeOK DEF TypeOK
<1>5. ndep[f] = forked[f] + Cardinality(Creating(f)) + Cardinality(ChildrenOf(f))
  BY DEF JoinCount
<1> QED
  BY <1>1, <1>2, <1>3, <1>4, <1>5

----------------------------------------------------------------------------
(* Steps that create nothing for a parent, count nothing and finish        *)
(* nothing: tasks and workers move.                                        *)

\* A frame that is on a stack stays on it.
LEMMA ParentStays ==
  ASSUME ParentAlive, NEW t \in Outstanding, desc'[t] = desc[t],
         \A v \in Worker : Range(stack[v]) \subseteq Range(stack'[v]),
         desc'[t].parent # NULL
  PROVE  \E v \in Worker : /\ node_of[v] = desc'[t].homenode
                           /\ desc'[t].parent \in Range(stack'[v])
BY DEF ParentAlive

LEMMA JoinQuiet ==
  ASSUME AllInv, TypeInv', UNCHANGED <<ndep, forked>>, NEW w \in Worker,
         \A v \in Worker \ {w} : pc'[v] = pc[v] /\ stack'[v] = stack[v],
         \/ pc'[w] = pc[w] /\ stack'[w] = stack[w]
         \/ /\ pc[w] # "create" /\ pc'[w] # "create"
            /\ pc'[w] \in AtWork /\ forked[Self(w)'] = 0 => ndep[Self(w)'] = 0
            /\ pc'[w] = "clean" => forked[Self(w)'] = 0
            /\ Range(stack[w]) \subseteq Range(stack'[w]),
         \A t \in Outstanding : t \in Outstanding' /\ desc'[t] = desc[t],
         \A t \in Task : t \in Outstanding' => t \in Outstanding \/ desc'[t].parent = NULL
  PROVE  JoinInv'
<1> USE Constants
<1>1. \A v \in Worker : stack'[v] = stack[v] => Self(v)' = Self(v)
  BY DEF Self
<1>2. \A v \in Worker : Range(stack[v]) \subseteq Range(stack'[v])
  OBVIOUS
<1>3. \A f \in Frame : ChildrenOf(f)' = ChildrenOf(f)
  <2> SUFFICES ASSUME NEW f \in Frame PROVE ChildrenOf(f)' = ChildrenOf(f)
    OBVIOUS
  <2>1. f # NULL
    BY DEF Frame
  <2>2. Outstanding \subseteq Task /\ Outstanding' \subseteq Task
    BY DEF Outstanding
  <2> QED
    BY <2>1, <2>2 DEF ChildrenOf
<1>4. \A f \in Frame : Creating(f)' = Creating(f)
  <2> SUFFICES ASSUME NEW f \in Frame, NEW v \in Worker
               PROVE  pc'[v] = "create" /\ Self(v)' = f <=> pc[v] = "create" /\ Self(v) = f
    BY DEF Creating
  <2> QED
    BY <1>1
<1>5. JoinCount'
  BY <1>3, <1>4 DEF AllInv, JoinInv, JoinCount
<1>6. RunningCounts' /\ ReturnedDone'
  BY <1>1 DEF AllInv, JoinInv, RunningCounts, ReturnedDone
<1>7. OffStack'
  BY <1>2 DEF AllInv, JoinInv, OffStack, OnStack
<1>8. ParentAlive'
  <2> SUFFICES ASSUME NEW t \in Outstanding', desc'[t].parent # NULL
               PROVE  \E v \in Worker : /\ node_of[v] = desc'[t].homenode
                                        /\ desc'[t].parent \in Range(stack'[v])
    BY DEF ParentAlive
  <2>1. t \in Task
    BY DEF Outstanding
  <2>2. t \in Outstanding /\ desc'[t] = desc[t]
    BY <2>1
  <2> QED
    BY <1>2, <2>2, ParentStays DEF AllInv, JoinInv
<1> QED
  BY <1>5, <1>6, <1>7, <1>8 DEF JoinInv

\* The same for steps that leave the workers and the descriptors alone.
LEMMA JoinStill ==
  ASSUME AllInv, TypeInv', UNCHANGED <<desc, ndep, forked, stack, pc>>,
         \A t \in Task : t \in Outstanding' <=> t \in Outstanding
  PROVE  JoinInv'
<1>1. \A t \in Outstanding : t \in Task
  BY DEF Outstanding
<1>2. PICK w \in Worker : TRUE
  BY NodesAssumption
<1> QED
  BY <1>1, <1>2, JoinQuiet

----------------------------------------------------------------------------
(* Calls that change a counter.                                            *)

\* The caller changes its own counter and flag, and where it is.
LEMMA CounterStep ==
  ASSUME AllInv, TypeInv', NEW w \in Worker, NEW f, f = Self(w), NEW d, NEW b, NEW to,
         pc[w] = "run", to \in {"create", "check", "spin"},
         ndep' = [ndep EXCEPT ![f] = d], forked' = [forked EXCEPT ![f] = b], Goto(w, to),
         UNCHANGED <<desc, queues, net, stack, hand, serving>>,
         d = b + (IF to = "create" THEN 1 ELSE 0) + Cardinality(ChildrenOf(f)),
         to = "create" => b = 1
  PROVE  JoinInv'
<1> USE Constants
<1>1. stack[w] # <<>> /\ f \in Frame /\ f \in Range(stack[w])
  BY SelfOnStack DEF AllInv, TypeInv, Positions
<1>2. /\ ndep \in [Frame -> Int] /\ forked \in [Frame -> 0 .. 1] /\ pc \in [Worker -> WorkerPC]
  BY TypeInvImpliesTypeOK DEF TypeOK, AllInv
<1>3. \A v \in Worker : Self(v)' = Self(v)
  BY DEF Self
<1>4. \A t \in Task : t \in Outstanding' <=> t \in Outstanding
  BY Unmoved, OutstandingNext DEF AllInv
<1>5. Outstanding' = Outstanding
  BY <1>4 DEF Outstanding
<1>6. \A g \in Frame : ChildrenOf(g)' = ChildrenOf(g)
  BY <1>5 DEF ChildrenOf
<1>7. \A v \in Worker : pc[v] \notin {"scan", "rescan"} /\ Self(v) = f => v = w
  <2>1. \A v \in Worker : pc[v] \notin {"scan", "rescan"} => stack[v] # <<>>
    BY DEF AllInv, TypeInv, Positions
  <2> QED
    BY <1>1, <2>1, OneTop DEF AllInv
<1>8. /\ \A g \in Frame \ {f} : Creating(g)' = Creating(g)
      /\ Creating(f) = {}
      /\ Creating(f)' = IF to = "create" THEN {w} ELSE {}
  <2>1. \A v \in Worker : pc'[v] = IF v = w THEN to ELSE pc[v]
    BY <1>2 DEF Goto
  <2> QED
    BY <1>3, <1>7, <2>1 DEF Creating
<1>9. JoinCount'
  <2>1. \A g \in Frame \ {f} : ndep'[g] = ndep[g] /\ forked'[g] = forked[g]
    OBVIOUS
  <2>2. ndep'[f] = d /\ forked'[f] = b
    BY <1>1, <1>2
  <2>3. Cardinality(Creating(f)') = IF to = "create" THEN 1 ELSE 0
    BY <1>8, FS_EmptySet, FS_Singleton
  <2>4. ndep'[f] = forked'[f] + Cardinality(Creating(f)') + Cardinality(ChildrenOf(f)')
    BY <1>1, <1>6, <2>2, <2>3
  <2>5. ASSUME NEW g \in Frame \ {f}
        PROVE  ndep'[g] = forked'[g] + Cardinality(Creating(g)') + Cardinality(ChildrenOf(g)')
    <3>1. ndep[g] = forked[g] + Cardinality(Creating(g)) + Cardinality(ChildrenOf(g))
      BY DEF AllInv, JoinInv, JoinCount
    <3> QED
      BY <1>6, <1>8, <2>1, <3>1
  <2> QED
    BY <2>4, <2>5 DEF JoinCount
<1>10. RunningCounts' /\ ReturnedDone'
  <2> SUFFICES ASSUME NEW v \in Worker
               PROVE  /\ pc'[v] \in AtWork /\ forked'[Self(v)] = 0 => ndep'[Self(v)] = 0
                      /\ pc'[v] = "clean" => forked'[Self(v)] = 0
    BY <1>3 DEF RunningCounts, ReturnedDone
  <2>1. CASE v = w
    <3>1. pc'[w] = to
      BY <1>2 DEF Goto
    <3>2. to = "create" => forked'[f] = 1
      BY <1>1, <1>2
    <3> QED
      BY <2>1, <3>1, <3>2 DEF AtWork
  <2>2. CASE v # w /\ pc[v] \in AtWork
    <3>1. Self(v) # f /\ pc'[v] = pc[v]
      BY <1>2, <1>7, <2>2 DEF AtWork, Goto
    <3> QED
      BY <2>2, <3>1 DEF AllInv, JoinInv, RunningCounts, ReturnedDone
  <2>3. CASE v # w /\ pc[v] \notin AtWork
    BY <1>2, <2>3 DEF AtWork, Goto
  <2> QED
    BY <2>1, <2>2, <2>3
<1>11. OffStack'
  <2>1. \A t \in Task : ~OnStack(t) => t # f
    BY <1>1 DEF OnStack
  <2> QED
    BY <2>1 DEF AllInv, JoinInv, OffStack, OnStack
<1>12. ParentAlive'
  BY <1>5 DEF AllInv, JoinInv, ParentAlive
<1> QED
  BY <1>9, <1>10, <1>11, <1>12 DEF JoinInv

\* What a task at work counts.
LEMMA AtWorkCounts ==
  ASSUME AllInv, NEW w \in Worker, pc[w] \in AtWork \ {"create"}
  PROVE  /\ Self(w) \in Frame /\ ndep[Self(w)] \in Nat
         /\ ndep[Self(w)] = forked[Self(w)] + Cardinality(ChildrenOf(Self(w)))
         /\ Cardinality(ChildrenOf(Self(w))) \in Nat
         /\ forked[Self(w)] \in 0 .. 1
         /\ forked[Self(w)] = 0 => ndep[Self(w)] = 0
<1> DEFINE f == Self(w)
<1>1. stack[w] # <<>> /\ f \in Frame /\ f \in Range(stack[w])
  BY SelfOnStack DEF AllInv, TypeInv, Positions, AtWork
<1>2. Creating(f) = {}
  <2> SUFFICES ASSUME NEW v \in Creating(f) PROVE FALSE
    OBVIOUS
  <2>1. v \in Worker /\ stack[v] # <<>> /\ Self(v) = f /\ pc[v] = "create"
    BY DEF Creating, AllInv, TypeInv, Positions
  <2>2. v = w
    BY <1>1, <2>1, OneTop DEF AllInv
  <2> QED
    BY <2>1, <2>2
<1>3. ndep[f] = forked[f] + Cardinality(Creating(f)) + Cardinality(ChildrenOf(f))
  BY <1>1 DEF AllInv, JoinInv, JoinCount
<1>4. Cardinality(Creating(f)) = 0
  BY <1>2, FS_EmptySet
<1>5. forked[f] \in 0 .. 1 /\ Cardinality(ChildrenOf(f)) \in Nat
  BY <1>1, ChildrenFinite, FS_CardinalityType, TypeInvImpliesTypeOK DEF TypeOK, AllInv
<1>6. forked[f] = 0 => ndep[f] = 0
  BY DEF AllInv, JoinInv, RunningCounts, AtWork
<1> QED
  BY <1>1, <1>3, <1>4, <1>5, <1>6

LEMMA CallJoin ==
  ASSUME AllInv, TypeInv', NEW w \in Worker,
         CountChild(w) \/ WaitAll(w) \/ SpinWait(w) \/ FetchWork(w) \/ Return(w)
  PROVE  JoinInv'
<1> USE Constants
<1> DEFINE c == Cardinality(ChildrenOf(Self(w)))
<1>1. PICK f : f = Self(w)
  OBVIOUS
<1>2. /\ pc[w] = "run" /\ f \in Frame /\ ndep[f] \in Nat /\ c \in Nat
      /\ ndep[f] = forked[f] + c /\ forked[f] \in 0 .. 1
      /\ forked[f] = 0 => ndep[f] = 0
  <2>1. pc[w] = "run"
    BY DEF CountChild, WaitAll, SpinWait, FetchWork, Return
  <2> QED
    BY <1>1, <2>1, AtWorkCounts DEF AtWork
<1>3. UNCHANGED <<desc, queues, net, stack, hand, serving>>
  BY DEF CountChild, WaitAll, SpinWait, FetchWork, Return, nodes
<1>4. CASE CountChild(w)
  <2>1. GuardedNdep(ndep[f]) + 1 = 1 + 1 + c
    BY <1>2 DEF GuardedNdep
  <2>2. /\ ndep' = [ndep EXCEPT ![f] = GuardedNdep(ndep[f]) + 1]
        /\ forked' = [forked EXCEPT ![f] = 1] /\ Goto(w, "create")
    BY <1>1, <1>4 DEF CountChild
  <2> QED
    BY <1>1, <1>2, <1>3, <2>1, <2>2, CounterStep
<1>5. CASE WaitAll(w)
  <2>1. BlockNdep(ndep[f]) = 0 + 0 + c
    BY <1>2 DEF BlockNdep
  <2>2. /\ ndep' = [ndep EXCEPT ![f] = BlockNdep(ndep[f])]
        /\ forked' = [forked EXCEPT ![f] = 0] /\ Goto(w, "check")
    BY <1>1, <1>5 DEF WaitAll
  <2> QED
    BY <1>1, <1>2, <1>3, <2>1, <2>2, CounterStep
<1>6. CASE SpinWait(w)
  <2>1. ndep[f] - 1 = 0 + 0 + c
    BY <1>1, <1>2, <1>6 DEF SpinWait
  <2>2. /\ ndep' = [ndep EXCEPT ![f] = ndep[f] - 1]
        /\ forked' = [forked EXCEPT ![f] = 0] /\ Goto(w, "spin")
    BY <1>1, <1>6 DEF SpinWait
  <2> QED
    BY <1>1, <1>2, <1>3, <2>1, <2>2, CounterStep
<1>7. CASE FetchWork(w) \/ Return(w)
  <2>1. /\ UNCHANGED <<ndep, forked>>
        /\ Goto(w, "fetch") \/ (Goto(w, "clean") /\ forked[f] = 0)
    BY <1>1, <1>7 DEF FetchWork, Return
  <2>2. pc \in [Worker -> WorkerPC]
    BY TypeInvImpliesTypeOK DEF TypeOK, AllInv
  <2>3. /\ \A v \in Worker \ {w} : pc'[v] = pc[v] /\ stack'[v] = stack[v]
        /\ pc'[w] \in {"fetch", "clean"} /\ stack'[w] = stack[w]
        /\ pc'[w] = "clean" => forked[f] = 0
    BY <1>3, <2>1, <2>2 DEF Goto
  <2>4. Self(w)' = f
    BY <1>1, <1>3 DEF Self
  <2>5. \A t \in Task : t \in Outstanding' <=> t \in Outstanding
    BY <1>3, Unmoved, OutstandingNext DEF AllInv
  <2>6. \A t \in Outstanding : t \in Outstanding' /\ desc'[t] = desc[t]
    BY <1>3, <2>5 DEF Outstanding
  <2> QED
    BY <1>2, <2>1, <2>3, <2>4, <2>5, <2>6, JoinQuiet
<1> QED
  BY <1>4, <1>5, <1>6, <1>7

\* Second half of a creation: the child is counted and exists.
LEMMA EnqueueJoin ==
  ASSUME AllInv, TypeInv', NEW w \in Worker, NEW t \in Task, NEW n \in Node,
         NEW direct \in BOOLEAN, EnqueueChild(w, t, n, direct)
  PROVE  JoinInv'
<1> USE Constants
<1>1. PICK f : f = Self(w)
  OBVIOUS
<1>2. stack[w] # <<>> /\ f \in Frame /\ f \in Range(stack[w])
  BY <1>1, SelfOnStack DEF EnqueueChild, AllInv, TypeInv, Positions
<1>3. LevelOf(f) + 1 \in Nat
  <2>1. f \in LiveFrame
    BY <1>1, <1>2, SelfLive DEF AllInv, TypeInv
  <2>2. \A x \in Live : desc[x].level \in Nat
    BY DEF AllInv, TypeInv, Live, Plain, TaskDesc
  <2> QED
    BY <2>1, <2>2 DEF LevelOf, LiveFrame
<1>4. w \in Thread /\ Here(w) = node_of[w]
  BY DEF Thread, Here
<1>5. /\ NewDesc(t, f, Here(w), LevelOf(f) + 1, direct) /\ Place(w, t, n)
      /\ pc[w] = "create" /\ Goto(w, "run")
      /\ UNCHANGED <<ndep, forked, private_grq, reply, stack, hand, serving>>
  BY <1>1, <1>4 DEF EnqueueChild, nodes
<1>6. /\ \E k, i : Goes(t, k, i)
      /\ \A x \in Token \ {t} : Stays(x)
      /\ \A k, i : ~Has(k, i, t)
  BY <1>2, <1>3, <1>4, <1>5, PlaceWhere DEF AllInv
<1>7. /\ desc \in [Task -> TaskDesc \cup {NULL}] /\ pc \in [Worker -> WorkerPC]
  BY TypeInvImpliesTypeOK DEF TypeOK, AllInv
<1>8. /\ desc'[t].parent = f /\ desc'[t].homenode = node_of[w]
      /\ \A x \in Task \ {t} : desc'[x] = desc[x]
  BY <1>4, <1>5, <1>7 DEF NewDesc
<1>9. /\ t \notin Outstanding /\ t \in Outstanding'
      /\ \A x \in Task \ {t} : x \in Outstanding' <=> x \in Outstanding
  <2>1. \A x \in Task : x \in Token
    BY DEF Token
  <2> QED
    BY <1>6, <2>1, OutstandingNext DEF AllInv
<1>10. \A v \in Worker : /\ Self(v)' = Self(v)
                         /\ pc'[v] = IF v = w THEN "run" ELSE pc[v]
  BY <1>5, <1>7 DEF Self, Goto
<1>11. \A v \in Worker : pc[v] = "create" /\ Self(v) = f => v = w
  <2>1. \A v \in Worker : pc[v] = "create" => stack[v] # <<>>
    BY DEF AllInv, TypeInv, Positions
  <2> QED
    BY <1>2, <2>1, OneTop DEF AllInv
<1>12. /\ \A g \in Frame \ {f} : Creating(g)' = Creating(g) /\ ChildrenOf(g)' = ChildrenOf(g)
       /\ Creating(f) = {w} /\ Creating(f)' = {}
       /\ ChildrenOf(f)' = ChildrenOf(f) \cup {t} /\ t \notin ChildrenOf(f)
  <2>1. Outstanding \subseteq Task /\ Outstanding' \subseteq Task
    BY DEF Outstanding
  <2>2. ASSUME NEW g \in Frame \ {f} PROVE ChildrenOf(g)' = ChildrenOf(g)
    BY <1>8, <1>9, <2>1 DEF ChildrenOf
  <2>3. ChildrenOf(f)' = ChildrenOf(f) \cup {t} /\ t \notin ChildrenOf(f)
    BY <1>8, <1>9, <2>1 DEF ChildrenOf
  <2>4. \A g \in Frame \ {f} : Creating(g)' = Creating(g)
    BY <1>1, <1>5, <1>10 DEF Creating
  <2>5. Creating(f) = {w} /\ Creating(f)' = {}
    BY <1>1, <1>5, <1>10, <1>11 DEF Creating
  <2> QED
    BY <2>2, <2>3, <2>4, <2>5
<1>13. JoinCount'
  <2>1. /\ Cardinality(Creating(f)) = 1 /\ Cardinality(Creating(f)') = 0
        /\ Cardinality(ChildrenOf(f)') = Cardinality(ChildrenOf(f)) + 1
        /\ Cardinality(ChildrenOf(f)) \in Nat
    <3>1. Cardinality(Creating(f)) = 1 /\ Cardinality(Creating(f)') = 0
      BY <1>12, FS_EmptySet, FS_Singleton
    <3>2. IsFiniteSet(ChildrenOf(f)) /\ Cardinality(ChildrenOf(f)) \in Nat
      BY ChildrenFinite, FS_CardinalityType
    <3>3. Cardinality(ChildrenOf(f) \cup {t}) = Cardinality(ChildrenOf(f)) + 1
      BY <1>12, <3>2, FS_AddElement
    <3> QED
      BY <1>12, <3>1, <3>2, <3>3
  <2>2. forked[f] \in 0 .. 1
    BY <1>2, TypeInvImpliesTypeOK DEF TypeOK, AllInv
  <2>3. ASSUME NEW g \in Frame
        PROVE  ndep'[g] = forked'[g] + Cardinality(Creating(g)') + Cardinality(ChildrenOf(g)')
    <3>1. ndep[g] = forked[g] + Cardinality(Creating(g)) + Cardinality(ChildrenOf(g))
      BY DEF AllInv, JoinInv, JoinCount
    <3>2. CASE g = f
      BY <1>5, <2>1, <2>2, <3>1, <3>2
    <3>3. CASE g # f
      BY <1>5, <1>12, <3>1, <3>3
    <3> QED
      BY <3>2, <3>3
  <2> QED
    BY <2>3 DEF JoinCount
<1>14. RunningCounts' /\ ReturnedDone'
  BY <1>5, <1>10 DEF AllInv, JoinInv, RunningCounts, ReturnedDone, AtWork
<1>15. OffStack'
  BY <1>5 DEF AllInv, JoinInv, OffStack, OnStack
<1>16. ParentAlive'
  <2> SUFFICES ASSUME NEW x \in Outstanding', desc'[x].parent # NULL
               PROVE  \E v \in Worker : /\ node_of[v] = desc'[x].homenode
                                        /\ desc'[x].parent \in Range(stack'[v])
    BY DEF ParentAlive
  <2>1. x \in Task
    BY DEF Outstanding
  <2>2. CASE x = t
    BY <1>2, <1>5, <1>8, <2>2
  <2>3. CASE x # t
    BY <1>5, <1>8, <1>9, <2>1, <2>3 DEF AllInv, JoinInv, ParentAlive
  <2> QED
    BY <2>2, <2>3
<1> QED
  BY <1>13, <1>14, <1>15, <1>16 DEF JoinInv

----------------------------------------------------------------------------
(* The scheduling loop.                                                    *)

\* A step that changes no counter, no descriptor, no stack and no position.
LEMMA StandJoin ==
  ASSUME AllInv, TypeInv', UNCHANGED <<desc, ndep, forked, stack, pc>>,
         \A t \in Task : Stays(t)
  PROVE  JoinInv'
<1>1. \A t \in Task : t \in Outstanding' <=> t \in Outstanding
  BY OutstandingNext DEF AllInv
<1> QED
  BY <1>1, JoinStill

\* One worker goes on.
LEMMA WalkJoin ==
  ASSUME AllInv, TypeInv', NEW w \in Worker, UNCHANGED <<desc, ndep, forked, stack>>,
         NEW to, Goto(w, to),
         pc[w] # "create" /\ to \notin {"create", "clean"},
         to \in AtWork => pc[w] \in AtWork \/ ndep[Self(w)] = 0,
         \A t \in Task : t \in Outstanding' <=> t \in Outstanding
  PROVE  JoinInv'
<1>1. \A t \in Outstanding : t \in Outstanding' /\ desc'[t] = desc[t]
  BY DEF Outstanding
<1>2. Self(w)' = Self(w)
  BY DEF Self
<1>3. pc \in [Worker -> WorkerPC]
  BY TypeInvImpliesTypeOK DEF TypeOK, AllInv
<1>4. /\ \A v \in Worker \ {w} : pc'[v] = pc[v]
      /\ pc'[w] = to
  BY <1>3 DEF Goto
<1>5. pc[w] \in AtWork => (forked[Self(w)] = 0 => ndep[Self(w)] = 0)
  BY DEF AllInv, JoinInv, RunningCounts
<1>6. pc'[w] \in AtWork /\ forked[Self(w)'] = 0 => ndep[Self(w)'] = 0
  BY <1>2, <1>4, <1>5
<1> QED
  BY <1>1, <1>4, <1>6, JoinQuiet

\* A worker has found t.
LEMMA TakeJoin ==
  ASSUME AllInv, TypeInv', NEW w \in Worker, NEW t \in Task, Searching(w), Take(w, t),
         UNCHANGED <<desc, ndep, forked>>,
         NEW k, NEW i, Has(k, i, t), k # "stack", Goes(t, Destination(w), w),
         \A x \in Task \ {t} : Stays(x)
  PROVE  JoinInv'
<1> USE Constants
<1>1. /\ pc \in [Worker -> WorkerPC] /\ stack \in [Worker -> Seq(Frame)]
      /\ t \in Token /\ t \in Frame
  BY TypeInvImpliesTypeOK DEF TypeOK, AllInv, Token, Frame
<1>2. \A x \in Task : x \in Outstanding' <=> x \in Outstanding
  BY OutstandingNext DEF AllInv
<1>3. \A x \in Outstanding : x \in Outstanding' /\ desc'[x] = desc[x]
  BY <1>2 DEF Outstanding
<1>4. CASE pc[w] = "fetch"
  <2>1. Goto(w, "stash") /\ UNCHANGED stack
    BY <1>4 DEF Take
  <2> QED
    BY <1>2, <1>4, <2>1, WalkJoin DEF AtWork
<1>5. CASE pc[w] # "fetch"
  <2>1. pc[w] \in {"scan", "rescan"}
    BY <1>5 DEF Searching
  <2>2. /\ \A v \in Worker \ {w} : pc'[v] = pc[v] /\ stack'[v] = stack[v]
        /\ pc'[w] = "run" /\ stack'[w] = Append(stack[w], t)
    BY <1>1, <1>5 DEF Take, Goto
  <2>3. Range(stack'[w]) = Range(stack[w]) \cup {t}
    BY <1>1, <2>2, AppendRange
  <2>4. Self(w)' = t
    <3>1. /\ Len(Append(stack[w], t)) = Len(stack[w]) + 1
          /\ Append(stack[w], t)[Len(stack[w]) + 1] = t
      BY <1>1, AppendProperties
    <3> QED
      BY <2>2, <3>1 DEF Self, Last
  <2>5. ndep[t] = 0
    <3>1. \A v : ~Has("stack", v, t)
      BY <1>1, Elsewhere DEF AllInv
    <3>2. ~OnStack(t)
      BY <3>1 DEF OnStack, Has
    <3> QED
      BY <3>2 DEF AllInv, JoinInv, OffStack
  <2>6. /\ pc[w] # "create" /\ pc'[w] # "create"
        /\ pc'[w] \in AtWork /\ forked[Self(w)'] = 0 => ndep[Self(w)'] = 0
        /\ pc'[w] = "clean" => forked[Self(w)'] = 0
        /\ Range(stack[w]) \subseteq Range(stack'[w])
    BY <2>1, <2>2, <2>3, <2>4, <2>5
  <2> QED
    BY <1>2, <1>3, <2>2, <2>6, JoinQuiet
<1> QED
  BY <1>4, <1>5

\* A worker has found nothing.
LEMMA NotFoundJoin ==
  ASSUME AllInv, TypeInv', NEW w \in Worker, Searching(w), NotFound(w),
         UNCHANGED <<desc, ndep, forked, queues, net, serving>>
  PROVE  JoinInv'
<1>1. \A t \in Task : t \in Outstanding' <=> t \in Outstanding
  BY Unmoved, OutstandingNext DEF NotFound, AllInv
<1>2. PICK to \in {"rescan", "check", "run"} : Goto(w, to) /\ (to = "run" => pc[w] = "fetch")
  BY DEF NotFound, Searching
<1> QED
  BY <1>1, <1>2, WalkJoin DEF NotFound, Searching, AtWork

\* Steps of a worker that leave every counter as it is.
LEMMA LibraryJoin ==
  ASSUME AllInv, TypeInv', NEW w \in Worker,
         \/ CheckDeps(w) \/ SpinReturn(w) \/ Stash(w) \/ NextQueue(w) \/ TestFlag(w)
         \/ TakePrivate(w) \/ TakePublic(w)
         \/ StealRequest(w) \/ StealReply(w) \/ StealNothing(w)
  PROVE  JoinInv'
<1> USE Constants
<1>1. ASSUME UNCHANGED <<queues, net, stack, hand, serving>>
      PROVE  \A t \in Task : t \in Outstanding' <=> t \in Outstanding
  BY <1>1, Unmoved, OutstandingNext DEF AllInv
<1>2. stack[w] # <<>> => ndep[Self(w)] \in Nat
  BY SelfOnStack, CountBounds DEF AllInv, JoinInv
<1>3. CASE CheckDeps(w)
  <2>1. pc[w] = "check" /\ stack[w] # <<>>
    BY <1>3 DEF CheckDeps, AllInv, TypeInv, Positions
  <2>2. CASE MayReturn(Self(w))
    <3>1. ndep[Self(w)] = 0
      BY <1>2, <2>1, <2>2 DEF MayReturn
    <3> QED
      BY <1>1, <1>3, <2>1, <2>2, <3>1, WalkJoin DEF CheckDeps, nodes
  <2>3. CASE ~MayReturn(Self(w))
    BY <1>1, <1>3, <2>1, <2>3, WalkJoin DEF CheckDeps, nodes, AtWork
  <2> QED
    BY <2>2, <2>3
<1>4. CASE SpinReturn(w)
  BY <1>1, <1>4, WalkJoin DEF SpinReturn, nodes
<1>5. CASE Stash(w)
  <2>1. PICK t : t = hand[w]
    OBVIOUS
  <2>2. t \in Task /\ Goes(t, "private", node_of[w]) /\ \A x \in Token \ {t} : Stays(x)
    BY <1>5, <2>1, StashWhere DEF AllInv
  <2>3. Has("hand", w, t)
    BY <2>1 DEF Has
  <2>4. \A x \in Task : x \in Outstanding' <=> x \in Outstanding
    <3>1. \A x \in Task \ {t} : x \in Outstanding' <=> x \in Outstanding
      BY <2>2, OutstandingNext DEF AllInv, Token
    <3>2. t \in Outstanding' /\ t \in Outstanding
      BY <2>2, <2>3, OutstandingNext DEF AllInv
    <3> QED
      BY <3>1, <3>2
  <2> QED
    BY <1>5, <2>4, WalkJoin DEF Stash, AtWork
<1>6. CASE NextQueue(w)
  BY <1>6, Unmoved, StandJoin DEF NextQueue, nodes
<1>7. CASE TestFlag(w)
  <2>1. CASE internode_stealing[node_of[w]]
    BY <1>7, <2>1, Unmoved, StandJoin DEF TestFlag, nodes
  <2>2. CASE ~internode_stealing[node_of[w]]
    BY <1>7, <2>2, NotFoundJoin DEF TestFlag, nodes
  <2> QED
    BY <2>1, <2>2
<1>8. CASE TakePrivate(w)
  <2>1. PICK t : t = Head(private_grq[node_of[w]])
    OBVIOUS
  <2>2. /\ t \in Task /\ Has("private", node_of[w], t)
        /\ Goes(t, Destination(w), w)
        /\ \A x \in Token \ {t} : Stays(x)
    BY <1>8, <2>1, TakePrivateWhere DEF AllInv
  <2>3. Searching(w) /\ Take(w, t) /\ UNCHANGED <<desc, ndep, forked>>
    BY <1>8, <2>1 DEF TakePrivate
  <2> QED
    BY <2>2, <2>3, TakeJoin DEF Token
<1>9. CASE TakePublic(w)
  <2>1. PICK t : t = Head(public_grq[node_of[w]][at[w]])
    OBVIOUS
  <2>2. /\ t \in Task /\ Has("public", <<node_of[w], at[w]>>, t)
        /\ Goes(t, Destination(w), w)
        /\ \A x \in Token \ {t} : Stays(x)
    BY <1>9, <2>1, TakePublicWhere DEF AllInv
  <2>3. Searching(w) /\ Take(w, t) /\ UNCHANGED <<desc, ndep, forked>>
    BY <1>9, <2>1 DEF TakePublic
  <2> QED
    BY <2>2, <2>3, TakeJoin DEF Token
<1>10. CASE StealRequest(w)
  <2>1. \A t \in Task : Stays(t)
    BY <1>10, StealRequestWhere DEF AllInv, Token
  <2> QED
    BY <1>10, <2>1, StandJoin DEF StealRequest, workers
<1>11. CASE StealReply(w)
  <2>1. PICK t : t = reply[w]
    OBVIOUS
  <2>2. /\ t \in Task => Has("reply", w, t) /\ Goes(t, Destination(w), w)
        /\ \A x \in Task : x = t \/ Stays(x)
    BY <1>11, <2>1, StealReplyWhere DEF AllInv, Token
  <2>3. CASE t \in Task
    <3>1. Take(w, t) /\ UNCHANGED <<desc, ndep, forked>>
      BY <1>11, <2>1, <2>3 DEF StealReply
    <3>2. Searching(w)
      BY <1>11 DEF StealReply, AllInv, TypeInv, Owners
    <3> QED
      BY <2>2, <2>3, <3>1, <3>2, TakeJoin
  <2>4. CASE t \notin Task
    <3>1. \A x \in Task : Stays(x)
      BY <2>2, <2>4
    <3> QED
      BY <1>11, <2>1, <2>4, <3>1, StandJoin DEF StealReply
  <2> QED
    BY <2>3, <2>4
<1>12. CASE StealNothing(w)
  BY <1>12, NotFoundJoin DEF StealNothing
<1> QED
  BY <1>3, <1>4, <1>5, <1>6, <1>7, <1>8, <1>9, <1>10, <1>11, <1>12

----------------------------------------------------------------------------
(* Steps that move a task, or create one without a parent.                 *)

\* One task moves; the workers do nothing.
LEMMA MoveJoin ==
  ASSUME AllInv, TypeInv', UNCHANGED <<desc, ndep, forked, stack, pc>>,
         NEW t \in Task, NEW k, NEW i, Has(k, i, t), \E l, j : Goes(t, l, j),
         \A x \in Task \ {t} : Stays(x)
  PROVE  JoinInv'
<1>1. t \in Outstanding' /\ t \in Outstanding
  BY OutstandingNext DEF AllInv
<1>2. \A x \in Task \ {t} : x \in Outstanding' <=> x \in Outstanding
  BY OutstandingNext DEF AllInv
<1> QED
  BY <1>1, <1>2, JoinStill

\* A detached task is created.
LEMMA DetachedJoin ==
  ASSUME AllInv, TypeInv', NEW s \in Thread, NEW t \in Task, NEW n \in Node,
         NewDesc(t, NULL, Here(s), 0, FALSE), Place(s, t, n),
         UNCHANGED <<ndep, forked, private_grq, reply, workers, nodes>>
  PROVE  JoinInv'
<1> USE Constants
<1>1. UNCHANGED <<private_grq, reply, stack, hand, serving, pc>>
  BY DEF workers, nodes
<1>2. /\ \E k, i : Goes(t, k, i)
      /\ \A x \in Token \ {t} : Stays(x)
      /\ \A k, i : ~Has(k, i, t)
  BY <1>1, PlaceWhere DEF AllInv
<1>3. t \notin Outstanding
  BY <1>2, OutstandingNext DEF AllInv
<1>4. \A x \in Task \ {t} : x \in Outstanding' <=> x \in Outstanding
  BY <1>2, OutstandingNext DEF AllInv, Token
<1>5. /\ desc'[t].parent = NULL
      /\ \A x \in Task \ {t} : desc'[x] = desc[x]
  BY TypeInvImpliesTypeOK DEF NewDesc, TypeOK, AllInv
<1>6. \A x \in Outstanding : x \in Outstanding' /\ desc'[x] = desc[x]
  BY <1>3, <1>4, <1>5 DEF Outstanding
<1>7. \A x \in Task : x \in Outstanding' => x \in Outstanding \/ desc'[x].parent = NULL
  BY <1>4, <1>5
<1>8. PICK w \in Worker : TRUE
  OBVIOUS
<1> QED
  BY <1>1, <1>6, <1>7, <1>8, JoinQuiet

\* Detached creations and the stealing switch.
LEMMA OtherCallJoin ==
  ASSUME AllInv, TypeInv', NEW w \in Worker,
         \/ \E t \in Task, n \in Node : CreateDetached(w, t, n)
         \/ \E on \in BOOLEAN : SwitchStealing(w, on)
  PROVE  JoinInv'
<1>1. w \in Thread /\ Here(w) = node_of[w]
  BY DEF Thread, Here
<1>2. ASSUME NEW t \in Task, NEW n \in Node, CreateDetached(w, t, n) PROVE JoinInv'
  BY <1>1, <1>2, DetachedJoin DEF CreateDetached
<1>3. ASSUME NEW on \in BOOLEAN, SwitchStealing(w, on) PROVE JoinInv'
  <2>1. \A t \in Task : Stays(t)
    BY <1>3, SwitchWhere DEF AllInv, Token
  <2> QED
    BY <1>3, <2>1, StandJoin DEF SwitchStealing, workers
<1> QED
  BY <1>2, <1>3

\* What a server does, but for the answers it receives.
LEMMA ServerJoin ==
  ASSUME AllInv, TypeInv', NEW n \in Node,
         \/ StealScan(n) \/ DirectDone(n)
         \/ \E s \in Thread : RecvEnqueue(n, s) \/ RecvSteal(n, s) \/ RecvSwitch(n, s)
         \/ \E t \in Task, to \in Node : DirectCreate(n, t, to)
  PROVE  JoinInv'
<1> USE Constants
<1> DEFINE Same == UNCHANGED <<desc, ndep, forked, stack, pc>>
<1>1. \A x \in Worker : x \notin Task
  OBVIOUS
<1>2. CASE StealScan(n)
  <2>1. PICK v, t : v = serving[n] /\ t = Head(public_grq[n][scan_at[n]])
    OBVIOUS
  <2>2. /\ v \in Worker
        /\ \/ \A x \in Token : Stays(x)
           \/ \A x \in Token \ {v} : Stays(x)
           \/ /\ t \in Task /\ Has("public", <<n, scan_at[n]>>, t)
              /\ Goes(t, "reply", v)
              /\ \A x \in Token \ {v, t} : Stays(x)
    BY <1>2, <2>1, StealScanWhere DEF AllInv
  <2>3. Same
    BY <1>2 DEF StealScan, workers
  <2>4. CASE \A x \in Task : Stays(x)
    BY <2>3, <2>4, StandJoin
  <2>5. CASE /\ t \in Task /\ Has("public", <<n, scan_at[n]>>, t)
             /\ Goes(t, "reply", v)
             /\ \A x \in Task \ {t} : Stays(x)
    BY <2>3, <2>5, MoveJoin
  <2> QED
    BY <1>1, <2>2, <2>4, <2>5 DEF Token
<1>3. CASE DirectDone(n)
  <2>1. PICK t : t = serving[n]
    OBVIOUS
  <2>2. /\ t \in Task /\ Has("serving", n, t) /\ Goes(t, "chan", <<n, desc[t].homenode>>)
        /\ \A x \in Task \ {t} : Stays(x)
    BY <1>3, <2>1, DirectDoneWhere DEF AllInv, Token, Live
  <2>3. Same
    BY <1>3 DEF DirectDone, workers
  <2> QED
    BY <2>2, <2>3, MoveJoin
<1>4. ASSUME NEW s \in Thread, RecvEnqueue(n, s) PROVE JoinInv'
  <2>1. PICK t : t = Head(chan[<<s, n>>]).arg
    OBVIOUS
  <2>2. /\ t \in Task /\ Has("chan", <<s, n>>, t) /\ \E k, i : Goes(t, k, i)
        /\ \A x \in Task \ {t} : Stays(x)
    BY <1>4, <2>1, RecvEnqueueWhere DEF AllInv, Token
  <2>3. Same
    BY <1>4 DEF RecvEnqueue, workers
  <2> QED
    BY <2>2, <2>3, MoveJoin
<1>5. ASSUME NEW s \in Thread, RecvSteal(n, s) PROVE JoinInv'
  <2>1. PICK v : v = Head(chan[<<s, n>>]).arg
    OBVIOUS
  <2>2. \A x \in Task : Stays(x)
    BY <1>1, <1>5, <2>1, RecvStealWhere DEF AllInv, Token
  <2>3. Same
    BY <1>5 DEF RecvSteal, workers
  <2> QED
    BY <2>2, <2>3, StandJoin
<1>6. ASSUME NEW s \in Thread, RecvSwitch(n, s) PROVE JoinInv'
  <2>1. \A x \in Task : Stays(x)
    BY <1>6, RecvSwitchWhere DEF AllInv, Token
  <2>2. Same
    BY <1>6 DEF RecvSwitch, workers
  <2> QED
    BY <2>1, <2>2, StandJoin
<1>7. ASSUME NEW t \in Task, NEW to \in Node, DirectCreate(n, t, to) PROVE JoinInv'
  <2>1. n \in Thread /\ Here(n) = n
    BY DEF Thread, Here
  <2> QED
    BY <1>7, <2>1, DetachedJoin DEF DirectCreate
<1> QED
  BY <1>2, <1>3, <1>4, <1>5, <1>6, <1>7

----------------------------------------------------------------------------
(* Steps that finish a task.                                               *)

\* The counters after t has finished.
LEMMA DoneCounts ==
  ASSUME AllInv, TypeInv', NEW t \in Task, DepSatisfy(t), UNCHANGED <<desc, forked>>,
         t \in Outstanding, t \notin Outstanding',
         \A x \in Task \ {t} : x \in Outstanding' <=> x \in Outstanding,
         \A g \in Frame : Creating(g)' = Creating(g)
  PROVE  JoinCount' /\ \A f \in Frame : ndep[f] = 0 => ndep'[f] = 0
<1>1. \A f \in Frame : ndep'[f] = IF f = desc[t].parent THEN ndep[f] - 1 ELSE ndep[f]
  BY DEF DepSatisfy
<1>2. Outstanding \subseteq Task /\ Outstanding' \subseteq Task
  BY DEF Outstanding
<1> SUFFICES ASSUME NEW f \in Frame
             PROVE  /\ ndep'[f] = forked'[f] + Cardinality(Creating(f)') + Cardinality(ChildrenOf(f)')
                    /\ ndep[f] = 0 => ndep'[f] = 0
  BY DEF JoinCount
<1>3. /\ ndep[f] = forked[f] + Cardinality(Creating(f)) + Cardinality(ChildrenOf(f))
      /\ forked'[f] = forked[f] /\ Creating(f)' = Creating(f)
  BY DEF AllInv, JoinInv, JoinCount
<1>4. ndep[f] \in Nat /\ \A x \in ChildrenOf(f) : ndep[f] > 0
  BY CountBounds DEF AllInv, JoinInv
<1>5. CASE f # desc[t].parent
  <2>1. ChildrenOf(f)' = ChildrenOf(f)
    BY <1>2, <1>5 DEF ChildrenOf
  <2> QED
    BY <1>1, <1>3, <1>5, <2>1
<1>6. CASE f = desc[t].parent
  <2>1. ChildrenOf(f)' = ChildrenOf(f) \ {t} /\ t \in ChildrenOf(f)
    BY <1>2, <1>6 DEF ChildrenOf
  <2>2. IsFiniteSet(ChildrenOf(f))
    BY ChildrenFinite
  <2>3. Cardinality(ChildrenOf(f) \ {t}) = Cardinality(ChildrenOf(f)) - 1
    BY <2>1, <2>2, FS_RemoveElement
  <2>4. /\ Cardinality(ChildrenOf(f)) \in Nat /\ forked[f] \in 0 .. 1
        /\ Cardinality(Creating(f)) \in 0 .. 1
    BY <2>2, FS_CardinalityType, CreatingOne, TypeInvImpliesTypeOK DEF TypeOK, AllInv
  <2>5. ndep'[f] = ndep[f] - 1 /\ ndep[f] > 0
    BY <1>1, <1>4, <1>6, <2>1
  <2> QED
    BY <1>3, <2>1, <2>3, <2>4, <2>5
<1> QED
  BY <1>5, <1>6

\* The answer for t has come home.
LEMMA RecvAnswerJoin ==
  ASSUME AllInv, TypeInv', NEW n \in Node, NEW s \in Thread, RecvAnswer(n, s)
  PROVE  JoinInv'
<1>1. PICK t : t = Head(chan[<<s, n>>]).arg
  OBVIOUS
<1>2. /\ t \in Task /\ Has("chan", <<s, n>>, t) /\ Leaves(t)
      /\ \A x \in Task \ {t} : Stays(x)
  BY <1>1, RecvAnswerWhere DEF AllInv, Token, Live
<1>3. t \in Outstanding /\ t \notin Outstanding'
  BY <1>2, OutstandingNext DEF AllInv
<1>4. \A x \in Task \ {t} : x \in Outstanding' <=> x \in Outstanding
  BY <1>2, OutstandingNext DEF AllInv
<1>5. DepSatisfy(t) /\ UNCHANGED <<desc, forked, stack, pc>>
  BY <1>1 DEF RecvAnswer, workers
<1>6. \A g \in Frame : Creating(g)' = Creating(g)
  BY <1>5 DEF Creating, Self
<1>7. JoinCount' /\ \A f \in Frame : ndep[f] = 0 => ndep'[f] = 0
  BY <1>2, <1>3, <1>4, <1>5, <1>6, DoneCounts
<1>8. RunningCounts' /\ ReturnedDone'
  <2> SUFFICES ASSUME NEW w \in Worker
               PROVE  /\ pc[w] \in AtWork /\ forked[Self(w)] = 0 => ndep'[Self(w)] = 0
                      /\ pc[w] = "clean" => forked[Self(w)] = 0
    BY <1>5 DEF RunningCounts, ReturnedDone, Self
  <2>1. pc[w] \in AtWork => Self(w) \in Frame
    BY SelfOnStack DEF AllInv, TypeInv, Positions, AtWork
  <2>2. /\ pc[w] \in AtWork /\ forked[Self(w)] = 0 => ndep[Self(w)] = 0
        /\ pc[w] = "clean" => forked[Self(w)] = 0
    BY DEF AllInv, JoinInv, RunningCounts, ReturnedDone
  <2> QED
    BY <1>7, <2>1, <2>2
<1>9. OffStack'
  BY <1>5, <1>7 DEF AllInv, JoinInv, OffStack, OnStack, Frame
<1>10. ParentAlive'
  <2>1. \A x \in Outstanding' : x \in Outstanding
    BY <1>3, <1>4 DEF Outstanding
  <2> QED
    BY <1>5, <2>1 DEF AllInv, JoinInv, ParentAlive
<1> QED
  BY <1>7, <1>8, <1>9, <1>10 DEF JoinInv

\* The task on top of a stack returns: nothing that is not finished has it
\* for a parent.
LEMMA CleanupJoin ==
  ASSUME AllInv, TypeInv', NEW w \in Worker, Cleanup(w)
  PROVE  JoinInv'
<1> USE Constants
<1>1. PICK t : t = Self(w)
  OBVIOUS
<1>2. /\ t \in Task /\ Has("stack", w, t)
      /\ IF desc[t].homenode = node_of[w]
           THEN Leaves(t) ELSE Goes(t, "chan", <<w, desc[t].homenode>>)
      /\ \A x \in Token \ {t} : Stays(x)
  BY <1>1, CleanupWhere DEF AllInv, Live
<1>3. /\ pc \in [Worker -> WorkerPC] /\ stack \in [Worker -> Seq(Frame)]
  BY TypeInvImpliesTypeOK DEF TypeOK, AllInv
<1>4. /\ pc[w] = "clean" /\ UNCHANGED <<desc, forked>>
      /\ \A v \in Worker \ {w} : pc'[v] = pc[v] /\ stack'[v] = stack[v] /\ Self(v)' = Self(v)
      /\ pc'[w] \in {"scan", "check"}
  BY <1>3 DEF Cleanup, Resume, Goto, Self
<1>5. \A g \in Frame : Creating(g)' = Creating(g)
  <2> SUFFICES ASSUME NEW g \in Frame, NEW v \in Worker
               PROVE  pc'[v] = "create" /\ Self(v)' = g <=> pc[v] = "create" /\ Self(v) = g
    BY DEF Creating
  <2> QED
    BY <1>4
<1>6. t \in Outstanding /\ \A x \in Task \ {t} : x \in Outstanding' <=> x \in Outstanding
  BY <1>2, OutstandingNext DEF AllInv, Token
<1>7. /\ JoinCount' /\ \A f \in Frame : ndep[f] = 0 => ndep'[f] = 0
      /\ Outstanding' \subseteq Outstanding
  <2>1. CASE desc[t].homenode = node_of[w]
    <3>1. DepSatisfy(t)
      BY <1>1, <2>1 DEF Cleanup
    <3>2. t \notin Outstanding'
      BY <1>2, <2>1, OutstandingNext DEF AllInv
    <3>3. Outstanding' \subseteq Outstanding
      BY <1>6, <3>2 DEF Outstanding
    <3> QED
      BY <1>2, <1>4, <1>5, <1>6, <3>1, <3>2, <3>3, DoneCounts
  <2>2. CASE desc[t].homenode # node_of[w]
    <3>1. UNCHANGED ndep
      BY <1>1, <2>2 DEF Cleanup
    <3>2. t \in Outstanding'
      BY <1>2, <2>2, OutstandingNext DEF AllInv
    <3>3. Outstanding' = Outstanding
      BY <1>6, <3>2 DEF Outstanding
    <3>4. \A f \in Frame : ChildrenOf(f)' = ChildrenOf(f)
      BY <1>4, <3>3 DEF ChildrenOf
    <3> QED
      BY <1>4, <1>5, <3>1, <3>3, <3>4 DEF AllInv, JoinInv, JoinCount
  <2> QED
    BY <2>1, <2>2
<1>8. RunningCounts' /\ ReturnedDone'
  <2> SUFFICES ASSUME NEW v \in Worker
               PROVE  /\ pc'[v] \in AtWork /\ forked[Self(v)'] = 0 => ndep'[Self(v)'] = 0
                      /\ pc'[v] = "clean" => forked[Self(v)'] = 0
    BY <1>4 DEF RunningCounts, ReturnedDone
  <2>1. CASE v = w
    BY <1>4, <2>1 DEF AtWork
  <2>2. CASE v # w
    <3>1. pc[v] \in AtWork => Self(v) \in Frame
      BY SelfOnStack DEF AllInv, TypeInv, Positions, AtWork
    <3>2. /\ pc[v] \in AtWork /\ forked[Self(v)] = 0 => ndep[Self(v)] = 0
          /\ pc[v] = "clean" => forked[Self(v)] = 0
      BY DEF AllInv, JoinInv, RunningCounts, ReturnedDone
    <3> QED
      BY <1>4, <1>7, <2>2, <3>1, <3>2
  <2> QED
    BY <2>1, <2>2
<1>9. forked[t] = 0 /\ ndep[t] = 0
  BY <1>1, <1>4 DEF AllInv, JoinInv, RunningCounts, ReturnedDone, AtWork
<1>10. \A f \in Frame \ {t}, v \in Worker : f \in Range(stack'[v]) <=> f \in Range(stack[v])
  <2> SUFFICES ASSUME NEW f \in Frame \ {t}, NEW v \in Worker
               PROVE  Has("stack", v, f)' <=> Has("stack", v, f)
    BY DEF Has
  <2> QED
    BY <1>2 DEF Stays, Token, Frame
<1>11. OffStack'
  <2> SUFFICES ASSUME NEW x \in Task, ~OnStack(x)' PROVE forked[x] = 0 /\ ndep'[x] = 0
    BY <1>4 DEF OffStack
  <2>1. x \in Frame
    BY DEF Frame
  <2>2. CASE x # t
    BY <1>7, <1>10, <2>1, <2>2 DEF AllInv, JoinInv, OffStack, OnStack
  <2>3. CASE x = t
    BY <1>7, <1>9, <2>1, <2>3
  <2> QED
    BY <2>2, <2>3
<1>12. ParentAlive'
  <2> SUFFICES ASSUME NEW x \in Outstanding', desc[x].parent # NULL
               PROVE  \E v \in Worker : /\ node_of[v] = desc[x].homenode
                                        /\ desc[x].parent \in Range(stack'[v])
    BY <1>4 DEF ParentAlive
  <2>1. x \in Outstanding
    BY <1>7
  <2>2. PICK v \in Worker : /\ node_of[v] = desc[x].homenode
                            /\ desc[x].parent \in Range(stack[v])
    BY <2>1 DEF AllInv, JoinInv, ParentAlive
  <2>3. desc[x].parent \in Frame
    BY <1>3, <2>2 DEF Range
  <2>4. desc[x].parent # t
    <3>1. ASSUME desc[x].parent = t PROVE FALSE
      <4>1. x \in ChildrenOf(t)
        BY <2>1, <3>1 DEF ChildrenOf
      <4>2. ndep[t] > 0
        BY <2>3, <3>1, <4>1, CountBounds DEF AllInv, JoinInv
      <4> QED
        BY <1>9, <4>2
    <3> QED
      BY <3>1
  <2> QED
    BY <1>10, <2>2, <2>3, <2>4
<1> QED
  BY <1>7, <1>8, <1>11, <1>12 DEF JoinInv

----------------------------------------------------------------------------
(* The invariant.                                                          *)

LEMMA JoinInit == Init => JoinInv
<1> SUFFICES ASSUME Init PROVE JoinInv
  OBVIOUS
<1> USE Constants
<1>1. TypeInv /\ HolderInv
  BY TypeInit, HolderInit
<1>2. \A f \in Frame : ndep[f] = 0 /\ forked[f] = 0
  BY DEF Init
<1>3. \A w \in Worker : pc[w] = IF w = Main THEN "run" ELSE "scan"
  BY DEF Init
<1>4. \A t \in Task : t \notin Outstanding
  <2>1. \A t \in Task : desc[t] = NULL
    BY DEF Init
  <2>2. ASSUME NEW t \in Task PROVE ~Somewhere(t)
    BY <1>1, <2>1, UnbornNowhere DEF TypeInv, Somewhere
  <2> QED
    BY <1>1, <2>2, OutstandingSomewhere DEF OutstandingHeld
<1>5. Outstanding = {}
  BY <1>4 DEF Outstanding
<1>6. JoinCount
  <2>1. ASSUME NEW f PROVE Creating(f) = {} /\ ChildrenOf(f) = {}
    BY <1>3, <1>5 DEF Creating, ChildrenOf
  <2>2. Cardinality({}) = 0
    BY FS_EmptySet
  <2>3. \A f \in Frame : Cardinality(Creating(f)) = 0 /\ Cardinality(ChildrenOf(f)) = 0
    BY <2>1, <2>2
  <2> QED
    BY <1>2, <2>3 DEF JoinCount
<1>7. RunningCounts /\ ReturnedDone
  <2>1. ASSUME NEW w \in Worker, pc[w] \in AtWork PROVE ndep[Self(w)] = 0 /\ pc[w] # "clean"
    <3>1. Self(w) \in Frame
      BY <1>1, <2>1, SelfOnStack DEF TypeInv, Positions, AtWork
    <3> QED
      BY <1>2, <1>3, <3>1
  <2> QED
    BY <2>1 DEF RunningCounts, ReturnedDone, AtWork
<1>8. OffStack /\ ParentAlive
  BY <1>2, <1>5 DEF OffStack, ParentAlive, Frame
<1> QED
  BY <1>6, <1>7, <1>8 DEF JoinInv

LEMMA JoinStep == AllInv /\ [Next]_vars => JoinInv'
<1> SUFFICES ASSUME AllInv, [Next]_vars PROVE JoinInv'
  OBVIOUS
<1>1. TypeInv'
  BY TypeStep DEF AllInv
<1>2. CASE UNCHANGED vars
  <2>1. UNCHANGED <<desc, ndep, forked, queues, net, stack, pc, hand, serving>>
    BY <1>2 DEF vars, workers, nodes
  <2> QED
    BY <1>1, <2>1, Unmoved, StandJoin
<1>3. ASSUME NEW w \in Worker, Call(w) PROVE JoinInv'
  BY <1>1, <1>3, CallJoin, OtherCallJoin DEF Call
<1>4. ASSUME NEW w \in Worker, Library(w) PROVE JoinInv'
  BY <1>1, <1>4, EnqueueJoin, LibraryJoin, CleanupJoin DEF Library, Enqueue
<1>5. ASSUME NEW n \in Node, Server(n) PROVE JoinInv'
  BY <1>1, <1>5, ServerJoin, RecvAnswerJoin DEF Server
<1>6. ASSUME NEW n \in Node, NEW t \in Task, NEW to \in Node, DirectCreate(n, t, to)
      PROVE  JoinInv'
  BY <1>1, <1>6, ServerJoin
<1> QED
  BY <1>2, <1>3, <1>4, <1>5, <1>6 DEF Next

----------------------------------------------------------------------------
\* The whole invariant of the runtime.
THEOREM JoinSpec == Spec => []AllInv
<1>1. Init => AllInv
  BY TypeInit, HolderInit, JoinInit DEF AllInv
<1>2. AllInv /\ [Next]_vars => AllInv'
  BY TypeStep, HolderStep, JoinStep DEF AllInv
<1> QED
  BY <1>1, <1>2, PTL DEF Spec

\* A join counter is what its owner has created, or is creating, and what is
\* not finished, wherever it runs: no child is counted down twice or never.
THEOREM JoinCountCorrect == Spec => []JoinCount
<1>1. AllInv => JoinCount
  BY DEF AllInv, JoinInv
<1> QED
  BY <1>1, JoinSpec, PTL

\* Whatever is stolen or sent, the pointer to the parent is good when the
\* answer comes back.
THEOREM ParentAliveCorrect == Spec => []ParentAlive
<1>1. AllInv => ParentAlive
  BY DEF AllInv, JoinInv
<1> QED
  BY <1>1, JoinSpec, PTL

-----------------------------------------------------------------------------
(***************************************************************************)
(* The runtime implements fork-join (ImplementsForkJoin), for any number   *)
(* of nodes, workers, tasks and levels.                                    *)
(*                                                                         *)
(* The phase of a task follows from where it is: in a queue, in a hand or  *)
(* on its way to another node it is ready; on a stack or with a server it  *)
(* runs; once its worker is in _torc_cleanup, or its answer is on its way, *)
(* it has ended; in no place at all it is joined.  Every step of the       *)
(* runtime is then a step of ForkJoin or changes nothing there.  The       *)
(* promise of a wait, and that a task ends after all it has created, are   *)
(* the join count of AllInv: a frame that counts nothing has no unfinished *)
(* child.                                                                  *)
(***************************************************************************)

PhaseOf(t) ==
  IF desc[t] = NULL THEN "unborn"
  ELSE IF t \notin Outstanding THEN "joined"
  ELSE IF t \in Answered \/ t \in Returned THEN "ended"
  ELSE IF t \in Begun THEN "running"
  ELSE "ready"

\* The abstract phases, before and after a step.
LEMMA PhaseShape ==
  /\ PhaseBar = [t \in Task |-> PhaseOf(t)]
  /\ PhaseBar' = [t \in Task |-> PhaseOf(t)']
BY DEF PhaseBar, PhaseOf

LEMMA ParentShape ==
  /\ ParentBar = [t \in Task |-> IF desc[t] = NULL THEN NULL ELSE desc[t].parent]
  /\ ParentBar' = [t \in Task |-> IF desc'[t] = NULL THEN NULL ELSE desc'[t].parent]
BY DEF ParentBar

----------------------------------------------------------------------------
(* Tasks that have begun, returned, or been answered.                      *)

BegunHeld == \A t \in Task : t \in Begun <=> \E i : Has("stack", i, t) \/ Has("serving", i, t)

LEMMA BegunSomewhere == TypeInv => BegunHeld
<1> SUFFICES ASSUME TypeInv, NEW t \in Task
             PROVE  t \in Begun <=> \E i : Has("stack", i, t) \/ Has("serving", i, t)
  BY DEF BegunHeld
<1>1. t \in Range(serving) <=> \E i : Has("serving", i, t)
  <2>1. DOMAIN serving = Node
    BY TypeInvImpliesTypeOK DEF TypeOK
  <2> QED
    BY <2>1 DEF Has, Range
<1>2. t \in UNION {Range(stack[w]) : w \in Worker} <=> \E i : Has("stack", i, t)
  BY DEF Has
<1> QED
  BY <1>1, <1>2 DEF Begun

LEMMA BegunNext ==
  ASSUME TypeInv, TypeInv', NEW t \in Task
  PROVE  /\ t \in Begun <=> \E i : Has("stack", i, t) \/ Has("serving", i, t)
         /\ Stays(t) => (t \in Begun' <=> t \in Begun)
         /\ Leaves(t) => t \notin Begun'
         /\ \A k, i : Goes(t, k, i) => (t \in Begun' <=> k \in {"stack", "serving"})
<1>1. t \in Begun <=> \E i : Has("stack", i, t) \/ Has("serving", i, t)
  BY BegunSomewhere DEF BegunHeld
<1>2. TypeInv' => BegunHeld'
  BY BegunSomewhere, PTL
<1>3. t \in Begun' <=> \E i : Has("stack", i, t)' \/ Has("serving", i, t)'
  BY <1>2 DEF BegunHeld
<1> QED
  BY <1>1, <1>3 DEF Stays, Leaves, Goes

\* An answer on its way is a message that carries the task.
AnswerOn(c, t) == Msg("TORC_ANSWER", t) \in Range(chan[c])

LEMMA AnsweredShape ==
  ASSUME NEW t \in Task
  PROVE  /\ t \in Answered <=> \E c \in Thread \X Node : AnswerOn(c, t)
         /\ t \in Answered' <=> \E c \in Thread \X Node : AnswerOn(c, t)'
<1>1. Msg("TORC_ANSWER", t).arg = t
  BY DEF Msg
<1> QED
  BY <1>1 DEF Answered, AnswerOn, Travelling

LEMMA AnsweredTravels ==
  ASSUME NEW t \in Task, NEW c \in Thread \X Node, AnswerOn(c, t)
  PROVE  Has("chan", c, t)
BY DEF AnswerOn, Msg, Has, Carried, Range

LEMMA SendAnswered ==
  ASSUME TypeInv, NEW s \in Thread, NEW n \in Node, NEW m \in Message, Send(s, n, m)
  PROVE  \A x \in Task : x \in Answered' <=> x \in Answered \/ m = Msg("TORC_ANSWER", x)
<1> SUFFICES ASSUME NEW x \in Task
             PROVE  x \in Answered' <=> x \in Answered \/ m = Msg("TORC_ANSWER", x)
  OBVIOUS
<1>1. chan \in [Thread \X Node -> Seq(Message)] /\ <<s, n>> \in Thread \X Node
  BY TypeInvImpliesTypeOK DEF TypeOK
<1>2. \A c \in Thread \X Node : Range(chan'[c]) = Range(chan[c]) \cup (IF c = <<s, n>> THEN {m} ELSE {})
  <2>1. ASSUME NEW c \in Thread \X Node, c = <<s, n>>
        PROVE  chan'[c] = Append(chan[c], m) /\ chan[c] \in Seq(Message)
    BY <1>1, <2>1 DEF Send
  <2>2. ASSUME NEW c \in Thread \X Node, c # <<s, n>> PROVE chan'[c] = chan[c]
    BY <1>1, <2>2 DEF Send
  <2>3. \A c \in Thread \X Node : Range(Append(chan[c], m)) = Range(chan[c]) \cup {m}
    BY <1>1, AppendRange
  <2> QED
    BY <2>1, <2>2, <2>3
<1>3. \A c \in Thread \X Node :
        AnswerOn(c, x)' <=> AnswerOn(c, x) \/ (c = <<s, n>> /\ m = Msg("TORC_ANSWER", x))
  BY <1>2 DEF AnswerOn
<1> QED
  BY <1>1, <1>3, AnsweredShape

\* Only the task of the message received can lose its answer, and the
\* message is the only one that carries it.
LEMMA ReceiveAnswered ==
  ASSUME TypeInv, HolderInv, NEW s \in Thread, NEW n \in Node, chan[<<s, n>>] # <<>>,
         Receive(s, n), NEW h, h = Head(chan[<<s, n>>])
  PROVE  /\ \A x \in Task : x # h.arg => (x \in Answered' <=> x \in Answered)
         /\ h.arg \in Task => (h.arg \in Answered <=> h.type = "TORC_ANSWER")
<1>1. chan \in [Thread \X Node -> Seq(Message)] /\ <<s, n>> \in Thread \X Node
  BY TypeInvImpliesTypeOK DEF TypeOK
<1> DEFINE q == chan[<<s, n>>]
<1>2. q \in Seq(Message) /\ chan'[<<s, n>>] = Tail(q)
  BY <1>1 DEF Receive
<1>3. Range(q) = Range(Tail(q)) \cup {h} /\ h \in Range(q)
  BY <1>2, TailRange
<1>4. \A c \in Thread \X Node : c # <<s, n>> => chan'[c] = chan[c]
  BY <1>1 DEF Receive
<1>5. ASSUME NEW x \in Task, x # h.arg PROVE x \in Answered' <=> x \in Answered
  <2>1. h # Msg("TORC_ANSWER", x)
    BY <1>5 DEF Msg
  <2>2. \A c \in Thread \X Node : AnswerOn(c, x)' <=> AnswerOn(c, x)
    BY <1>2, <1>3, <1>4, <2>1 DEF AnswerOn
  <2> QED
    BY <2>2, AnsweredShape
<1>6. ASSUME h.arg \in Task PROVE h.arg \in Answered <=> h.type = "TORC_ANSWER"
  <2> DEFINE a == h.arg
  <2>1. a \in Token
    BY <1>6 DEF Token
  <2>2. Has("chan", <<s, n>>, a)
    BY <1>1, <1>3 DEF Has, Carried, Range
  <2>3. ASSUME NEW c \in Thread \X Node, AnswerOn(c, a) PROVE h = Msg("TORC_ANSWER", a)
    <3>1. c = <<s, n>>
      BY <1>6, <2>1, <2>2, <2>3, AnsweredTravels DEF HolderInv, Apart, AtMostOnePlace
    <3>2. PICK i \in DOMAIN q : q[i] = Msg("TORC_ANSWER", a)
      BY <2>3, <3>1 DEF AnswerOn, Range
    <3>3. PICK j \in DOMAIN q : q[j] = h
      BY <1>3 DEF Range
    <3>4. Carried(q)[i] = a /\ Carried(q)[j] = a /\ DOMAIN Carried(q) = DOMAIN q
      BY <3>2, <3>3 DEF Carried, Msg
    <3>5. Once(Carried(q), Token)
      BY <1>1 DEF HolderInv, NoRepeat
    <3>6. i = j
      BY <2>1, <3>4, <3>5 DEF Once
    <3> QED
      BY <3>2, <3>3, <3>6
  <2>4. h \in Message
    BY <1>2, <1>3 DEF Range
  <2>5. h.type = "TORC_ANSWER" => h = Msg("TORC_ANSWER", a)
    BY <2>4 DEF Message, Msg
  <2>6. h = Msg("TORC_ANSWER", a) => AnswerOn(<<s, n>>, a) /\ h.type = "TORC_ANSWER"
    BY <1>3 DEF AnswerOn, Msg
  <2> QED
    BY <1>1, <1>6, <2>3, <2>5, <2>6, AnsweredShape
<1> QED
  BY <1>5, <1>6

LEMMA CarriesAnswer ==
  ASSUME TypeInv, HolderInv, NEW t \in Task, t \in Answered
  PROVE  /\ \E c : Has("chan", c, t)
         /\ \A k, i : Has(k, i, t) => k = "chan"
<1>1. PICK c \in Thread \X Node : AnswerOn(c, t)
  BY AnsweredShape
<1>2. Has("chan", c, t) /\ t \in Token
  BY <1>1, AnsweredTravels DEF Token
<1> QED
  BY <1>2 DEF HolderInv, Apart, AtMostOnePlace

\* A task that has returned is on top of the stack of the worker it was run by.
LEMMA ReturnedShape ==
  ASSUME TypeInv, HolderInv, NEW t \in Task
  PROVE  /\ t \in Returned <=> \E w \in Worker : pc[w] = "clean" /\ Self(w) = t
         /\ t \in Returned' <=> \E w \in Worker : pc'[w] = "clean" /\ Self(w)' = t
         /\ \A w \in Worker : pc[w] = "clean" /\ Self(w) = t => Has("stack", w, t)
         /\ t \in Returned => \A k, i : Has(k, i, t) => k = "stack"
<1>1. /\ t \in Returned <=> \E w \in Worker : pc[w] = "clean" /\ Self(w) = t
      /\ t \in Returned' <=> \E w \in Worker : pc'[w] = "clean" /\ Self(w)' = t
  BY DEF Returned
<1>2. ASSUME NEW w \in Worker, pc[w] = "clean", Self(w) = t PROVE Has("stack", w, t)
  BY <1>2, SelfOnStack DEF TypeInv, Positions, Has
<1> QED
  BY <1>1, <1>2 DEF HolderInv, Apart, AtMostOnePlace, Token

----------------------------------------------------------------------------
(* Phases.                                                                 *)

\* The phase of task t in place i of kind k.
PhaseAt(t, k, i) ==
  /\ desc[t] # NULL /\ t \in Outstanding
  /\ k \in {"private", "public", "reply", "hand"} => PhaseOf(t) = "ready"
  /\ k = "chan" => PhaseOf(t) = IF t \in Answered THEN "ended" ELSE "ready"
  /\ k = "serving" => PhaseOf(t) = "running"
  /\ k = "stack" => PhaseOf(t) = IF pc[i] = "clean" /\ Self(i) = t THEN "ended" ELSE "running"

PhaseHeld == \A t \in Task : \A k, i : Has(k, i, t) => PhaseAt(t, k, i)

LEMMA PhaseWhere == TypeInv /\ HolderInv => PhaseHeld
<1> SUFFICES ASSUME TypeInv, HolderInv, NEW t \in Task, NEW k, NEW i, Has(k, i, t)
             PROVE  PhaseAt(t, k, i)
  BY DEF PhaseHeld
<1>1. t \in Token
  BY DEF Token
<1>2. \A l, j : Has(l, j, t) => l = k /\ j = i
  BY <1>1 DEF HolderInv, Apart, AtMostOnePlace
<1>3. desc[t] # NULL
  BY UnbornNowhere DEF TypeInv
<1>4. t \in Outstanding
  BY OutstandingSomewhere DEF OutstandingHeld, Somewhere
<1>5. t \in Begun <=> k \in {"stack", "serving"}
  BY <1>2, BegunSomewhere DEF BegunHeld
<1>6. t \in Answered => k = "chan"
  BY CarriesAnswer
<1>7. t \in Returned => k = "stack"
  BY ReturnedShape
<1>8. k = "stack" => (t \in Returned <=> pc[i] = "clean" /\ Self(i) = t)
  BY <1>2, ReturnedShape DEF Has
<1> QED
  BY <1>3, <1>4, <1>5, <1>6, <1>7, <1>8 DEF PhaseOf, PhaseAt

LEMMA PhaseNext ==
  ASSUME TypeInv, HolderInv, TypeInv', HolderInv', NEW t \in Task
  PROVE  /\ \A k, i : Has(k, i, t) => PhaseAt(t, k, i)
         /\ \A k, i : Goes(t, k, i) => PhaseAt(t, k, i)'
<1>1. (TypeInv /\ HolderInv)' => PhaseHeld'
  BY PhaseWhere, PTL
<1>2. \A k, i : Has(k, i, t)' => PhaseAt(t, k, i)'
  BY <1>1 DEF PhaseHeld
<1> QED
  BY <1>2, PhaseWhere DEF PhaseHeld, Goes

\* The phase of a task that a step leaves where it is.
LEMMA PhaseSame ==
  ASSUME TypeInv, TypeInv', NEW t \in Task, desc'[t] = desc[t], Stays(t),
         t \in Answered' <=> t \in Answered, t \in Returned' <=> t \in Returned
  PROVE  PhaseOf(t)' = PhaseOf(t)
BY OutstandingNext, BegunNext DEF PhaseOf

----------------------------------------------------------------------------
(* Callers inside a wait.                                                  *)

\* Frame f is on the stack of w, below the top or on top and waiting.
InWait(f, w) == f \in Range(stack[w]) /\ (f = Self(w) => pc[w] \in WaitPC)

WaitingHeld == \A f \in Frame : f \in WaitingBar <=> \E w \in Worker : InWait(f, w)

LEMMA WaitingWhere == TypeInv /\ HolderInv => WaitingHeld
<1> SUFFICES ASSUME TypeInv, HolderInv, NEW f \in Frame
             PROVE  f \in WaitingBar <=> \E w \in Worker : InWait(f, w)
  BY DEF WaitingHeld
<1>1. f \in Token
  BY DEF Frame, Token
<1>2. ASSUME NEW w \in Worker
      PROVE  (\E i \in DOMAIN stack[w] : stack[w][i] = f /\ (i < Len(stack[w]) \/ pc[w] \in WaitPC))
             <=> InWait(f, w)
  <2>1. /\ stack[w] \in Seq(Frame) /\ DOMAIN stack[w] = 1 .. Len(stack[w]) /\ Len(stack[w]) \in Nat
    BY TypeInvImpliesTypeOK, LenProperties DEF TypeOK
  <2>2. Self(w) = stack[w][Len(stack[w])]
    BY DEF Self, Last
  <2>3. \A i \in DOMAIN stack[w] : stack[w][i] = f /\ f = Self(w) => i = Len(stack[w])
    <3> SUFFICES ASSUME NEW i \in DOMAIN stack[w], stack[w][i] = f, f = Self(w)
                 PROVE  i = Len(stack[w])
      OBVIOUS
    <3>1. Len(stack[w]) \in DOMAIN stack[w]
      BY <2>1
    <3> QED
      BY <1>1, <2>2, <3>1 DEF HolderInv, NoRepeat, Once
  <2>4. \A i \in DOMAIN stack[w] : i < Len(stack[w]) \/ stack[w][i] = Self(w)
    BY <2>1, <2>2
  <2>5. ASSUME NEW i \in DOMAIN stack[w], stack[w][i] = f, i < Len(stack[w]) \/ pc[w] \in WaitPC
        PROVE  InWait(f, w)
    BY <2>1, <2>3, <2>5 DEF InWait, Range
  <2>6. ASSUME InWait(f, w)
        PROVE  \E i \in DOMAIN stack[w] : stack[w][i] = f /\ (i < Len(stack[w]) \/ pc[w] \in WaitPC)
    BY <2>4, <2>6 DEF InWait, Range
  <2> QED
    BY <2>5, <2>6
<1> QED
  BY <1>2 DEF WaitingBar

LEMMA WaitingNext ==
  ASSUME TypeInv, HolderInv, TypeInv', HolderInv', NEW f \in Frame
  PROVE  /\ f \in WaitingBar <=> \E w \in Worker : InWait(f, w)
         /\ f \in WaitingBar' <=> \E w \in Worker : InWait(f, w)'
<1>1. (TypeInv /\ HolderInv)' => WaitingHeld'
  BY WaitingWhere, PTL
<1> QED
  BY <1>1, WaitingWhere DEF WaitingHeld

\* A worker goes from one point to another.
LEMMA WalkWaiting ==
  ASSUME TypeInv, HolderInv, TypeInv', HolderInv', NEW w \in Worker, UNCHANGED stack,
         NEW from, NEW to, pc[w] = from, Goto(w, to)
  PROVE  /\ (from \in WaitPC <=> to \in WaitPC) => WaitingBar' = WaitingBar
         /\ stack[w] # <<>> /\ from \notin WaitPC /\ to \in WaitPC
              => WaitingBar' = WaitingBar \cup {Self(w)}
         /\ stack[w] # <<>> /\ from \in WaitPC /\ to \notin WaitPC
              => WaitingBar' = WaitingBar \ {Self(w)}
<1>1. /\ \A v \in Worker : Self(v)' = Self(v)
      /\ \A v \in Worker : pc'[v] = IF v = w THEN to ELSE pc[v]
  BY TypeInvImpliesTypeOK DEF TypeOK, Goto, Self
<1>2. \A f : f \in WaitingBar => f \in Frame
  BY DEF WaitingBar
<1>3. \A f : f \in WaitingBar' => f \in Frame
  BY DEF WaitingBar
<1>4. \A f \in Frame, v \in Worker :
        InWait(f, v)' <=> f \in Range(stack[v]) /\ (f = Self(v) => pc'[v] \in WaitPC)
  BY <1>1 DEF InWait
<1>5. \A f \in Frame, v \in Worker : v # w \/ f # Self(w) => (InWait(f, v)' <=> InWait(f, v))
  BY <1>1, <1>4 DEF InWait
<1>6. CASE from \in WaitPC <=> to \in WaitPC
  <2>1. \A f \in Frame, v \in Worker : InWait(f, v)' <=> InWait(f, v)
    BY <1>1, <1>4, <1>5, <1>6 DEF InWait
  <2>2. \A f \in Frame : f \in WaitingBar' <=> f \in WaitingBar
    BY <2>1, WaitingNext
  <2> QED
    BY <1>2, <1>3, <1>6, <2>2
<1>7. CASE stack[w] # <<>> /\ ~(from \in WaitPC <=> to \in WaitPC)
  <2>1. PICK f \in Frame : f = Self(w) /\ f \in Range(stack[w])
    BY <1>7, SelfOnStack
  <2>2. \A v \in Worker : f \in Range(stack[v]) => v = w
    <3>1. \A v \in Worker : f \in Range(stack[v]) => Has("stack", v, f)
      BY DEF Has
    <3> QED
      BY <2>1, <3>1 DEF HolderInv, Apart, AtMostOnePlace, Frame, Token
  <2>3. /\ InWait(f, w)' <=> to \in WaitPC
        /\ InWait(f, w) <=> from \in WaitPC
        /\ \A v \in Worker \ {w} : ~InWait(f, v) /\ ~InWait(f, v)'
    BY <1>1, <1>4, <2>1, <2>2 DEF InWait
  <2>4. /\ f \in WaitingBar' <=> to \in WaitPC
        /\ f \in WaitingBar <=> from \in WaitPC
    BY <2>1, <2>3, WaitingNext
  <2>5. ASSUME NEW g \in Frame, g # f PROVE g \in WaitingBar' <=> g \in WaitingBar
    BY <1>5, <2>1, <2>5, WaitingNext
  <2> QED
    BY <1>2, <1>3, <1>7, <2>1, <2>4, <2>5
<1> QED
  BY <1>6, <1>7

\* Stacks and positions do not change.
LEMMA StandWaiting ==
  ASSUME UNCHANGED <<stack, pc>>
  PROVE  WaitingBar' = WaitingBar /\ Returned' = Returned
BY DEF WaitingBar, Returned, Self

\* A worker that is not in _torc_cleanup goes on, and does not enter it.
LEMMA WalkReturned ==
  ASSUME TypeInv, NEW w \in Worker, UNCHANGED stack, NEW to, Goto(w, to), pc[w] # "clean", to # "clean"
  PROVE  Returned' = Returned
<1>1. \A v \in Worker : /\ Self(v)' = Self(v)
                        /\ pc'[v] = "clean" <=> pc[v] = "clean"
  BY TypeInvImpliesTypeOK DEF TypeOK, Goto, Self
<1> QED
  BY <1>1 DEF Returned

----------------------------------------------------------------------------
(* Steps of the abstract specification.                                    *)

Step == FJ!Next \/ UNCHANGED <<PhaseBar, ParentBar, WaitingBar>>

\* Nothing changes.
LEMMA StillStep ==
  ASSUME UNCHANGED desc, \A t \in Task : PhaseOf(t)' = PhaseOf(t), WaitingBar' = WaitingBar
  PROVE  Step
BY PhaseShape, ParentShape DEF Step

\* One task changes phase.
LEMMA PhaseStep ==
  ASSUME UNCHANGED desc, WaitingBar' = WaitingBar, NEW t \in Task, NEW from, NEW to,
         PhaseOf(t) = from, PhaseOf(t)' = to,
         \A x \in Task \ {t} : PhaseOf(x)' = PhaseOf(x),
         \/ from = "ready" /\ to = "running"
         \/ from = "ended" /\ to = "joined"
         \/ /\ from = "running" /\ to = "ended"
            /\ t \notin WaitingBar /\ \A x \in Task : desc[x] # NULL /\ desc[x].parent = t => PhaseOf(x) = "joined"
  PROVE  Step
<1>1. /\ PhaseBar[t] = from /\ PhaseBar' = [PhaseBar EXCEPT ![t] = to]
      /\ UNCHANGED <<ParentBar, WaitingBar>>
  BY PhaseShape, ParentShape
<1>2. FJ!Moves(t, from, to)
  BY <1>1 DEF FJ!Moves
<1>3. CASE from = "ready" /\ to = "running"
  BY <1>1, <1>2, <1>3 DEF Step, FJ!Next, FJ!Start
<1>4. CASE from = "ended" /\ to = "joined"
  BY <1>1, <1>2, <1>4 DEF Step, FJ!Next, FJ!Join
<1>5. CASE /\ from = "running" /\ to = "ended"
           /\ t \notin WaitingBar /\ \A x \in Task : desc[x] # NULL /\ desc[x].parent = t => PhaseOf(x) = "joined"
  <2>1. FJ!Active(t)
    BY <1>1, <1>5 DEF FJ!Active
  <2>2. FJ!AllJoined(t)
    <3> SUFFICES ASSUME NEW x \in Task, ParentBar[x] = t, PhaseBar[x] # "unborn" PROVE PhaseBar[x] = "joined"
      BY DEF FJ!AllJoined, FJ!Children
    <3>1. PhaseOf(x) # "unborn" /\ PhaseBar[x] = PhaseOf(x)
      BY PhaseShape
    <3>2. desc[x] # NULL /\ desc[x].parent = t
      BY <3>1, ParentShape DEF PhaseOf
    <3> QED
      BY <1>5, <3>1, <3>2
  <2>3. FJ!End(t)
    BY <1>1, <1>2, <1>5, <2>1, <2>2 DEF FJ!End
  <2> QED
    BY <2>3 DEF Step, FJ!Next
<1> QED
  BY <1>3, <1>4, <1>5

\* Both states of a step.
Both == AllInv /\ AllInv'

\* A task that counts nothing has nothing unfinished below it.
LEMMA NoneLeft ==
  ASSUME AllInv, NEW f \in Frame, ndep[f] = 0
  PROVE  \A x \in Task : desc[x] # NULL /\ desc[x].parent = f => PhaseOf(x) = "joined"
<1>1. \A x : x \notin ChildrenOf(f)
  BY CountBounds DEF AllInv, JoinInv
<1> QED
  BY <1>1 DEF ChildrenOf, PhaseOf

\* The task on top of a stack, outside any wait.
LEMMA CallerActive ==
  ASSUME AllInv, NEW w \in Worker, NEW f, f = Self(w), pc[w] \notin WaitPC \cup {"clean"}
  PROVE  /\ f \in Frame /\ f \notin WaitingBar /\ FJ!Active(f)
         /\ f \in Task => PhaseOf(f) = "running"
<1>1. stack[w] # <<>> /\ f \in Frame /\ f \in Range(stack[w])
  BY SelfOnStack DEF AllInv, TypeInv, Positions, WaitPC
<1>2. f \in Token /\ Has("stack", w, f)
  BY <1>1 DEF Frame, Token, Has
<1>3. f \notin WaitingBar
  <2>1. ASSUME NEW v \in Worker, InWait(f, v) PROVE FALSE
    <3>1. v = w
      BY <1>2, <2>1 DEF InWait, Has, AllInv, HolderInv, Apart, AtMostOnePlace
    <3> QED
      BY <2>1, <3>1 DEF InWait
  <2> QED
    BY <1>1, <2>1, WaitingWhere DEF WaitingHeld, AllInv
<1>4. ASSUME f \in Task PROVE PhaseOf(f) = "running"
  <2>1. PhaseAt(f, "stack", w)
    BY <1>2, <1>4, PhaseWhere DEF PhaseHeld, AllInv
  <2> QED
    BY <2>1 DEF PhaseAt
<1>5. FJ!Active(f)
  <2>1. f = Root \/ PhaseBar[f] = "running"
    BY <1>1, <1>4, PhaseShape DEF Frame
  <2> QED
    BY <1>3, <2>1 DEF FJ!Active
<1> QED
  BY <1>1, <1>3, <1>4, <1>5

\* A wait begins.
LEMMA BeginStep ==
  ASSUME Both, NEW w \in Worker, NEW to \in WaitPC, pc[w] = "run", Goto(w, to),
         UNCHANGED <<desc, queues, net, stack, hand, serving>>
  PROVE  Step
<1>1. PICK f : f = Self(w)
  OBVIOUS
<1>2. f \in Frame /\ FJ!Active(f)
  BY <1>1, CallerActive DEF Both, WaitPC
<1>3. WaitingBar' = WaitingBar \cup {f}
  BY <1>1, WalkWaiting DEF Both, AllInv, WaitPC, TypeInv, Positions
<1>4. Returned' = Returned
  BY WalkReturned DEF Both, AllInv, WaitPC
<1>5. \A t \in Task : PhaseOf(t)' = PhaseOf(t)
  <2>1. Answered' = Answered
    BY DEF Answered, Travelling, net
  <2> QED
    BY <1>4, <2>1, Unmoved, PhaseSame DEF Both, AllInv
<1>6. PhaseBar' = PhaseBar /\ ParentBar' = ParentBar
  BY <1>5, PhaseShape, ParentShape
<1>7. FJ!BeginWait(f)
  BY <1>2, <1>3, <1>6 DEF FJ!BeginWait
<1>8. f \in FJ!Frame
  BY <1>2 DEF Frame, FJ!Frame
<1> QED
  BY <1>7, <1>8 DEF Step, FJ!Next

\* A wait ends: its caller counts nothing.
LEMMA EndStep ==
  ASSUME Both, NEW w \in Worker, pc[w] \in {"check", "spin"}, Goto(w, "run"), ndep[Self(w)] = 0,
         UNCHANGED <<desc, queues, net, stack, hand, serving>>
  PROVE  Step
<1>1. PICK f : f = Self(w)
  OBVIOUS
<1>2. stack[w] # <<>> /\ f \in Frame /\ f \in Range(stack[w])
  BY <1>1, SelfOnStack DEF Both, AllInv, TypeInv, Positions
<1>3. WaitingBar' = WaitingBar \ {f}
  BY <1>1, <1>2, WalkWaiting DEF Both, AllInv, WaitPC
<1>4. f \in WaitingBar
  BY <1>1, <1>2, WaitingWhere DEF WaitingHeld, InWait, WaitPC, Both, AllInv
<1>5. Returned' = Returned
  BY WalkReturned DEF Both, AllInv
<1>6. \A t \in Task : PhaseOf(t)' = PhaseOf(t)
  <2>1. Answered' = Answered
    BY DEF Answered, Travelling, net
  <2> QED
    BY <1>5, <2>1, Unmoved, PhaseSame DEF Both, AllInv
<1>7. PhaseBar' = PhaseBar /\ ParentBar' = ParentBar
  BY <1>6, PhaseShape, ParentShape
<1>8. FJ!AllJoined(f)
  <2> SUFFICES ASSUME NEW x \in Task, ParentBar[x] = f, PhaseBar[x] # "unborn" PROVE PhaseBar[x] = "joined"
    BY DEF FJ!AllJoined, FJ!Children
  <2>1. desc[x] # NULL /\ desc[x].parent = f /\ PhaseBar[x] = PhaseOf(x)
    BY PhaseShape, ParentShape DEF PhaseOf
  <2> QED
    BY <1>1, <1>2, <2>1, NoneLeft DEF Both
<1>9. FJ!EndWait(f)
  BY <1>3, <1>4, <1>7, <1>8 DEF FJ!EndWait
<1>10. f \in FJ!Frame
  BY <1>2 DEF Frame, FJ!Frame
<1> QED
  BY <1>9, <1>10 DEF Step, FJ!Next

\* Active frame f creates task t.
LEMMA CreateStep ==
  ASSUME Both, NEW f \in Frame, FJ!Active(f), NEW s \in Thread, NEW t \in Task, NEW to \in Node,
         NEW p \in {f, NULL}, NEW level \in Nat, NEW direct \in BOOLEAN,
         NewDesc(t, p, Here(s), level, direct), Place(s, t, to),
         UNCHANGED <<private_grq, reply, stack, hand, serving>>,
         Returned' = Returned, WaitingBar' = WaitingBar
  PROVE  Step
<1> USE Constants
<1>1. /\ \E k, i : Goes(t, k, i)
      /\ \A x \in Token \ {t} : Stays(x)
      /\ \A k, i : ~Has(k, i, t)
  BY PlaceWhere DEF Both, AllInv
<1>2. \A x \in Task : x \in Answered' <=> x \in Answered
  <2>1. CASE to = Here(s)
    BY <2>1 DEF Place, Answered, Travelling
  <2>2. CASE to # Here(s)
    <3>1. /\ Msg("TORC_NORMAL_ENQUEUE", t) \in Message
          /\ \A x : Msg("TORC_NORMAL_ENQUEUE", t) # Msg("TORC_ANSWER", x)
      BY DEF Msg, Message
    <3>2. Send(s, to, Msg("TORC_NORMAL_ENQUEUE", t))
      BY <2>2 DEF Place
    <3> QED
      BY <3>1, <3>2, SendAnswered DEF Both, AllInv
  <2> QED
    BY <2>1, <2>2
<1>3. desc[t] = NULL /\ desc'[t] # NULL /\ desc'[t].parent = p /\ \A x \in Task \ {t} : desc'[x] = desc[x]
  <2>1. Here(s) \in Node
    BY DEF Here, Thread
  <2>2. [parent |-> p, homenode |-> Here(s), level |-> level, direct |-> direct] \in TaskDesc
    BY <2>1 DEF TaskDesc, Frame
  <2>3. desc'[t] = [parent |-> p, homenode |-> Here(s), level |-> level, direct |-> direct]
    BY TypeInvImpliesTypeOK DEF NewDesc, TypeOK, Both, AllInv
  <2> QED
    BY <2>2, <2>3 DEF NewDesc
<1>4. \A x \in Task \ {t} : PhaseOf(x)' = PhaseOf(x)
  BY <1>1, <1>2, <1>3, PhaseSame DEF Both, AllInv, Token
<1>5. PhaseOf(t) = "unborn" /\ PhaseOf(t)' = "ready"
  <2>1. t \in Outstanding'
    BY <1>1, OutstandingNext DEF Both, AllInv
  <2>2. t \notin Begun'
    <3>1. t \notin Begun
      BY <1>1, BegunNext DEF Both, AllInv
    <3>2. Begun' = Begun
      BY DEF Begun
    <3> QED
      BY <3>1, <3>2
  <2>3. t \notin Answered
    BY <1>1, CarriesAnswer DEF Both, AllInv
  <2>4. t \notin Returned
    BY <1>1, ReturnedShape DEF Both, AllInv
  <2> QED
    BY <1>2, <1>3, <2>1, <2>2, <2>3, <2>4 DEF PhaseOf
<1>6. /\ PhaseBar[t] = "unborn" /\ PhaseBar' = [PhaseBar EXCEPT ![t] = "ready"]
      /\ ParentBar' = [ParentBar EXCEPT ![t] = p]
  BY <1>3, <1>4, <1>5, PhaseShape, ParentShape
<1>7. FJ!Create(f, t, p)
  BY <1>6 DEF FJ!Create, FJ!Moves
<1>8. f \in FJ!Frame
  BY DEF Frame, FJ!Frame
<1> QED
  BY <1>7, <1>8 DEF Step, FJ!Next

----------------------------------------------------------------------------
(* The actions of the workers.                                             *)

\* A worker goes on, inside a wait or outside.
LEMMA WalkStep ==
  ASSUME Both, NEW w \in Worker, NEW to, Goto(w, to), pc[w] # "clean", to # "clean",
         pc[w] \in WaitPC <=> to \in WaitPC, UNCHANGED <<desc, stack>>,
         \A t \in Task : PhaseOf(t)' = PhaseOf(t) \/ (Stays(t) /\ (t \in Answered' <=> t \in Answered))
  PROVE  Step
<1>1. WaitingBar' = WaitingBar
  BY WalkWaiting DEF Both, AllInv
<1>2. Returned' = Returned
  BY WalkReturned DEF Both, AllInv
<1>3. \A t \in Task : PhaseOf(t)' = PhaseOf(t)
  BY <1>2, PhaseSame DEF Both, AllInv
<1> QED
  BY <1>1, <1>3, StillStep

\* No worker goes on and no task changes phase.
LEMMA StandStep ==
  ASSUME Both, UNCHANGED <<desc, stack, pc>>,
         \A t \in Task : PhaseOf(t)' = PhaseOf(t) \/ (Stays(t) /\ (t \in Answered' <=> t \in Answered))
  PROVE  Step
<1>1. WaitingBar' = WaitingBar /\ Returned' = Returned
  BY StandWaiting
<1>2. \A t \in Task : PhaseOf(t)' = PhaseOf(t)
  BY <1>1, PhaseSame DEF Both, AllInv
<1> QED
  BY <1>1, <1>2, StillStep

\* The switch messages are no answers.
LEMMA SwitchAnswered ==
  ASSUME TypeInv, NEW w \in Worker, NEW on \in BOOLEAN, SwitchStealing(w, on)
  PROVE  Answered' = Answered
<1>1. chan \in [Thread \X Node -> Seq(Message)]
  BY TypeInvImpliesTypeOK DEF TypeOK
<1> DEFINE m == Msg(IF on THEN "ENABLE_STEALING" ELSE "DISABLE_STEALING", NULL)
<1>2. m \in Message /\ \A x : m # Msg("TORC_ANSWER", x)
  BY DEF Msg, Message
<1>3. \A c \in Thread \X Node : chan'[c] = chan[c] \/ chan'[c] = Append(chan[c], m)
  BY DEF SwitchStealing
<1> HIDE DEF m
<1>4. \A c \in Thread \X Node : Range(chan'[c]) = Range(chan[c]) \/ Range(chan'[c]) = Range(chan[c]) \cup {m}
  <2>1. \A c \in Thread \X Node : Range(Append(chan[c], m)) = Range(chan[c]) \cup {m}
    BY <1>1, <1>2, AppendRange
  <2> QED
    BY <1>3, <2>1
<1>5. \A x \in Task : x \in Answered' <=> x \in Answered
  <2> SUFFICES ASSUME NEW x \in Task, NEW c \in Thread \X Node
               PROVE  AnswerOn(c, x)' <=> AnswerOn(c, x)
    BY AnsweredShape
  <2> QED
    BY <1>2, <1>4 DEF AnswerOn
<1>6. Answered \subseteq Task /\ Answered' \subseteq Task
  BY DEF Answered, Travelling
<1> QED
  BY <1>5, <1>6

\* The body of a task returns: all it has created is joined.
LEMMA ReturnRefines ==
  ASSUME Both, NEW w \in Worker, Return(w)
  PROVE  Step
<1>1. PICK t : t = Self(w)
  OBVIOUS
<1>2. /\ t \in Frame /\ t \notin WaitingBar
      /\ t \in Task => PhaseOf(t) = "running"
  BY <1>1, CallerActive DEF Return, WaitPC, Both
<1>3. /\ t # Root /\ forked[t] = 0 /\ pc[w] = "run" /\ Goto(w, "clean")
      /\ UNCHANGED <<desc, queues, net, stack, hand, serving>>
  BY <1>1 DEF Return, nodes
<1>4. t \in Task /\ PhaseOf(t) = "running"
  BY <1>2, <1>3 DEF Frame
<1>5. ndep[t] = 0
  BY <1>1, <1>3 DEF Both, AllInv, JoinInv, RunningCounts, AtWork
<1>6. WaitingBar' = WaitingBar
  BY <1>3, WalkWaiting DEF Both, AllInv, WaitPC
<1>7. \A v \in Worker : /\ Self(v)' = Self(v)
                        /\ pc'[v] = IF v = w THEN "clean" ELSE pc[v]
  BY <1>3, TypeInvImpliesTypeOK DEF TypeOK, Goto, Self, Both, AllInv
<1>8. Returned' = Returned \cup {t}
  BY <1>1, <1>7, <1>3 DEF Returned
<1>9. \A x \in Task \ {t} : PhaseOf(x)' = PhaseOf(x)
  <2>1. Answered' = Answered
    BY <1>3 DEF Answered, Travelling, net
  <2> QED
    BY <1>3, <1>8, <2>1, Unmoved, PhaseSame DEF Both, AllInv
<1>10. PhaseOf(t)' = "ended"
  <2>1. desc[t] # NULL /\ t \in Outstanding
    BY <1>4 DEF PhaseOf
  <2>2. t \in Outstanding'
    BY <1>3, <1>4, <2>1, Unmoved, OutstandingNext DEF Both, AllInv
  <2> QED
    BY <1>3, <1>8, <2>1, <2>2 DEF PhaseOf
<1>11. \A x \in Task : desc[x] # NULL /\ desc[x].parent = t => PhaseOf(x) = "joined"
  BY <1>2, <1>5, NoneLeft DEF Both
<1> QED
  BY <1>2, <1>3, <1>4, <1>6, <1>9, <1>10, <1>11, PhaseStep

\* The calls of a task.
LEMMA CallRefines ==
  ASSUME Both, NEW w \in Worker, Call(w)
  PROVE  Step
<1> USE Constants
<1>1. ASSUME UNCHANGED <<queues, net, stack, hand, serving>>
      PROVE  \A t \in Task : Stays(t) /\ (t \in Answered' <=> t \in Answered)
  BY <1>1, Unmoved DEF Answered, Travelling, net
<1>2. CASE CountChild(w)
  BY <1>1, <1>2, WalkStep DEF CountChild, nodes, WaitPC
<1>3. CASE FetchWork(w)
  BY <1>1, <1>3, WalkStep DEF FetchWork, nodes, WaitPC
<1>4. CASE WaitAll(w)
  BY <1>4, BeginStep DEF WaitAll, nodes, WaitPC
<1>5. CASE SpinWait(w)
  BY <1>5, BeginStep DEF SpinWait, nodes, WaitPC
<1>6. CASE Return(w)
  BY <1>6, ReturnRefines
<1>7. ASSUME NEW t \in Task, NEW n \in Node, CreateDetached(w, t, n) PROVE Step
  <2>1. PICK f : f = Self(w)
    OBVIOUS
  <2>2. f \in Frame /\ FJ!Active(f)
    BY <1>7, <2>1, CallerActive DEF CreateDetached, WaitPC, Both
  <2>3. /\ w \in Thread /\ Here(w) = node_of[w]
        /\ NewDesc(t, NULL, Here(w), 0, FALSE) /\ Place(w, t, n)
        /\ UNCHANGED <<private_grq, reply, stack, hand, serving, pc>>
    BY <1>7 DEF Thread, Here, CreateDetached, workers, nodes
  <2> QED
    BY <2>2, <2>3, StandWaiting, CreateStep
<1>8. ASSUME NEW on \in BOOLEAN, SwitchStealing(w, on) PROVE Step
  <2>1. \A t \in Task : Stays(t)
    BY <1>8, SwitchWhere DEF Both, AllInv, Token
  <2>2. Answered' = Answered
    BY <1>8, SwitchAnswered DEF Both, AllInv
  <2> QED
    BY <1>8, <2>1, <2>2, StandStep DEF SwitchStealing, workers
<1> QED
  BY <1>2, <1>3, <1>4, <1>5, <1>6, <1>7, <1>8 DEF Call

\* Second half of a creation.
LEMMA EnqueueRefines ==
  ASSUME Both, NEW w \in Worker, Enqueue(w)
  PROVE  Step
<1>1. PICK t \in Task, n \in Node, direct \in BOOLEAN : EnqueueChild(w, t, n, direct)
  BY DEF Enqueue
<1>2. PICK f : f = Self(w)
  OBVIOUS
<1>3. f \in Frame /\ FJ!Active(f)
  BY <1>1, <1>2, CallerActive DEF EnqueueChild, WaitPC, Both
<1>4. LevelOf(f) + 1 \in Nat
  <2>1. f \in LiveFrame
    BY <1>1, <1>2, SelfLive DEF EnqueueChild, Both, AllInv, TypeInv, Positions
  <2>2. \A x \in Live : desc[x].level \in Nat
    BY DEF Both, AllInv, TypeInv, Live, Plain, TaskDesc
  <2> QED
    BY <2>1, <2>2 DEF LevelOf, LiveFrame
<1>5. /\ w \in Thread /\ Here(w) = node_of[w]
      /\ NewDesc(t, f, Here(w), LevelOf(f) + 1, direct) /\ Place(w, t, n)
      /\ UNCHANGED <<private_grq, reply, stack, hand, serving>>
      /\ pc[w] = "create" /\ Goto(w, "run")
  BY <1>1, <1>2 DEF Thread, Here, EnqueueChild, nodes
<1>6. WaitingBar' = WaitingBar /\ Returned' = Returned
  BY <1>5, WalkWaiting, WalkReturned DEF Both, AllInv, WaitPC
<1> QED
  BY <1>3, <1>4, <1>5, <1>6, CreateStep

\* A searching worker gets t from a queue or from a reply.
LEMMA TakeRefines ==
  ASSUME Both, NEW w \in Worker, NEW t \in Task, Searching(w), Take(w, t), UNCHANGED <<desc, chan>>,
         NEW k \in {"private", "public", "reply"}, NEW i, Has(k, i, t),
         Goes(t, Destination(w), w), \A x \in Task \ {t} : Stays(x)
  PROVE  Step
<1>1. PhaseOf(t) = "ready"
  <2>1. PhaseAt(t, k, i)
    BY PhaseNext DEF Both, AllInv
  <2> QED
    BY <2>1 DEF PhaseAt
<1>2. Answered' = Answered
  BY DEF Answered, Travelling
<1>3. CASE pc[w] = "fetch"
  <2>1. PhaseAt(t, "hand", w)'
    BY <1>3, PhaseNext DEF Both, AllInv, Destination
  <2>2. PhaseOf(t)' = "ready"
    BY <2>1 DEF PhaseAt
  <2>3. Goto(w, "stash") /\ UNCHANGED stack
    BY <1>3 DEF Take
  <2> QED
    BY <1>1, <1>2, <1>3, <2>2, <2>3, WalkStep DEF WaitPC
<1>4. CASE pc[w] # "fetch"
  <2>1. PhaseAt(t, "stack", w)' /\ Goes(t, "stack", w)
    BY <1>4, PhaseNext DEF Both, AllInv, Destination
  <2>2. /\ pc[w] \in {"scan", "rescan"} /\ pc'[w] = "run"
        /\ stack'[w] = Append(stack[w], t)
        /\ \A v \in Worker \ {w} : pc'[v] = pc[v] /\ stack'[v] = stack[v] /\ Self(v)' = Self(v)
    BY <1>4, TypeInvImpliesTypeOK DEF Take, Goto, Searching, Self, TypeOK, Both, AllInv
  <2>3. PhaseOf(t)' = "running"
    BY <2>1, <2>2 DEF PhaseAt
  <2>4. \A x \in Task \ {t} : PhaseOf(x)' = PhaseOf(x)
    <3>1. Returned' = Returned
      <4>1. \A v \in Worker : pc'[v] = "clean" <=> pc[v] = "clean"
        BY <2>2
      <4>2. \A v \in Worker : pc[v] = "clean" => Self(v)' = Self(v)
        BY <2>2
      <4> QED
        BY <4>1, <4>2 DEF Returned
    <3> QED
      BY <1>2, <3>1, PhaseSame DEF Both, AllInv
  <2>5. WaitingBar' = WaitingBar
    <3>1. stack[w] \in Seq(Frame) /\ t \in Frame /\ t \in Token
      BY TypeInvImpliesTypeOK DEF TypeOK, Frame, Token, Both, AllInv
    <3>2. Range(stack'[w]) = Range(stack[w]) \cup {t} /\ Self(w)' = t
      <4>1. /\ Len(Append(stack[w], t)) = Len(stack[w]) + 1
            /\ Append(stack[w], t)[Len(stack[w]) + 1] = t
        BY <3>1, AppendProperties
      <4> QED
        BY <2>2, <3>1, <4>1, AppendRange DEF Self, Last
    <3>3. \A v \in Worker : t \notin Range(stack[v])
      <4>1. \A v \in Worker : ~Has("stack", v, t)
        BY <3>1, Elsewhere DEF Both, AllInv
      <4> QED
        BY <4>1 DEF Has
    <3>4. \A f \in Frame, v \in Worker : InWait(f, v)' <=> InWait(f, v)
      <4> SUFFICES ASSUME NEW f \in Frame, NEW v \in Worker PROVE InWait(f, v)' <=> InWait(f, v)
        OBVIOUS
      <4>1. CASE v # w
        BY <2>2, <4>1 DEF InWait
      <4>2. CASE v = w
        BY <2>2, <3>2, <3>3, <4>2 DEF InWait, WaitPC
      <4> QED
        BY <4>1, <4>2
    <3>5. \A f \in Frame : f \in WaitingBar' <=> f \in WaitingBar
      BY <3>4, WaitingNext DEF Both, AllInv
    <3>6. (\A f \in WaitingBar : f \in Frame) /\ (\A f \in WaitingBar' : f \in Frame)
      BY DEF WaitingBar
    <3> QED
      BY <3>5, <3>6
  <2> QED
    BY <1>1, <2>3, <2>4, <2>5, PhaseStep
<1> QED
  BY <1>3, <1>4

\* The search ends with nothing.
LEMMA NotFoundRefines ==
  ASSUME Both, NEW w \in Worker, Searching(w), NotFound(w), UNCHANGED <<desc, queues, net, serving>>
  PROVE  Step
<1>1. \A t \in Task : Stays(t) /\ (t \in Answered' <=> t \in Answered)
  BY Unmoved DEF NotFound, Answered, Travelling, net
<1>2. PICK to : Goto(w, to) /\ to # "clean" /\ (pc[w] \in WaitPC <=> to \in WaitPC)
  BY DEF NotFound, Searching, WaitPC
<1> QED
  BY <1>1, <1>2, WalkStep DEF NotFound, Searching

\* _torc_cleanup of a task of this node joins it; of another node, it sends
\* the answer.
LEMMA CleanupRefines ==
  ASSUME Both, NEW w \in Worker, Cleanup(w)
  PROVE  Step
<1>1. PICK t : t = Self(w)
  OBVIOUS
<1>2. /\ t \in Task /\ t \in Token /\ Has("stack", w, t)
      /\ IF desc[t].homenode = node_of[w]
           THEN Leaves(t) ELSE Goes(t, "chan", <<w, desc[t].homenode>>)
      /\ \A x \in Token \ {t} : Stays(x)
  BY <1>1, CleanupWhere DEF Both, AllInv, Live, Token
<1>3. /\ pc \in [Worker -> WorkerPC] /\ stack \in [Worker -> Seq(Frame)]
  BY TypeInvImpliesTypeOK DEF TypeOK, Both, AllInv
<1>4. /\ pc[w] = "clean" /\ UNCHANGED desc
      /\ \A v \in Worker \ {w} : pc'[v] = pc[v] /\ stack'[v] = stack[v] /\ Self(v)' = Self(v)
      /\ pc'[w] \in {"scan", "check"}
  BY <1>3 DEF Cleanup, Resume, Goto, Self
<1>5. PhaseOf(t) = "ended"
  <2>1. PhaseAt(t, "stack", w)
    BY <1>2, PhaseNext DEF Both, AllInv
  <2> QED
    BY <1>1, <1>4, <2>1 DEF PhaseAt
<1>6. \A x \in Task \ {t} : x \in Returned' <=> x \in Returned
  <2>1. \A v \in Worker \ {w} : pc'[v] = "clean" /\ Self(v)' = Self(v) <=> pc[v] = "clean"
    BY <1>4
  <2>2. pc'[w] # "clean"
    BY <1>4
  <2> QED
    BY <1>1, <1>4, <2>1, <2>2, ReturnedShape DEF Both, AllInv
<1>7. WaitingBar' = WaitingBar
  <2>1. \A f \in Frame \ {t}, v \in Worker : f \in Range(stack'[v]) <=> f \in Range(stack[v])
    <3> SUFFICES ASSUME NEW f \in Frame \ {t}, NEW v \in Worker
                 PROVE  Has("stack", v, f)' <=> Has("stack", v, f)
      BY DEF Has
    <3> QED
      BY <1>2 DEF Stays, Token, Frame
  <2>2. \A v \in Worker : t \notin Range(stack'[v])
    <3>1. \A v \in Worker : ~Has("stack", v, t)'
      BY <1>2 DEF Leaves, Goes
    <3> QED
      BY <3>1 DEF Has
  <2>3. \A v \in Worker : t \in Range(stack[v]) => v = w
    <3>1. \A v \in Worker : t \in Range(stack[v]) => Has("stack", v, t)
      BY DEF Has
    <3> QED
      BY <1>2, <3>1 DEF Both, AllInv, HolderInv, Apart, AtMostOnePlace
  <2>4. \A f \in Frame, v \in Worker : InWait(f, v)' <=> InWait(f, v)
    <3> SUFFICES ASSUME NEW f \in Frame, NEW v \in Worker PROVE InWait(f, v)' <=> InWait(f, v)
      OBVIOUS
    <3>1. CASE f = t
      BY <1>1, <1>4, <2>2, <2>3, <3>1 DEF InWait, WaitPC
    <3>2. CASE f # t /\ v # w
      BY <1>4, <2>1, <3>2 DEF InWait
    <3>3. CASE f # t /\ v = w
      BY <1>1, <1>4, <2>1, <3>3 DEF InWait, WaitPC
    <3> QED
      BY <3>1, <3>2, <3>3
  <2>5. \A f \in Frame : f \in WaitingBar' <=> f \in WaitingBar
    BY <2>4, WaitingNext DEF Both, AllInv
  <2>6. (\A f \in WaitingBar : f \in Frame) /\ (\A f \in WaitingBar' : f \in Frame)
    BY DEF WaitingBar
  <2> QED
    BY <2>5, <2>6
<1>8. CASE desc[t].homenode = node_of[w]
  <2>1. UNCHANGED chan
    BY <1>1, <1>8 DEF Cleanup
  <2>2. Answered' = Answered
    BY <2>1 DEF Answered, Travelling
  <2>3. \A x \in Task \ {t} : PhaseOf(x)' = PhaseOf(x)
    BY <1>2, <1>4, <1>6, <2>2, PhaseSame DEF Both, AllInv, Token
  <2>4. PhaseOf(t)' = "joined"
    <3>1. desc[t] # NULL
      BY <1>5 DEF PhaseOf
    <3>2. t \notin Outstanding'
      BY <1>2, <1>8, OutstandingNext DEF Both, AllInv
    <3> QED
      BY <1>4, <3>1, <3>2 DEF PhaseOf
  <2> QED
    BY <1>2, <1>4, <1>5, <1>7, <2>3, <2>4, PhaseStep
<1>9. CASE desc[t].homenode # node_of[w]
  <2> DEFINE h == desc[t].homenode
  <2>1. Send(w, h, Msg("TORC_ANSWER", t))
    BY <1>1, <1>9 DEF Cleanup
  <2>2. Goes(t, "chan", <<w, h>>) /\ w \in Thread
    BY <1>2, <1>9 DEF Thread
  <2>3. h \in Node /\ Msg("TORC_ANSWER", t) \in Message
    <3>1. desc[t] # NULL
      BY <1>5 DEF PhaseOf
    <3> QED
      BY <1>2, <3>1 DEF Both, AllInv, TypeInv, Plain, TaskDesc, Message, Msg
  <2>4. \A x \in Task : x \in Answered' <=> x \in Answered \/ x = t
    <3>1. PICK n : n = h
      OBVIOUS
    <3>2. \A x \in Task : x \in Answered' <=> x \in Answered \/ Msg("TORC_ANSWER", t) = Msg("TORC_ANSWER", x)
      BY <2>1, <2>2, <2>3, <3>1, SendAnswered DEF Both, AllInv
    <3> QED
      BY <3>2 DEF Msg
  <2>5. PhaseOf(t)' = "ended"
    <3>1. \E k, i : Goes(t, k, i)
      BY <2>2
    <3>2. t \in Outstanding'
      BY <1>2, <3>1, OutstandingNext DEF Both, AllInv
    <3> QED
      BY <1>2, <1>4, <1>5, <2>4, <3>2 DEF PhaseOf
  <2>6. \A x \in Task \ {t} : PhaseOf(x)' = PhaseOf(x)
    BY <1>2, <1>4, <1>6, <2>4, PhaseSame DEF Both, AllInv, Token
  <2> QED
    BY <1>4, <1>5, <1>7, <2>5, <2>6, StillStep
<1> QED
  BY <1>8, <1>9

\* What a worker does inside the library.
LEMMA LibraryRefines ==
  ASSUME Both, NEW w \in Worker, Library(w)
  PROVE  Step
<1> USE Constants
<1>1. ASSUME UNCHANGED <<queues, net, stack, hand, serving>>
      PROVE  \A t \in Task : Stays(t) /\ (t \in Answered' <=> t \in Answered)
  BY <1>1, Unmoved DEF Answered, Travelling, net
<1>2. CASE Enqueue(w)
  BY <1>2, EnqueueRefines
<1>3. CASE CheckDeps(w)
  <2>1. pc[w] = "check" /\ Self(w) \in Frame /\ UNCHANGED <<desc, queues, net, stack, hand, serving>>
    BY <1>3, SelfOnStack DEF CheckDeps, nodes, Both, AllInv, TypeInv, Positions
  <2>2. CASE MayReturn(Self(w))
    <3>1. ndep[Self(w)] = 0
      BY <2>1, <2>2, CountBounds DEF MayReturn, Both, AllInv, JoinInv
    <3> QED
      BY <1>3, <2>1, <2>2, <3>1, EndStep DEF CheckDeps
  <2>3. CASE ~MayReturn(Self(w))
    BY <1>1, <1>3, <2>1, <2>3, WalkStep DEF CheckDeps, WaitPC
  <2> QED
    BY <2>2, <2>3
<1>4. CASE SpinReturn(w)
  BY <1>4, EndStep DEF SpinReturn, nodes
<1>5. CASE Stash(w)
  <2>1. PICK t : t = hand[w]
    OBVIOUS
  <2>2. t \in Task /\ Goes(t, "private", node_of[w]) /\ \A x \in Token \ {t} : Stays(x)
    BY <1>5, <2>1, StashWhere DEF Both, AllInv
  <2>3. PhaseAt(t, "hand", w) /\ PhaseAt(t, "private", node_of[w])'
    BY <2>1, <2>2, PhaseNext DEF Has, Both, AllInv
  <2>4. PhaseOf(t)' = PhaseOf(t)
    BY <2>3 DEF PhaseAt
  <2>5. Answered' = Answered /\ UNCHANGED <<desc, stack>> /\ pc[w] = "stash" /\ Goto(w, "run")
    BY <1>5 DEF Stash, Answered, Travelling, net
  <2> QED
    BY <2>2, <2>4, <2>5, WalkStep DEF WaitPC, Token
<1>6. CASE Cleanup(w)
  BY <1>6, CleanupRefines
<1>7. CASE TakePrivate(w)
  <2>1. PICK t : t = Head(private_grq[node_of[w]])
    OBVIOUS
  <2>2. /\ t \in Task /\ Has("private", node_of[w], t) /\ Goes(t, Destination(w), w)
        /\ \A x \in Task \ {t} : Stays(x)
    BY <1>7, <2>1, TakePrivateWhere DEF Both, AllInv, Token
  <2>3. Searching(w) /\ Take(w, t) /\ UNCHANGED <<desc, chan>>
    BY <1>7, <2>1 DEF TakePrivate, net
  <2> QED
    BY <2>2, <2>3, TakeRefines
<1>8. CASE TakePublic(w)
  <2>1. PICK t : t = Head(public_grq[node_of[w]][at[w]])
    OBVIOUS
  <2>2. /\ t \in Task /\ Has("public", <<node_of[w], at[w]>>, t) /\ Goes(t, Destination(w), w)
        /\ \A x \in Task \ {t} : Stays(x)
    BY <1>8, <2>1, TakePublicWhere DEF Both, AllInv, Token
  <2>3. Searching(w) /\ Take(w, t) /\ UNCHANGED <<desc, chan>>
    BY <1>8, <2>1 DEF TakePublic, net
  <2> QED
    BY <2>2, <2>3, TakeRefines
<1>9. CASE NextQueue(w)
  BY <1>1, <1>9, StandStep DEF NextQueue, nodes
<1>10. CASE TestFlag(w)
  <2>1. CASE internode_stealing[node_of[w]]
    BY <1>1, <1>10, <2>1, StandStep DEF TestFlag, nodes
  <2>2. CASE ~internode_stealing[node_of[w]]
    BY <1>10, <2>2, NotFoundRefines DEF TestFlag, nodes
  <2> QED
    BY <2>1, <2>2
<1>11. CASE StealRequest(w)
  <2>1. \A t \in Task : Stays(t)
    BY <1>11, StealRequestWhere DEF Both, AllInv, Token
  <2>2. \A t \in Task : t \in Answered' <=> t \in Answered
    <3>1. PICK n : n = victim[w]
      OBVIOUS
    <3>2. PICK m : m = Msg("STEALING_REQUEST", w)
      OBVIOUS
    <3>3. Send(w, n, m) /\ n \in Node /\ w \in Thread
      BY <1>11, <3>1, <3>2 DEF StealRequest, Thread, Both, AllInv, TypeInv, Positions
    <3>4. m \in Message /\ \A x : m # Msg("TORC_ANSWER", x)
      BY <3>2 DEF Msg, Message
    <3> QED
      BY <3>3, <3>4, SendAnswered DEF Both, AllInv
  <2> QED
    BY <1>11, <2>1, <2>2, StandStep DEF StealRequest, workers
<1>12. CASE StealReply(w)
  <2>1. PICK t : t = reply[w]
    OBVIOUS
  <2>2. /\ t \in Task => Has("reply", w, t) /\ Goes(t, Destination(w), w)
        /\ \A x \in Task : x = t \/ Stays(x)
    BY <1>12, <2>1, StealReplyWhere DEF Both, AllInv, Token
  <2>3. UNCHANGED <<desc, chan>> /\ Searching(w)
    BY <1>12 DEF StealReply, Both, AllInv, TypeInv, Owners
  <2>4. CASE t \in Task
    <3>1. Take(w, t)
      BY <1>12, <2>1, <2>4 DEF StealReply
    <3> QED
      BY <2>2, <2>3, <2>4, <3>1, TakeRefines
  <2>5. CASE t \notin Task
    <3>1. \A x \in Task : Stays(x)
      BY <2>2, <2>5
    <3>2. UNCHANGED <<stack, pc>>
      BY <1>12, <2>1, <2>5 DEF StealReply
    <3>3. Answered' = Answered
      BY <2>3 DEF Answered, Travelling
    <3> QED
      BY <2>3, <3>1, <3>2, <3>3, StandStep
  <2> QED
    BY <2>4, <2>5
<1>13. CASE StealNothing(w)
  BY <1>13, NotFoundRefines DEF StealNothing
<1> QED
  BY <1>2, <1>3, <1>4, <1>5, <1>6, <1>7, <1>8, <1>9, <1>10, <1>11, <1>12, <1>13 DEF Library

----------------------------------------------------------------------------
(* The actions of the servers.                                             *)

LEMMA ServerRefines ==
  ASSUME Both, NEW n \in Node, Server(n)
  PROVE  Step
<1> USE Constants
<1> DEFINE Same == UNCHANGED <<desc, stack, pc>>
<1>1. \A x \in Worker : x \notin Task
  OBVIOUS
<1>2. CASE StealScan(n)
  <2>1. PICK v, t : v = serving[n] /\ t = Head(public_grq[n][scan_at[n]])
    OBVIOUS
  <2>2. /\ v \in Worker
        /\ \/ \A x \in Token : Stays(x)
           \/ \A x \in Token \ {v} : Stays(x)
           \/ /\ t \in Task /\ Has("public", <<n, scan_at[n]>>, t)
              /\ Goes(t, "reply", v)
              /\ \A x \in Token \ {v, t} : Stays(x)
    BY <1>2, <2>1, StealScanWhere DEF Both, AllInv
  <2>3. Same /\ Answered' = Answered
    BY <1>2 DEF StealScan, workers, Answered, Travelling
  <2>4. CASE \A x \in Task : Stays(x)
    BY <2>3, <2>4, StandStep
  <2>5. CASE /\ t \in Task /\ Has("public", <<n, scan_at[n]>>, t)
             /\ Goes(t, "reply", v)
             /\ \A x \in Task \ {t} : Stays(x)
    <3>1. PhaseAt(t, "public", <<n, scan_at[n]>>) /\ PhaseAt(t, "reply", v)'
      BY <2>5, PhaseNext DEF Both, AllInv
    <3>2. PhaseOf(t)' = PhaseOf(t)
      BY <3>1 DEF PhaseAt
    <3> QED
      BY <2>3, <2>5, <3>2, StandStep
  <2> QED
    BY <1>1, <2>2, <2>4, <2>5 DEF Token
<1>3. CASE DirectDone(n)
  <2>1. PICK t, h : t = serving[n] /\ h = desc[t].homenode
    OBVIOUS
  <2>2. /\ t \in Task /\ Has("serving", n, t) /\ Goes(t, "chan", <<n, h>>)
        /\ \A x \in Task \ {t} : Stays(x)
    BY <1>3, <2>1, DirectDoneWhere DEF Both, AllInv, Token, Live
  <2>3. Same /\ Send(n, h, Msg("TORC_ANSWER", t))
    BY <1>3, <2>1 DEF DirectDone, workers
  <2>4. PhaseAt(t, "serving", n) /\ PhaseAt(t, "chan", <<n, h>>)'
    BY <2>2, PhaseNext DEF Both, AllInv
  <2>5. \A x \in Task : x \in Answered' <=> x \in Answered \/ x = t
    <3>1. PICK m : m = Msg("TORC_ANSWER", t)
      OBVIOUS
    <3>2. m \in Message /\ h \in Node /\ n \in Thread
      BY <2>1, <2>2, <2>4, <3>1
        DEF Message, Msg, Thread, PhaseAt, Both, AllInv, TypeInv, Plain, TaskDesc
    <3>3. \A x \in Task : m = Msg("TORC_ANSWER", x) <=> x = t
      BY <3>1 DEF Msg
    <3> QED
      BY <2>3, <3>1, <3>2, <3>3, SendAnswered DEF Both, AllInv
  <2>6. PhaseOf(t) = "running" /\ PhaseOf(t)' = "ended"
    BY <2>2, <2>4, <2>5 DEF PhaseAt
  <2>7. \A v \in Worker : t \notin Range(stack[v])
    <3>1. \A v \in Worker : ~Has("stack", v, t)
      BY <2>2, Elsewhere DEF Both, AllInv, Token
    <3> QED
      BY <3>1 DEF Has
  <2>8. t \notin WaitingBar /\ ndep[t] = 0 /\ t \in Frame
    BY <2>2, <2>7, WaitingWhere
      DEF WaitingHeld, InWait, Frame, OffStack, OnStack, Both, AllInv, JoinInv
  <2>9. \A x \in Task \ {t} : PhaseOf(x)' = PhaseOf(x)
    BY <2>2, <2>3, <2>5, StandWaiting, PhaseSame DEF Both, AllInv
  <2>10. \A x \in Task : desc[x] # NULL /\ desc[x].parent = t => PhaseOf(x) = "joined"
    BY <2>8, NoneLeft DEF Both
  <2> QED
    BY <2>2, <2>3, <2>6, <2>8, <2>9, <2>10, StandWaiting, PhaseStep
<1>4. ASSUME NEW s \in Thread, RecvEnqueue(n, s) PROVE Step
  <2>1. PICK h, t : h = Head(chan[<<s, n>>]) /\ t = h.arg
    OBVIOUS
  <2>2. PICK k, i : k \in {"public", "serving"} /\ Goes(t, k, i)
    BY <1>4, <2>1, RecvEnqueueWhere DEF Both, AllInv
  <2>3. /\ t \in Task /\ Has("chan", <<s, n>>, t)
        /\ \A x \in Task \ {t} : Stays(x)
    BY <1>4, <2>1, RecvEnqueueWhere DEF Both, AllInv, Token
  <2>4. Same /\ Receive(s, n) /\ chan[<<s, n>>] # <<>> /\ h.type = "TORC_NORMAL_ENQUEUE"
    BY <1>4, <2>1 DEF RecvEnqueue, workers, IsHead
  <2>5. /\ \A x \in Task \ {t} : x \in Answered' <=> x \in Answered
        /\ t \notin Answered
    BY <2>1, <2>3, <2>4, ReceiveAnswered DEF Both, AllInv
  <2>6. PhaseAt(t, "chan", <<s, n>>) /\ PhaseAt(t, k, i)'
    BY <2>2, <2>3, PhaseNext DEF Both, AllInv
  <2>7. PhaseOf(t) = "ready" /\ PhaseOf(t)' \in {"ready", "running"}
    BY <2>2, <2>5, <2>6 DEF PhaseAt
  <2>8. \A x \in Task \ {t} : PhaseOf(x)' = PhaseOf(x)
    BY <2>3, <2>4, <2>5, StandWaiting, PhaseSame DEF Both, AllInv
  <2> QED
    BY <2>3, <2>4, <2>7, <2>8, StandWaiting, StillStep, PhaseStep
<1>5. ASSUME NEW s \in Thread, RecvAnswer(n, s) PROVE Step
  <2>1. PICK h, t : h = Head(chan[<<s, n>>]) /\ t = h.arg
    OBVIOUS
  <2>2. /\ t \in Task /\ Has("chan", <<s, n>>, t) /\ Leaves(t)
        /\ \A x \in Task \ {t} : Stays(x)
    BY <1>5, <2>1, RecvAnswerWhere DEF Both, AllInv, Token, Live
  <2>3. Same /\ Receive(s, n) /\ chan[<<s, n>>] # <<>> /\ h.type = "TORC_ANSWER"
    BY <1>5, <2>1 DEF RecvAnswer, workers, IsHead
  <2>4. /\ \A x \in Task \ {t} : x \in Answered' <=> x \in Answered
        /\ t \in Answered
    BY <2>1, <2>2, <2>3, ReceiveAnswered DEF Both, AllInv
  <2>5. PhaseAt(t, "chan", <<s, n>>) /\ t \notin Outstanding'
    BY <2>2, PhaseNext, OutstandingNext DEF Both, AllInv
  <2>6. PhaseOf(t) = "ended"
    BY <2>4, <2>5 DEF PhaseAt
  <2>7. PhaseOf(t)' = "joined"
    BY <2>3, <2>5 DEF PhaseAt, PhaseOf
  <2>8. \A x \in Task \ {t} : PhaseOf(x)' = PhaseOf(x)
    BY <2>2, <2>3, <2>4, StandWaiting, PhaseSame DEF Both, AllInv
  <2> QED
    BY <2>2, <2>3, <2>6, <2>7, <2>8, StandWaiting, PhaseStep
<1>6. ASSUME NEW s \in Thread, RecvSteal(n, s) PROVE Step
  <2>1. PICK h, v : h = Head(chan[<<s, n>>]) /\ v = h.arg
    OBVIOUS
  <2>2. v \in Worker /\ \A x \in Task : Stays(x)
    BY <1>1, <1>6, <2>1, RecvStealWhere DEF Both, AllInv, Token
  <2>3. Same /\ Receive(s, n) /\ chan[<<s, n>>] # <<>>
    BY <1>6 DEF RecvSteal, workers, IsHead
  <2>4. \A x \in Task : x \in Answered' <=> x \in Answered
    BY <1>1, <2>1, <2>2, <2>3, ReceiveAnswered DEF Both, AllInv
  <2> QED
    BY <2>2, <2>3, <2>4, StandStep
<1>7. ASSUME NEW s \in Thread, RecvSwitch(n, s) PROVE Step
  <2>1. PICK h : h = Head(chan[<<s, n>>])
    OBVIOUS
  <2>2. \A x \in Task : Stays(x)
    BY <1>7, RecvSwitchWhere DEF Both, AllInv, Token
  <2>3. /\ Same /\ Receive(s, n) /\ chan[<<s, n>>] # <<>>
        /\ h.type \in {"ENABLE_STEALING", "DISABLE_STEALING"}
    BY <1>7, <2>1 DEF RecvSwitch, workers, IsHead
  <2>4. h.arg \notin Task
    <3>1. h \in Message
      <4>1. chan[<<s, n>>] \in Seq(Message)
        BY TypeInvImpliesTypeOK DEF TypeOK, Both, AllInv
      <4> QED
        BY <2>1, <2>3, <4>1, HeadTailProperties
    <3> QED
      BY <2>3, <3>1 DEF Message
  <2>5. \A x \in Task : x \in Answered' <=> x \in Answered
    BY <2>1, <2>3, <2>4, ReceiveAnswered DEF Both, AllInv
  <2> QED
    BY <2>2, <2>3, <2>5, StandStep
<1> QED
  BY <1>2, <1>3, <1>4, <1>5, <1>6, <1>7 DEF Server

\* The task a server executes creates a detached task.
LEMMA DirectRefines ==
  ASSUME Both, NEW n \in Node, NEW t \in Task, NEW to \in Node, DirectCreate(n, t, to)
  PROVE  Step
<1>1. PICK f : f = serving[n]
  OBVIOUS
<1>2. f \in Task /\ f \in Frame /\ f \in Token /\ Has("serving", n, f)
  BY <1>1 DEF DirectCreate, Frame, Token, Has
<1>3. f \notin WaitingBar
  <2>1. \A v \in Worker : ~Has("stack", v, f)
    BY <1>2, Elsewhere DEF Both, AllInv
  <2> QED
    BY <1>2, <2>1, WaitingWhere DEF WaitingHeld, InWait, Has, Both, AllInv
<1>4. PhaseBar[f] = "running"
  <2>1. PhaseAt(f, "serving", n)
    BY <1>2, PhaseNext DEF Both, AllInv
  <2> QED
    BY <1>2, <2>1, PhaseShape DEF PhaseAt
<1>5. FJ!Active(f)
  BY <1>3, <1>4 DEF FJ!Active
<1>6. /\ n \in Thread /\ Here(n) = n
      /\ NewDesc(t, NULL, Here(n), 0, FALSE) /\ Place(n, t, to)
      /\ UNCHANGED <<private_grq, reply, stack, hand, serving, pc>>
  BY Constants DEF Thread, Here, DirectCreate, workers, nodes
<1> QED
  BY <1>2, <1>5, <1>6, StandWaiting, CreateStep

----------------------------------------------------------------------------
(* The refinement.                                                         *)

LEMMA InitRefines == Init => FJ!Init
<1> SUFFICES ASSUME Init PROVE FJ!Init
  OBVIOUS
<1>1. \A t \in Task : desc[t] = NULL
  BY DEF Init
<1>2. PhaseBar = [t \in Task |-> "unborn"] /\ ParentBar = [t \in Task |-> NULL]
  BY <1>1 DEF PhaseBar, ParentBar
<1>3. \A w \in Worker : stack[w] = (IF w = Main THEN <<Root>> ELSE <<>>)
                        /\ (w = Main => pc[w] = "run")
  BY DEF Init
<1>4. \A f \in Frame, w \in Worker : ~InWait(f, w)
  <2> SUFFICES ASSUME NEW f \in Frame, NEW w \in Worker, InWait(f, w) PROVE FALSE
    OBVIOUS
  <2>1. CASE w = Main
    <3>1. Self(w) = Root /\ \A x : x \in Range(stack[w]) => x = Root
      BY <1>3, <2>1 DEF Self, Last, Range
    <3> QED
      BY <1>3, <2>1, <3>1 DEF InWait, WaitPC
  <2>2. CASE w # Main
    BY <1>3, <2>2 DEF InWait, Range
  <2> QED
    BY <2>1, <2>2
<1>5. WaitingBar = {}
  <2>1. \A f \in Frame : f \notin WaitingBar
    BY <1>4, TypeInit, HolderInit, WaitingWhere DEF WaitingHeld
  <2> QED
    BY <2>1 DEF WaitingBar
<1> QED
  BY <1>2, <1>5 DEF FJ!Init

LEMMA NextRefines == AllInv /\ AllInv' /\ [Next]_vars => [FJ!Next]_(FJ!vars)
<1> SUFFICES ASSUME Both, [Next]_vars PROVE Step
  BY DEF Both, Step, FJ!vars
<1>1. CASE UNCHANGED vars
  <2>1. UNCHANGED <<desc, queues, net, stack, pc, hand, serving>>
    BY <1>1 DEF vars, workers, nodes
  <2>2. \A t \in Task : Stays(t)
    BY <2>1, Unmoved
  <2>3. Answered' = Answered
    BY <2>1 DEF Answered, Travelling, net
  <2> QED
    BY <2>1, <2>2, <2>3, StandStep
<1>2. ASSUME NEW w \in Worker, Call(w) PROVE Step
  BY <1>2, CallRefines
<1>3. ASSUME NEW w \in Worker, Library(w) PROVE Step
  BY <1>3, LibraryRefines
<1>4. ASSUME NEW n \in Node, Server(n) PROVE Step
  BY <1>4, ServerRefines
<1>5. ASSUME NEW n \in Node, NEW t \in Task, NEW to \in Node, DirectCreate(n, t, to) PROVE Step
  BY <1>5, DirectRefines
<1> QED
  BY <1>1, <1>2, <1>3, <1>4, <1>5 DEF Next

\* Whatever the number of nodes, workers, tasks and levels, and however tasks
\* are queued, sent, stolen and nested, an application sees fork-join: a task
\* is started once, ends after all it has created, and is joined once, and no
\* wait lets its caller go on before all its children are joined.
THEOREM RuntimeImplementsForkJoin == Spec => ImplementsForkJoin
<1>1. Init => FJ!Init
  BY InitRefines
<1>2. AllInv /\ AllInv' /\ [Next]_vars => [FJ!Next]_(FJ!vars)
  BY NextRefines
<1>3. Spec => []AllInv
  BY JoinSpec
<1> QED
  BY <1>1, <1>2, <1>3, PTL DEF Spec, ImplementsForkJoin, FJ!Spec

=============================================================================
