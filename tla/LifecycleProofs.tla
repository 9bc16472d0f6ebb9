---------------------------- MODULE LifecycleProofs ----------------------------
(***************************************************************************)
(* For any number of nodes and workers: nothing is used before start-up is *)
(* complete everywhere, and nobody communicates once a node may end.       *)
(*                                                                         *)
(* The argument is about the barriers.  Where worker 0 of a node is tells  *)
(* how many barriers it has left behind (Done), and no node has left more  *)
(* barriers behind than every other one has entered (Together).  Hence     *)
(* what is true of a node that has entered a barrier is true of all nodes  *)
(* once one of them has left it.                                           *)
(*                                                                         *)
(* The numbers of the workers are sums of MapThenSumSet and minima.  The   *)
(* recursion of the sum is solved, and shown not to depend on the order of *)
(* the elements, by taking a smallest set for which it would not be so.    *)
(***************************************************************************)
EXTENDS Lifecycle, FiniteSetTheorems, SequenceTheorems, WellFoundedInduction, TLAPS

Early     == {"opt", "dup", "md_init"}
Unfilled  == Early \cup {"gather", "info"}
Uncreated == Unfilled \cup {"up", "worker", "created"}
Busy      == {"main", "loop", "waitall", "write", "count", "sweep", "ask", "asked"}
Ending    == {"end", "shutdown", "join", "last", "finalized"}

Served    == {"serve", "finish", "exited"}   \* a server, once started

FirstStage == Uncreated \cup {"start"} \cup Busy \cup {"md_end"} \cup Ending
OtherStage == {"none", "worker", "created", "exited"} \cup Busy

\* How many barriers a worker 0 has left behind.
Done(p) ==
  CASE p = "opt" -> 0
    [] p = "dup" -> 1
    [] p \in {"md_init", "gather"} -> 2
    [] p \in {"info", "up"} -> 3
    [] p \in {"worker", "created", "start"} -> 4
    [] p \in Busy \cup {"md_end", "end"} -> 5
    [] p \in {"shutdown", "join", "last"} -> 6
    [] p = "finalized" -> 7

At(n) == pc[First(n)]

\* The workers of n besides worker 0 that have not ended.
Alive(n) == {v \in 1 .. kthreads[n] - 1 : pc[<<n, v>>] # "exited"}

Types ==
  /\ pc \in [Thread -> Stage]
  /\ inside \in [Node -> BOOLEAN]
  /\ barriers \in [Node -> Nat]
  /\ node_info \in [Node -> [Node -> Nat]]
  /\ created_workers \in [Node -> Nat]
  /\ active_workers \in [Node -> Int]
  /\ \A n \in Node : At(n) \in FirstStage

Together ==
  /\ \A n \in Node : inside[n] => At(n) \in BarrierStage
  /\ \A n \in Node : barriers[n] = Done(At(n)) + (IF inside[n] THEN 1 ELSE 0)
  /\ \A m, n \in Node : Done(At(n)) <= barriers[m]

StartedUp ==
  \A n \in Node :
    /\ At(n) \notin Unfilled => node_info[n] = kthreads
    /\ At(n) \notin Uncreated => created_workers[n] >= kthreads[n]
    /\ N > 1 /\ At(n) \notin Early => pc[Server(n)] \in Served

Counted ==
  \A n \in Node :
    /\ \A v \in 1 .. kthreads[n] - 1 :
         pc[<<n, v>>] \in OtherStage /\ (pc[<<n, v>>] = "none" <=> At(n) \in Early)
    /\ At(n) \notin Early => active_workers[n] = 1 + Cardinality(Alive(n))

Ended ==
  \A n \in Node :
    /\ At(n) \in Ending => Alive(n) = {}
    /\ N > 1 /\ At(n) \in {"last", "finalized"} => pc[Server(n)] = "exited"

Inv == Types /\ Together /\ StartedUp /\ Counted /\ Ended

----------------------------------------------------------------------------
(* Names of threads.                                                       *)

LEMMA Threads ==
  /\ \A n \in Node : First(n) \in Worker /\ First(n) \in Thread /\ Server(n) \in Thread
  /\ \A n \in Node : \A v \in 1 .. kthreads[n] - 1 : <<n, v>> \in Worker /\ <<n, v>> \in Thread
  /\ \A w \in Worker : /\ w \in Thread /\ w[1] \in Node /\ w[2] \in 0 .. kthreads[w[1]] - 1
                       /\ w = <<w[1], w[2]>>
  /\ \A m, n \in Node : First(m) # Server(n) /\ (First(m) = First(n) <=> m = n)
                        /\ (Server(m) = Server(n) <=> m = n)
  /\ \A m, n \in Node, v \in Nat \ {0} : First(m) # <<n, v>> /\ Server(m) # <<n, v>>
  /\ 0 \in Node /\ Main = First(0) /\ Main \in Worker
  /\ \A s \in Thread : s \in Worker \/ \E n \in Node : s = Server(n)
<1>1. N \in Nat \ {0} /\ kthreads \in [Node -> Nat \ {0}]
  BY NodesAssumption
<1>2. 0 \in Node
  BY <1>1 DEF Node
<1>3. \A n \in Node : 0 \in 0 .. kthreads[n] - 1
  BY <1>1
<1> QED
  BY <1>1, <1>2, <1>3 DEF Worker, Thread, First, Server, Main

LEMMA AliveFinite ==
  \A n \in Node : IsFiniteSet(Alive(n)) /\ Cardinality(Alive(n)) \in Nat
<1> TAKE n \in Node
<1>1. kthreads[n] \in Nat \ {0}
  BY NodesAssumption
<1>2. IsFiniteSet(1 .. kthreads[n] - 1)
  BY <1>1, FS_Interval
<1>3. Alive(n) \subseteq 1 .. kthreads[n] - 1
  BY DEF Alive
<1> QED
  BY <1>2, <1>3, FS_Subset, FS_CardinalityType

LEMMA DoneValues ==
  /\ Done("opt") = 0 /\ Done("dup") = 1 /\ Done("md_init") = 2 /\ Done("gather") = 2
  /\ Done("info") = 3 /\ Done("up") = 3
  /\ Done("worker") = 4 /\ Done("created") = 4 /\ Done("start") = 4
  /\ \A p \in Busy \cup {"md_end", "end"} : Done(p) = 5
  /\ Done("shutdown") = 6 /\ Done("join") = 6 /\ Done("last") = 6 /\ Done("finalized") = 7
BY DEF Done, Busy

----------------------------------------------------------------------------
(* Steps.                                                                  *)

LEMMA InitInv == Init => Inv
<1> SUFFICES ASSUME Init PROVE Inv
  OBVIOUS
<1>1. \A n \in Node : At(n) = "opt"
  BY Threads DEF Init, At, First
<1>0. \A n \in Node : \A v \in 1 .. kthreads[n] - 1 : pc[<<n, v>>] = "none"
  <2> TAKE n \in Node
  <2> TAKE v \in 1 .. kthreads[n] - 1
  <2>1. v # 0 /\ <<n, v>>[2] = v /\ <<n, v>> \in Thread
    BY Threads, NodesAssumption
  <2> QED
    BY <2>1 DEF Init
<1>2. Types
  BY <1>1, Threads DEF Init, Types, Stage, BarrierStage, FirstStage, Uncreated, Unfilled, Early
<1>3. Together
  BY <1>1, DoneValues DEF Init, Together
<1>4. StartedUp
  BY <1>1 DEF StartedUp, Uncreated, Unfilled, Early
<1>5. Counted
  BY <1>1, <1>0 DEF Counted, OtherStage, Early
<1>6. Ended
  BY <1>1 DEF Ended, Ending
<1> QED
  BY <1>2, <1>3, <1>4, <1>5, <1>6 DEF Inv

\* A step that leaves every thread where it is, and the barriers alone.
LEMMA StillStep ==
  ASSUME Inv, UNCHANGED <<pc, boot>> PROVE Inv'
<1>1. /\ pc' = pc /\ inside' = inside /\ barriers' = barriers /\ node_info' = node_info
      /\ created_workers' = created_workers /\ active_workers' = active_workers
  BY DEF boot
<1>2. \A n \in Node : At(n)' = At(n) /\ Alive(n)' = Alive(n)
  BY <1>1 DEF At, Alive
<1>3. Types' /\ Together' /\ StartedUp'
  BY <1>1, <1>2 DEF Inv, Types, Together, StartedUp
<1>4. Counted' /\ Ended'
  BY <1>1, <1>2 DEF Inv, Counted, Ended
<1> QED
  BY <1>3, <1>4 DEF Inv

\* A worker goes on between start-up and termination.
LEMMA BusyStep ==
  ASSUME Inv, UNCHANGED boot, NEW w \in Worker, pc[w] \in Busy,
         NEW to \in Busy \cup {"md_end"}, to = "md_end" => w[2] = 0,
         pc' = [pc EXCEPT ![w] = to]
  PROVE  Inv'
<1>0. pc \in [Thread -> Stage] /\ w \in Thread
  BY Threads DEF Inv, Types
<1>1. \A n \in Node : \/ At(n)' = At(n)
                      \/ At(n) \in Busy /\ At(n)' \in Busy \cup {"md_end"}
  BY <1>0, Threads DEF At
<1>2. \A n \in Node : pc'[Server(n)] = pc[Server(n)]
  <2> TAKE n \in Node
  <2>1. Server(n) # w /\ Server(n) \in Thread
    BY Threads DEF Server
  <2> QED
    BY <1>0, <2>1
<1>3. \A n \in Node : \A v \in 1 .. kthreads[n] - 1 :
        pc'[<<n, v>>] = pc[<<n, v>>] \/ (pc[<<n, v>>] \in Busy /\ pc'[<<n, v>>] \in Busy)
  <2> TAKE n \in Node
  <2> TAKE v \in 1 .. kthreads[n] - 1
  <2>1. <<n, v>> \in Thread /\ <<n, v>>[2] # 0
    BY Threads, NodesAssumption
  <2> QED
    BY <1>0, <2>1
<1>4. \A n \in Node : Alive(n)' = Alive(n)
  BY <1>3 DEF Alive, Busy
<1>5. \A n \in Node : /\ At(n)' \in FirstStage
                      /\ Done(At(n)') = Done(At(n))
                      /\ inside[n] => At(n)' \in BarrierStage
                      /\ \A S \in {Early, Unfilled, Uncreated, Ending, {"last", "finalized"}} :
                           At(n)' \in S <=> At(n) \in S
  BY <1>1, DoneValues DEF Inv, Types, Together, FirstStage, Busy, BarrierStage, Early, Unfilled,
                          Uncreated, Ending
<1>6. Types'
  <2>1. to \in Stage
    BY DEF Busy, Stage, BarrierStage
  <2> QED
    BY <1>0, <1>5, <2>1 DEF Inv, Types, boot
<1>7. Together'
  BY <1>5 DEF Inv, Together, boot
<1>8. StartedUp'
  BY <1>2, <1>5 DEF Inv, StartedUp, boot
<1>9. Counted'
  BY <1>3, <1>4, <1>5 DEF Inv, Counted, OtherStage, boot, Busy
<1>10. Ended'
  BY <1>2, <1>4, <1>5 DEF Inv, Ended
<1> QED
  BY <1>6, <1>7, <1>8, <1>9, <1>10 DEF Inv

\* What the other threads see when worker 0 of a node goes on.
LEMMA FirstGoto ==
  ASSUME Types, NEW n \in Node, NEW to \in Stage, Goto(First(n), to)
  PROVE  /\ pc' \in [Thread -> Stage] /\ At(n)' = to
         /\ \A m \in Node \ {n} : At(m)' = At(m)
         /\ \A m \in Node : pc'[Server(m)] = pc[Server(m)] /\ Alive(m)' = Alive(m)
         /\ \A m \in Node : \A v \in 1 .. kthreads[m] - 1 : pc'[<<m, v>>] = pc[<<m, v>>]
<1>1. pc \in [Thread -> Stage] /\ pc' = [pc EXCEPT ![First(n)] = to] /\ First(n) \in Thread
  BY Threads DEF Types, Goto
<1>2. pc' \in [Thread -> Stage] /\ At(n)' = to
  BY <1>1 DEF At
<1>3. \A m \in Node \ {n} : At(m)' = At(m)
  BY <1>1, Threads DEF At
<1>4. \A m \in Node : pc'[Server(m)] = pc[Server(m)]
  BY <1>1, Threads
<1>5. \A m \in Node : \A v \in 1 .. kthreads[m] - 1 : pc'[<<m, v>>] = pc[<<m, v>>]
  <2> TAKE m \in Node
  <2> TAKE v \in 1 .. kthreads[m] - 1
  <2>1. <<m, v>> \in Thread /\ <<m, v>> # First(n)
    BY Threads, NodesAssumption
  <2> QED
    BY <1>1, <2>1
<1>6. \A m \in Node : Alive(m)' = Alive(m)
  BY <1>5 DEF Alive
<1> QED
  BY <1>2, <1>3, <1>4, <1>5, <1>6

\* The same when another worker goes on.
LEMMA OtherGoto ==
  ASSUME Types, NEW n \in Node, NEW v \in 1 .. kthreads[n] - 1, NEW to \in Stage,
         Goto(<<n, v>>, to)
  PROVE  /\ pc' \in [Thread -> Stage] /\ pc'[<<n, v>>] = to
         /\ \A m \in Node : At(m)' = At(m) /\ pc'[Server(m)] = pc[Server(m)]
         /\ \A m \in Node : \A u \in 1 .. kthreads[m] - 1 :
              <<m, u>> # <<n, v>> => pc'[<<m, u>>] = pc[<<m, u>>]
<1>1. /\ pc \in [Thread -> Stage] /\ pc' = [pc EXCEPT ![<<n, v>>] = to]
      /\ <<n, v>> \in Thread /\ v \in Nat \ {0}
  BY Threads, NodesAssumption DEF Types, Goto
<1>2. \A m \in Node : \A u \in 1 .. kthreads[m] - 1 : <<m, u>> \in Thread
  BY Threads
<1>3. \A m \in Node : /\ First(m) \in Thread /\ First(m) # <<n, v>>
                      /\ Server(m) \in Thread /\ Server(m) # <<n, v>>
  BY <1>1, Threads
<1> QED
  BY <1>1, <1>2, <1>3 DEF At

\* The same when a server ends.
LEMMA ServerGoto ==
  ASSUME Types, NEW n \in Node, NEW to \in Served, Goto(Server(n), to)
  PROVE  /\ pc' \in [Thread -> Stage] /\ pc'[Server(n)] = to
         /\ \A m \in Node \ {n} : pc'[Server(m)] = pc[Server(m)]
         /\ \A m \in Node : At(m)' = At(m) /\ Alive(m)' = Alive(m)
         /\ \A m \in Node : \A v \in 1 .. kthreads[m] - 1 : pc'[<<m, v>>] = pc[<<m, v>>]
<1>1. /\ pc \in [Thread -> Stage] /\ pc' = [pc EXCEPT ![Server(n)] = to]
      /\ Server(n) \in Thread /\ to \in Stage
  BY Threads DEF Types, Goto, Stage, Served
<1>2. \A m \in Node : First(m) \in Thread /\ First(m) # Server(n)
  BY Threads
<1>3. \A m \in Node : Server(m) \in Thread /\ (m # n => Server(m) # Server(n))
  BY Threads
<1>4. \A m \in Node : \A v \in 1 .. kthreads[m] - 1 : pc'[<<m, v>>] = pc[<<m, v>>]
  <2> TAKE m \in Node
  <2> TAKE v \in 1 .. kthreads[m] - 1
  <2>1. <<m, v>> \in Thread /\ <<m, v>> # Server(n)
    BY Threads, NodesAssumption
  <2> QED
    BY <1>1, <2>1
<1>5. \A m \in Node : Alive(m)' = Alive(m)
  BY <1>4 DEF Alive
<1> QED
  BY <1>1, <1>2, <1>3, <1>4, <1>5 DEF At

----------------------------------------------------------------------------
(* Barriers.                                                               *)

LEMMA EnterBarrierInv ==
  ASSUME Inv, NEW n \in Node, EnterBarrier(n) PROVE Inv'
<1>1. /\ pc' = pc /\ node_info' = node_info /\ created_workers' = created_workers
      /\ active_workers' = active_workers
  BY DEF EnterBarrier
<1>2. \A m \in Node : At(m)' = At(m) /\ Alive(m)' = Alive(m)
  BY <1>1 DEF At, Alive
<1>3. /\ inside \in [Node -> BOOLEAN] /\ barriers \in [Node -> Nat]
      /\ At(n) \in BarrierStage /\ ~inside[n]
      /\ inside' = [inside EXCEPT ![n] = TRUE]
      /\ barriers' = [barriers EXCEPT ![n] = @ + 1]
  BY DEF Inv, Types, EnterBarrier, At
<1>4. Types'
  BY <1>1, <1>2, <1>3 DEF Inv, Types
<1>5. \A m \in Node : Done(At(m)) \in Nat
  BY DoneValues DEF Inv, Types, FirstStage, Uncreated, Unfilled, Early, Ending
<1>6. Together'
  BY <1>2, <1>3, <1>5 DEF Inv, Together
<1>7. StartedUp' /\ Counted' /\ Ended'
  BY <1>1, <1>2 DEF Inv, StartedUp, Counted, Ended
<1> QED
  BY <1>4, <1>6, <1>7 DEF Inv

\* The stage after a barrier: one barrier more is behind, and the groups of
\* stages that the invariant speaks of are kept.
LEMMA NextStage ==
  ASSUME NEW n \in Node, NEW p \in BarrierStage
  PROVE  LET q == AfterBarrier(n, p)
         IN  /\ q \in Stage \cap FirstStage /\ Done(q) = Done(p) + 1
             /\ q \in Early <=> p \in Early
             /\ q \notin Unfilled => p \notin Unfilled
             /\ q \notin Uncreated => p \notin Uncreated
             /\ q \in Ending <=> p \in Ending
             /\ q \in {"last", "finalized"} => p = "last"
<1>1. CASE p = "opt"
  BY <1>1, DoneValues DEF AfterBarrier, Stage, BarrierStage, FirstStage, Uncreated, Unfilled, Early, Ending
<1>2. CASE p = "dup"
  BY <1>2, DoneValues DEF AfterBarrier, Stage, BarrierStage, FirstStage, Uncreated, Unfilled, Early, Ending
<1>3. CASE p = "gather"
  BY <1>3, DoneValues DEF AfterBarrier, Stage, BarrierStage, FirstStage, Uncreated, Unfilled, Early, Ending
<1>4. CASE p = "up"
  BY <1>4, DoneValues DEF AfterBarrier, Stage, BarrierStage, FirstStage, Uncreated, Unfilled, Early, Ending
<1>5. CASE p = "start"
  BY <1>5, DoneValues DEF AfterBarrier, Stage, BarrierStage, FirstStage, Uncreated, Unfilled, Early, Ending, Busy
<1>6. CASE p = "end"
  BY <1>6, DoneValues DEF AfterBarrier, Stage, BarrierStage, FirstStage, Uncreated, Unfilled, Early, Ending, Busy
<1>7. CASE p = "last"
  BY <1>7, DoneValues DEF AfterBarrier, Stage, BarrierStage, FirstStage, Uncreated, Unfilled, Early, Ending
<1> QED
  BY <1>1, <1>2, <1>3, <1>4, <1>5, <1>6, <1>7 DEF BarrierStage

LEMMA LeaveBarrierInv ==
  ASSUME Inv, NEW n \in Node, LeaveBarrier(n) PROVE Inv'
<1> DEFINE p == At(n)
           q == AfterBarrier(n, p)
<1>1. /\ inside \in [Node -> BOOLEAN] /\ barriers \in [Node -> Nat] /\ inside[n]
      /\ inside' = [inside EXCEPT ![n] = FALSE] /\ barriers' = barriers
      /\ node_info' = node_info /\ created_workers' = created_workers
      /\ active_workers' = active_workers /\ Goto(First(n), q)
      /\ \A m \in Node : barriers[m] >= barriers[n]
  BY DEF Inv, Types, LeaveBarrier, AllEntered, At
<1>2. p \in BarrierStage /\ barriers[n] = Done(p) + 1
  BY <1>1 DEF Inv, Together
<1>3. /\ q \in Stage \cap FirstStage /\ Done(q) = Done(p) + 1
      /\ q \in Early <=> p \in Early
      /\ q \notin Unfilled => p \notin Unfilled
      /\ q \notin Uncreated => p \notin Uncreated
      /\ q \in Ending <=> p \in Ending
      /\ q \in {"last", "finalized"} => p = "last"
  BY <1>2, NextStage
<1> HIDE DEF q
<1>4. /\ pc' \in [Thread -> Stage] /\ At(n)' = q
      /\ \A m \in Node \ {n} : At(m)' = At(m)
      /\ \A m \in Node : pc'[Server(m)] = pc[Server(m)] /\ Alive(m)' = Alive(m)
      /\ \A m \in Node : \A v \in 1 .. kthreads[m] - 1 : pc'[<<m, v>>] = pc[<<m, v>>]
  BY <1>1, <1>3, FirstGoto DEF Inv
<1>5. Types'
  BY <1>1, <1>3, <1>4 DEF Inv, Types
<1>6. Together'
  BY <1>1, <1>2, <1>3, <1>4 DEF Inv, Together
<1>7. StartedUp'
  BY <1>1, <1>3, <1>4 DEF Inv, StartedUp
<1>8. Counted'
  BY <1>1, <1>3, <1>4 DEF Inv, Counted
<1>9. Ended'
  BY <1>3, <1>4 DEF Inv, Ended
<1> QED
  BY <1>5, <1>6, <1>7, <1>8, <1>9 DEF Inv

----------------------------------------------------------------------------
(* The other steps of one thread.                                          *)

\* Worker 0 of a node goes on between two barriers.
LEMMA FirstMoveInv ==
  ASSUME Inv, NEW n \in Node, NEW to \in Stage \cap FirstStage, Goto(First(n), to),
         At(n) \notin BarrierStage, Done(to) = Done(At(n)), to \in Early <=> At(n) \in Early,
         UNCHANGED <<inside, barriers, active_workers>>,
         node_info' \in [Node -> [Node -> Nat]],
         \A m \in Node : node_info'[m] = node_info[m] \/ node_info'[m] = kthreads,
         created_workers' \in [Node -> Nat],
         \A m \in Node : created_workers'[m] >= created_workers[m],
         to \notin Unfilled => node_info'[n] = kthreads,
         to \notin Uncreated => created_workers'[n] >= kthreads[n],
         to \in Ending => Alive(n) = {},
         N > 1 /\ to \in {"last", "finalized"} => pc[Server(n)] = "exited"
  PROVE  Inv'
<1>1. /\ pc' \in [Thread -> Stage] /\ At(n)' = to
      /\ \A m \in Node \ {n} : At(m)' = At(m)
      /\ \A m \in Node : pc'[Server(m)] = pc[Server(m)] /\ Alive(m)' = Alive(m)
      /\ \A m \in Node : \A v \in 1 .. kthreads[m] - 1 : pc'[<<m, v>>] = pc[<<m, v>>]
  BY FirstGoto DEF Inv
<1>2. Types'
  BY <1>1 DEF Inv, Types
<1>3. ~inside[n]
  BY DEF Inv, Together
<1>4. Together'
  BY <1>1, <1>3 DEF Inv, Together
<1>5. StartedUp'
  <2>1. kthreads \in [Node -> Nat] /\ created_workers \in [Node -> Nat]
    BY NodesAssumption DEF Inv, Types
  <2>2. \A m \in Node : At(m)' \notin Unfilled => node_info'[m] = kthreads
    BY <1>1 DEF Inv, StartedUp
  <2>3. \A m \in Node : At(m)' \notin Uncreated => created_workers'[m] >= kthreads[m]
    BY <1>1, <2>1 DEF Inv, StartedUp
  <2>4. \A m \in Node : N > 1 /\ At(m)' \notin Early => pc'[Server(m)] \in Served
    BY <1>1 DEF Inv, StartedUp
  <2> QED
    BY <2>2, <2>3, <2>4 DEF StartedUp
<1>6. Counted'
  BY <1>1 DEF Inv, Counted
<1>7. Ended'
  BY <1>1 DEF Inv, Ended
<1> QED
  BY <1>2, <1>4, <1>5, <1>6, <1>7 DEF Inv

\* Another worker goes on, and does not end.
LEMMA OtherMoveInv ==
  ASSUME Inv, NEW n \in Node, NEW v \in 1 .. kthreads[n] - 1,
         NEW to \in OtherStage \ {"none", "exited"}, Goto(<<n, v>>, to),
         pc[<<n, v>>] \notin {"none", "exited"},
         UNCHANGED <<inside, barriers, active_workers, node_info>>,
         created_workers' \in [Node -> Nat],
         \A m \in Node : created_workers'[m] >= created_workers[m]
  PROVE  Inv'
<1>0. to \in Stage
  BY DEF OtherStage, Busy, Stage, BarrierStage
<1>1. /\ pc' \in [Thread -> Stage] /\ pc'[<<n, v>>] = to
      /\ \A m \in Node : At(m)' = At(m) /\ pc'[Server(m)] = pc[Server(m)]
      /\ \A m \in Node : \A u \in 1 .. kthreads[m] - 1 :
           <<m, u>> # <<n, v>> => pc'[<<m, u>>] = pc[<<m, u>>]
  BY <1>0, OtherGoto DEF Inv
<1>2. \A m \in Node : \A u \in 1 .. kthreads[m] - 1 :
        pc'[<<m, u>>] \in OtherStage /\ (pc'[<<m, u>>] = "none" <=> At(m) \in Early)
  BY <1>1 DEF Inv, Counted
<1>3. \A m \in Node : Alive(m)' = Alive(m)
  BY <1>1 DEF Alive
<1>4. Types' /\ Together'
  BY <1>1 DEF Inv, Types, Together
<1>5. StartedUp'
  <2>1. kthreads \in [Node -> Nat]
    BY NodesAssumption
  <2> QED
    BY <1>1, <2>1 DEF Inv, StartedUp, Types
<1>6. Counted' /\ Ended'
  BY <1>1, <1>2, <1>3 DEF Inv, Counted, Ended
<1> QED
  BY <1>4, <1>5, <1>6 DEF Inv

\* Another worker ends, and counts itself out.
LEMMA OtherEndsInv ==
  ASSUME Inv, NEW n \in Node, NEW v \in 1 .. kthreads[n] - 1, Goto(<<n, v>>, "exited"),
         pc[<<n, v>>] \notin {"none", "exited"},
         UNCHANGED <<inside, barriers, created_workers, node_info>>,
         active_workers' = [active_workers EXCEPT ![n] = @ - 1]
  PROVE  Inv'
<1>0. "exited" \in Stage
  BY DEF Stage
<1>1. /\ pc' \in [Thread -> Stage] /\ pc'[<<n, v>>] = "exited"
      /\ \A m \in Node : At(m)' = At(m) /\ pc'[Server(m)] = pc[Server(m)]
      /\ \A m \in Node : \A u \in 1 .. kthreads[m] - 1 :
           <<m, u>> # <<n, v>> => pc'[<<m, u>>] = pc[<<m, u>>]
  BY <1>0, OtherGoto DEF Inv
<1>2. \A m \in Node : \A u \in 1 .. kthreads[m] - 1 :
        pc'[<<m, u>>] \in OtherStage /\ (pc'[<<m, u>>] = "none" <=> At(m) \in Early)
  BY <1>1 DEF Inv, Counted, OtherStage
<1>3. \A m \in Node \ {n} : Alive(m)' = Alive(m)
  BY <1>1 DEF Alive
<1>4. v \in Alive(n) /\ Alive(n)' = Alive(n) \ {v}
  BY <1>1 DEF Alive
<1>5. Cardinality(Alive(n) \ {v}) = Cardinality(Alive(n)) - 1
  BY <1>4, AliveFinite, FS_RemoveElement
<1>6. Types' /\ Together' /\ StartedUp'
  BY <1>1 DEF Inv, Types, Together, StartedUp
<1>7. Counted'
  <2>1. \A m \in Node \ {n} : active_workers'[m] = active_workers[m]
    BY DEF Inv, Types
  <2>2. At(n) \notin Early => active_workers'[n] = 1 + Cardinality(Alive(n)')
    BY <1>4, <1>5, AliveFinite DEF Inv, Types, Counted
  <2> QED
    BY <1>1, <1>2, <1>3, <2>1, <2>2 DEF Inv, Counted
<1>8. Ended'
  BY <1>1, <1>3, <1>4 DEF Inv, Ended
<1> QED
  BY <1>6, <1>7, <1>8 DEF Inv

\* A server goes on, or ends.
LEMMA ServerMovesInv ==
  ASSUME Inv, NEW n \in Node, NEW to \in Served, to = "exited" \/ pc[Server(n)] # "exited",
         Goto(Server(n), to), UNCHANGED boot
  PROVE  Inv'
<1>1. /\ pc' \in [Thread -> Stage] /\ pc'[Server(n)] = to
      /\ \A m \in Node \ {n} : pc'[Server(m)] = pc[Server(m)]
      /\ \A m \in Node : At(m)' = At(m) /\ Alive(m)' = Alive(m)
      /\ \A m \in Node : \A v \in 1 .. kthreads[m] - 1 : pc'[<<m, v>>] = pc[<<m, v>>]
  BY ServerGoto DEF Inv
<1>2. Types' /\ Together'
  BY <1>1 DEF Inv, Types, Together, boot
<1>3. StartedUp'
  BY <1>1 DEF Inv, StartedUp, boot
<1>4. Counted' /\ Ended'
  BY <1>1 DEF Inv, Counted, Ended, boot
<1> QED
  BY <1>2, <1>3, <1>4 DEF Inv

----------------------------------------------------------------------------
(* Start-up.                                                               *)

LEMMA StartThreadsInv ==
  ASSUME Inv, NEW n \in Node, StartThreads(n) PROVE Inv'
<1>0. /\ pc \in [Thread -> Stage] /\ At(n) = "md_init"
      /\ inside' = inside /\ barriers' = barriers /\ node_info' = node_info
      /\ created_workers' = created_workers
      /\ active_workers' = [active_workers EXCEPT ![n] = kthreads[n]]
  BY DEF StartThreads, At, Inv, Types
<1>1. pc' \in [Thread -> Stage]
  <2>1. "gather" \in Stage /\ "serve" \in Stage /\ "none" \in Stage /\ "worker" \in Stage
    BY DEF Stage, BarrierStage
  <2> QED
    BY <1>0, <2>1 DEF StartThreads
<1>2. At(n)' = "gather" /\ \A m \in Node \ {n} : At(m)' = At(m)
  <2>1. \A m \in Node : First(m) \in Thread /\ First(m)[1] = m /\ First(m)[2] = 0
    BY Threads DEF First
  <2> QED
    BY <2>1 DEF StartThreads, At
<1>3. /\ N > 1 => pc'[Server(n)] = "serve"
      /\ \A m \in Node \ {n} : pc'[Server(m)] = pc[Server(m)]
  <2>1. \A m \in Node : Server(m) \in Thread /\ Server(m)[1] = m /\ Server(m)[2] = -1
    BY Threads DEF Server
  <2> QED
    BY <2>1 DEF StartThreads
<1>4. \A v \in 1 .. kthreads[n] - 1 : pc'[<<n, v>>] = "worker"
  <2> TAKE v \in 1 .. kthreads[n] - 1
  <2>1. <<n, v>> \in Thread /\ <<n, v>>[1] = n /\ <<n, v>>[2] = v /\ v > 0 /\ v # 0
    BY Threads, NodesAssumption
  <2> QED
    BY <2>1 DEF StartThreads
<1>5. \A m \in Node \ {n} : \A v \in 1 .. kthreads[m] - 1 : pc'[<<m, v>>] = pc[<<m, v>>]
  <2> TAKE m \in Node \ {n}
  <2> TAKE v \in 1 .. kthreads[m] - 1
  <2>1. <<m, v>> \in Thread /\ <<m, v>>[1] # n
    BY Threads
  <2> QED
    BY <2>1 DEF StartThreads
<1>6. \A m \in Node \ {n} : Alive(m)' = Alive(m)
  BY <1>5 DEF Alive
<1>7. kthreads[n] = 1 + Cardinality(Alive(n)')
  <2>1. Alive(n)' = 1 .. kthreads[n] - 1
    BY <1>4 DEF Alive
  <2>2. kthreads[n] \in Nat \ {0}
    BY NodesAssumption
  <2>3. Cardinality(1 .. kthreads[n] - 1)
          = IF 1 > kthreads[n] - 1 THEN 0 ELSE kthreads[n] - 1 - 1 + 1
    <3>1. 1 \in Int /\ kthreads[n] - 1 \in Int
      BY <2>2
    <3> QED
      BY <3>1, FS_Interval, Zenon
  <2> QED
    BY <2>1, <2>2, <2>3
<1>8. Types'
  <2>1. kthreads[n] \in Int /\ "gather" \in FirstStage
    BY NodesAssumption DEF FirstStage, Uncreated, Unfilled
  <2> QED
    BY <1>0, <1>1, <1>2, <2>1 DEF Inv, Types
<1>9. Together'
  <2>1. Done(At(n)') = Done(At(n)) /\ ~inside[n]
    BY <1>0, <1>2, DoneValues DEF Inv, Together, BarrierStage
  <2> QED
    BY <1>0, <1>2, <2>1 DEF Inv, Together
<1>10. StartedUp'
  BY <1>0, <1>2, <1>3 DEF Inv, StartedUp, Served, Uncreated, Unfilled
<1>11. Counted'
  <2>1. \A m \in Node \ {n} : active_workers'[m] = active_workers[m]
    BY <1>0 DEF Inv, Types
  <2>2. active_workers'[n] = kthreads[n]
    BY <1>0 DEF Inv, Types
  <2>3. \A m \in Node : \A v \in 1 .. kthreads[m] - 1 :
          pc'[<<m, v>>] \in OtherStage /\ (pc'[<<m, v>>] = "none" <=> At(m)' \in Early)
    <3>1. At(n)' \notin Early /\ "worker" \in OtherStage
      BY <1>2 DEF Early, OtherStage
    <3>2. \A m \in Node \ {n} : \A v \in 1 .. kthreads[m] - 1 :
            pc[<<m, v>>] \in OtherStage /\ (pc[<<m, v>>] = "none" <=> At(m) \in Early)
      BY DEF Inv, Counted
    <3>3. \A v \in 1 .. kthreads[n] - 1 :
            pc'[<<n, v>>] \in OtherStage /\ (pc'[<<n, v>>] = "none" <=> At(n)' \in Early)
      BY <1>4, <3>1
    <3>4. \A m \in Node \ {n} : \A v \in 1 .. kthreads[m] - 1 :
            pc'[<<m, v>>] \in OtherStage /\ (pc'[<<m, v>>] = "none" <=> At(m)' \in Early)
      BY <1>2, <1>5, <3>2
    <3> QED
      BY <3>3, <3>4
  <2>4. \A m \in Node : At(m)' \notin Early => active_workers'[m] = 1 + Cardinality(Alive(m)')
    BY <1>2, <1>6, <1>7, <2>1, <2>2 DEF Inv, Counted
  <2> QED
    BY <2>3, <2>4 DEF Counted
<1>12. Ended'
  BY <1>2, <1>3, <1>6 DEF Inv, Ended, Ending
<1> QED
  BY <1>8, <1>9, <1>10, <1>11, <1>12 DEF Inv

LEMMA FillNodeInfoInv ==
  ASSUME Inv, NEW n \in Node, FillNodeInfo(n) PROVE Inv'
<1>1. /\ At(n) = "info" /\ Goto(First(n), "up")
      /\ UNCHANGED <<inside, barriers, active_workers, created_workers>>
      /\ node_info' = [node_info EXCEPT ![n] = kthreads]
  BY DEF FillNodeInfo, At
<1>2. /\ node_info \in [Node -> [Node -> Nat]] /\ created_workers \in [Node -> Nat]
      /\ kthreads \in [Node -> Nat]
  BY NodesAssumption DEF Inv, Types
<1>3. /\ node_info' \in [Node -> [Node -> Nat]] /\ node_info'[n] = kthreads
      /\ \A m \in Node : node_info'[m] = node_info[m] \/ node_info'[m] = kthreads
      /\ \A m \in Node : created_workers'[m] >= created_workers[m]
  BY <1>1, <1>2
<1>4. /\ "up" \in Stage \cap FirstStage /\ At(n) \notin BarrierStage /\ Done("up") = Done(At(n))
      /\ "up" \in Early <=> At(n) \in Early
      /\ "up" \in Uncreated /\ "up" \notin Ending
  BY <1>1, DoneValues DEF Stage, BarrierStage, FirstStage, Uncreated, Unfilled, Early, Ending
<1> QED
  BY <1>1, <1>2, <1>3, <1>4, FirstMoveInv

LEMMA WorkerCreatedInv ==
  ASSUME Inv, NEW w \in Worker, WorkerCreated(w) PROVE Inv'
<1>1. /\ pc[w] = "worker" /\ Goto(w, "created")
      /\ UNCHANGED <<inside, barriers, active_workers, node_info>>
      /\ created_workers' = [created_workers EXCEPT ![w[1]] = @ + 1]
      /\ w[1] \in Node /\ w = <<w[1], w[2]>>
  BY Threads DEF WorkerCreated
<1>2. created_workers \in [Node -> Nat] /\ node_info \in [Node -> [Node -> Nat]]
  BY DEF Inv, Types
<1>3. /\ created_workers' \in [Node -> Nat]
      /\ \A m \in Node : created_workers'[m] >= created_workers[m]
  BY <1>1, <1>2
<1>4. CASE w[2] = 0
  <2>1. w = First(w[1]) /\ At(w[1]) = "worker"
    BY <1>1, <1>4 DEF First, At
  <2>2. /\ "created" \in Stage \cap FirstStage /\ At(w[1]) \notin BarrierStage
        /\ Done("created") = Done(At(w[1]))
        /\ "created" \in Early <=> At(w[1]) \in Early
        /\ "created" \in Uncreated /\ "created" \notin Ending
    BY <2>1, DoneValues DEF Stage, BarrierStage, FirstStage, Uncreated, Unfilled, Early, Ending
  <2>3. node_info[w[1]] = kthreads
    BY <1>1, <2>1 DEF Inv, StartedUp, Unfilled, Early
  <2> QED
    BY <1>1, <1>2, <1>3, <2>1, <2>2, <2>3, FirstMoveInv
<1>5. CASE w[2] # 0
  <2>1. w[2] \in 1 .. kthreads[w[1]] - 1
    BY <1>5, Threads, NodesAssumption
  <2>2. "created" \in OtherStage \ {"none", "exited"}
    BY DEF OtherStage
  <2> QED
    BY <1>1, <1>3, <2>1, <2>2, OtherMoveInv
<1> QED
  BY <1>4, <1>5

LEMMA WorkerStartsInv ==
  ASSUME Inv, NEW w \in Worker, WorkerStarts(w) PROVE Inv'
<1>1. /\ pc[w] = "created" /\ created_workers[w[1]] >= kthreads[w[1]]
      /\ Goto(w, IF w[2] = 0 THEN "start" ELSE "loop")
      /\ UNCHANGED <<inside, barriers, active_workers, node_info, created_workers>>
      /\ w[1] \in Node /\ w = <<w[1], w[2]>>
  BY Threads DEF WorkerStarts, EverybodyCreated, boot
<1>2. /\ created_workers \in [Node -> Nat] /\ node_info \in [Node -> [Node -> Nat]]
      /\ \A m \in Node : created_workers'[m] >= created_workers[m]
  BY <1>1 DEF Inv, Types
<1>3. CASE w[2] = 0
  <2>1. w = First(w[1]) /\ At(w[1]) = "created" /\ Goto(First(w[1]), "start")
    BY <1>1, <1>3 DEF First, At
  <2>2. /\ "start" \in Stage \cap FirstStage /\ At(w[1]) \notin BarrierStage
        /\ Done("start") = Done(At(w[1]))
        /\ "start" \in Early <=> At(w[1]) \in Early
        /\ "start" \notin Ending
    BY <2>1, DoneValues DEF Stage, BarrierStage, FirstStage, Uncreated, Unfilled, Early, Ending
  <2>3. node_info[w[1]] = kthreads
    BY <1>1, <2>1 DEF Inv, StartedUp, Unfilled, Early
  <2> QED
    BY <1>1, <1>2, <2>1, <2>2, <2>3, FirstMoveInv
<1>4. CASE w[2] # 0
  <2>1. w[2] \in 1 .. kthreads[w[1]] - 1
    BY <1>4, Threads, NodesAssumption
  <2>2. "loop" \in OtherStage \ {"none", "exited"} /\ Goto(w, "loop")
    BY <1>1, <1>4 DEF OtherStage, Busy
  <2> QED
    BY <1>1, <1>2, <2>1, <2>2, OtherMoveInv
<1> QED
  BY <1>3, <1>4

----------------------------------------------------------------------------
(* Termination.                                                            *)

LEMMA WorkersEndedInv ==
  ASSUME Inv, NEW n \in Node, WorkersEnded(n) PROVE Inv'
<1>1. /\ At(n) = "md_end" /\ active_workers[n] = 1 /\ Goto(First(n), "end")
      /\ UNCHANGED <<inside, barriers, active_workers, node_info, created_workers>>
  BY DEF WorkersEnded, boot, At
<1>2. Alive(n) = {}
  <2>1. active_workers[n] = 1 + Cardinality(Alive(n))
    BY <1>1 DEF Inv, Counted, Early
  <2> QED
    BY <1>1, <2>1, AliveFinite, FS_EmptySet
<1>3. /\ created_workers \in [Node -> Nat] /\ node_info \in [Node -> [Node -> Nat]]
      /\ \A m \in Node : created_workers'[m] >= created_workers[m]
      /\ node_info[n] = kthreads /\ created_workers[n] >= kthreads[n]
  BY <1>1 DEF Inv, Types, StartedUp, Uncreated, Unfilled, Early
<1>4. /\ "end" \in Stage \cap FirstStage /\ At(n) \notin BarrierStage /\ Done("end") = Done(At(n))
      /\ "end" \in Early <=> At(n) \in Early
      /\ "end" \notin {"last", "finalized"}
  BY <1>1, DoneValues DEF Stage, BarrierStage, FirstStage, Early, Ending
<1> QED
  BY <1>1, <1>2, <1>3, <1>4, FirstMoveInv

LEMMA ShutdownServerInv ==
  ASSUME Inv, NEW n \in Node, ShutdownServer(n) PROVE Inv'
<1>1. /\ At(n) = "shutdown" /\ Goto(First(n), "join")
      /\ UNCHANGED <<inside, barriers, active_workers, node_info, created_workers>>
  BY DEF ShutdownServer, boot, At
<1>2. /\ created_workers \in [Node -> Nat] /\ node_info \in [Node -> [Node -> Nat]]
      /\ \A m \in Node : created_workers'[m] >= created_workers[m]
      /\ node_info[n] = kthreads /\ created_workers[n] >= kthreads[n] /\ Alive(n) = {}
  BY <1>1 DEF Inv, Types, StartedUp, Ended, Uncreated, Unfilled, Early, Ending
<1>3. /\ "join" \in Stage \cap FirstStage /\ At(n) \notin BarrierStage /\ Done("join") = Done(At(n))
      /\ "join" \in Early <=> At(n) \in Early
      /\ "join" \notin {"last", "finalized"}
  BY <1>1, DoneValues DEF Stage, BarrierStage, FirstStage, Early, Ending
<1> QED
  BY <1>1, <1>2, <1>3, FirstMoveInv

LEMMA JoinServerInv ==
  ASSUME Inv, NEW n \in Node, JoinServer(n) PROVE Inv'
<1>1. /\ At(n) = "join" /\ Goto(First(n), "last") /\ (N > 1 => pc[Server(n)] = "exited")
      /\ UNCHANGED <<inside, barriers, active_workers, node_info, created_workers>>
  BY DEF JoinServer, ServerEnded, boot, At
<1>2. /\ created_workers \in [Node -> Nat] /\ node_info \in [Node -> [Node -> Nat]]
      /\ \A m \in Node : created_workers'[m] >= created_workers[m]
      /\ node_info[n] = kthreads /\ created_workers[n] >= kthreads[n] /\ Alive(n) = {}
  BY <1>1 DEF Inv, Types, StartedUp, Ended, Uncreated, Unfilled, Early, Ending
<1>3. /\ "last" \in Stage \cap FirstStage /\ At(n) \notin BarrierStage /\ Done("last") = Done(At(n))
      /\ "last" \in Early <=> At(n) \in Early
  BY <1>1, DoneValues DEF Stage, BarrierStage, FirstStage, Early, Ending
<1> QED
  BY <1>1, <1>2, <1>3, FirstMoveInv

----------------------------------------------------------------------------
(* All steps.                                                              *)

LEMMA WorkerStepInv ==
  ASSUME Inv, NEW w \in Worker, WorkerStep(w) PROVE Inv'
<1>0. /\ Loop(w) \in Busy /\ w[1] \in Node /\ w = <<w[1], w[2]>>
      /\ pc \in [Thread -> Stage] /\ w \in Thread
  BY Threads DEF Loop, Busy, Inv, Types
<1>1. CASE WorkerCreated(w)
  BY <1>1, WorkerCreatedInv
<1>2. CASE WorkerStarts(w)
  BY <1>2, WorkerStartsInv
<1>3. CASE \E f \in Function : TakeTask(w, f)
  BY <1>0, <1>3, BusyStep DEF TakeTask, Looking, Goto, Busy
<1>4. CASE WriteTable(w)
  BY <1>4, BusyStep DEF WriteTable, Goto, Busy
<1>5. CASE CountFunction(w)
  <2>1. pc[w] \in Busy /\ pc' = [pc EXCEPT ![w] = Loop(w)] /\ UNCHANGED boot
    BY <1>5 DEF CountFunction, Goto, Busy
  <2>2. Loop(w) # "md_end"
    BY DEF Loop
  <2> QED
    BY <1>0, <2>1, <2>2, BusyStep
<1>6. CASE StartSweep(w)
  BY <1>0, <1>6, BusyStep DEF StartSweep, Looking, Goto, Busy
<1>7. CASE WillAsk(w) \/ AskForWork(w)
  BY <1>7, BusyStep DEF WillAsk, AskForWork, Goto, Busy
<1>8. CASE SkipVictim(w)
  BY <1>8, StillStep DEF SkipVictim
<1>9. CASE GotTask(w)
  BY <1>9, BusyStep DEF GotTask, Goto, Busy
<1>10. CASE GotNothing(w)
  BY <1>10, BusyStep DEF GotNothing, Goto, Busy
<1>11. CASE StopsWaiting(w)
  BY <1>11, BusyStep DEF StopsWaiting, Goto, Busy
<1>12. CASE Quit(w)
  <2>1. pc[w] \in Busy
    BY <1>0, <1>12 DEF Quit, Looking, Busy
  <2>2. CASE appl_finished[w[1]] # 1
    <3>1. pc' = [pc EXCEPT ![w] = Loop(w)] /\ UNCHANGED boot
      BY <1>12, <2>2 DEF Quit, Goto, boot
    <3>2. Loop(w) # "md_end"
      BY DEF Loop
    <3> QED
      BY <1>0, <2>1, <3>1, <3>2, BusyStep
  <2>3. CASE appl_finished[w[1]] = 1 /\ w[2] = 0
    <3>1. pc' = [pc EXCEPT ![w] = "md_end"] /\ UNCHANGED boot
      BY <1>12, <2>3 DEF Quit, Goto, boot
    <3> QED
      BY <2>1, <2>3, <3>1, BusyStep
  <2>4. CASE appl_finished[w[1]] = 1 /\ w[2] # 0
    <3>1. /\ Goto(w, "exited") /\ active_workers' = [active_workers EXCEPT ![w[1]] = @ - 1]
          /\ UNCHANGED <<inside, barriers, created_workers, node_info>>
      BY <1>12, <2>4 DEF Quit
    <3>2. w[2] \in 1 .. kthreads[w[1]] - 1
      BY <2>4, Threads, NodesAssumption
    <3>3. pc[w] \notin {"none", "exited"}
      BY <2>1 DEF Busy
    <3> QED
      BY <1>0, <3>1, <3>2, <3>3, OtherEndsInv
  <2> QED
    BY <2>2, <2>3, <2>4
<1> QED
  BY <1>1, <1>2, <1>3, <1>4, <1>5, <1>6, <1>7, <1>8, <1>9, <1>10, <1>11, <1>12 DEF WorkerStep

LEMMA FirstStepInv ==
  ASSUME Inv, NEW n \in Node, FirstStep(n) PROVE Inv'
BY EnterBarrierInv, LeaveBarrierInv, StartThreadsInv, FillNodeInfoInv, WorkersEndedInv,
   ShutdownServerInv, JoinServerInv DEF FirstStep

LEMMA MainStepInv ==
  ASSUME Inv, MainStep PROVE Inv'
<1>0. Main \in Worker /\ Main[2] = 0
  BY Threads DEF Main, First
<1>1. CASE RegisterTask
  BY <1>0, <1>1, BusyStep DEF RegisterTask, MayCall, Calling, Goto, Busy
<1>2. CASE WaitReturns
  BY <1>0, <1>2, BusyStep DEF WaitReturns, Goto, Busy
<1>3. CASE EnableStealing
  BY <1>3, StillStep DEF EnableStealing
<1>4. CASE ResetStatistics
  BY <1>4, StillStep DEF ResetStatistics
<1>5. CASE Finalize
  BY <1>0, <1>5, BusyStep DEF Finalize, Calling, Goto, Busy
<1> QED
  BY <1>1, <1>2, <1>3, <1>4, <1>5 DEF MainStep

LEMMA ServerStepInv ==
  ASSUME Inv, NEW n \in Node, ServerStep(n) PROVE Inv'
<1>1. ASSUME NEW s \in Thread, RecvWork(n, s) PROVE Inv'
  BY <1>1, StillStep DEF RecvWork
<1>2. ASSUME NEW s \in Thread, RecvAnswer(n, s) PROVE Inv'
  BY <1>2, StillStep DEF RecvAnswer
<1>3. ASSUME NEW s \in Thread, ServeThief(n, s) PROVE Inv'
  BY <1>3, StillStep DEF ServeThief
<1>4. ASSUME NEW s \in Thread, RecvEnable(n, s) PROVE Inv'
  BY <1>4, StillStep DEF RecvEnable
<1>5. ASSUME NEW s \in Thread, RecvReset(n, s) PROVE Inv'
  BY <1>5, StillStep DEF RecvReset
<1>0. {"serve", "finish", "exited"} \subseteq Served
  BY DEF Served
<1>6. ASSUME NEW s \in Thread, RecvTerminate(n, s) PROVE Inv'
  <2>1. Goto(Server(n), "finish") /\ pc[Server(n)] # "exited" /\ UNCHANGED boot
    BY <1>6 DEF RecvTerminate, Accept, Serving
  <2> QED
    BY <1>0, <2>1, ServerMovesInv
<1>7. ASSUME NEW s \in Thread, RecvTerminateLocal(n, s) PROVE Inv'
  BY <1>0, <1>7, ServerMovesInv DEF RecvTerminateLocal
<1>8. CASE CountFinished(n)
  <2>1. Goto(Server(n), "serve") /\ pc[Server(n)] # "exited" /\ UNCHANGED boot
    BY <1>8 DEF CountFinished
  <2> QED
    BY <1>0, <2>1, ServerMovesInv
<1>9. CASE ServerLeaves(n)
  BY <1>0, <1>9, ServerMovesInv DEF ServerLeaves
<1> QED
  BY <1>1, <1>2, <1>3, <1>4, <1>5, <1>6, <1>7, <1>8, <1>9 DEF ServerStep

LEMMA NextInv == Inv /\ [Next]_vars => Inv'
<1> SUFFICES ASSUME Inv, [Next]_vars PROVE Inv'
  OBVIOUS
<1>1. CASE UNCHANGED vars
  BY <1>1, StillStep DEF vars
<1>2. ASSUME NEW s \in Thread, ThreadStep(s) PROVE Inv'
  <2>0. s[1] \in Node
    BY Threads DEF Server
  <2>1. CASE SendNext(s)
    BY <2>1, StillStep DEF SendNext
  <2>2. CASE s \in Worker /\ WorkerStep(s)
    BY <2>2, WorkerStepInv
  <2>3. CASE s[2] = 0 /\ FirstStep(s[1])
    BY <2>0, <2>3, FirstStepInv
  <2>4. CASE s = Main /\ MainStep
    BY <2>4, MainStepInv
  <2>5. CASE s[2] = -1 /\ ServerStep(s[1])
    BY <2>0, <2>5, ServerStepInv
  <2> QED
    BY <1>2, <2>1, <2>2, <2>3, <2>4, <2>5 DEF ThreadStep
<1> QED
  BY <1>1, <1>2 DEF Next

----------------------------------------------------------------------------
(* What follows.                                                           *)

\* A node that has left a barrier has the others where they had to enter it.
LEMMA OthersBehind ==
  ASSUME Inv, NEW m \in Node, NEW n \in Node
  PROVE  /\ Done(At(n)) >= 5 => At(m) \notin Uncreated
         /\ Done(At(n)) >= 6 => At(m) \in Ending
         /\ Done(At(n)) >= 7 => At(m) \in {"last", "finalized"}
<1>1. /\ Done(At(n)) <= Done(At(m)) + (IF inside[m] THEN 1 ELSE 0)
      /\ inside[m] => At(m) \in BarrierStage
      /\ At(m) \in FirstStage /\ At(n) \in FirstStage
  BY DEF Inv, Together, Types
<1>2. \A p \in FirstStage : Done(p) \in 0 .. 7
  BY DoneValues DEF FirstStage, Uncreated, Unfilled, Early, Ending
<1>3. \A p \in FirstStage :
        /\ Done(p) >= 5 \/ (p = "start" /\ Done(p) = 4) => p \notin Uncreated
        /\ Done(p) >= 6 \/ (p = "end" /\ Done(p) = 5) => p \in Ending
        /\ Done(p) >= 7 \/ (p = "last" /\ Done(p) = 6) => p \in {"last", "finalized"}
  BY DoneValues DEF FirstStage, Uncreated, Unfilled, Early, Ending, Busy
<1>4. \A p \in BarrierStage :
        /\ Done(p) = 4 => p = "start"
        /\ Done(p) = 5 => p = "end"
        /\ Done(p) = 6 => p = "last"
  BY DoneValues DEF BarrierStage
<1>5. /\ Done(At(n)) <= Done(At(m)) + 1 /\ Done(At(n)) \in 0 .. 7 /\ Done(At(m)) \in 0 .. 7
      /\ Done(At(n)) <= Done(At(m)) \/ At(m) \in BarrierStage
  BY <1>1, <1>2
<1>6. At(m) \in BarrierStage =>
        /\ Done(At(m)) = 4 => At(m) = "start"
        /\ Done(At(m)) = 5 => At(m) = "end"
        /\ Done(At(m)) = 6 => At(m) = "last"
  BY <1>4
<1>7. /\ Done(At(m)) >= 5 \/ (At(m) = "start" /\ Done(At(m)) = 4) => At(m) \notin Uncreated
      /\ Done(At(m)) >= 6 \/ (At(m) = "end" /\ Done(At(m)) = 5) => At(m) \in Ending
      /\ Done(At(m)) >= 7 \/ (At(m) = "last" /\ Done(At(m)) = 6)
           => At(m) \in {"last", "finalized"}
  BY <1>1, <1>3
<1> QED
  BY <1>5, <1>6, <1>7

LEMMA InvImpliesReady == Inv => ReadyBeforeUse
<1> SUFFICES ASSUME Inv, Started, NEW n \in Node
             PROVE  /\ N > 1 => pc[Server(n)] \notin {"none"}
                    /\ created_workers[n] >= kthreads[n]
                    /\ node_info[n] = kthreads
  BY DEF ReadyBeforeUse
<1>1. 0 \in Node /\ At(0) \in {"main", "waitall"}
  BY Threads DEF Started, At
<1>2. Done(At(0)) = 5
  BY <1>1, DoneValues DEF Busy
<1>3. At(n) \notin Uncreated
  BY <1>1, <1>2, OthersBehind
<1> QED
  BY <1>3 DEF Inv, StartedUp, Served, Uncreated, Unfilled

LEMMA InvImpliesExits == Inv => ExitsTogether
<1> SUFFICES ASSUME Inv, NEW n \in Node, At(n) = "finalized", NEW s \in Thread
             PROVE  pc[s] \in {"exited"} \cup (IF s[2] = 0 THEN {"last", "finalized"} ELSE {})
                    \/ (s[2] = -1 /\ N = 1)
  BY DEF ExitsTogether, At
<1>1. \A m \in Node : At(m) \in {"last", "finalized"}
  <2>1. Done(At(n)) >= 7
    BY DoneValues
  <2> QED
    BY <2>1, OthersBehind
<1>2. CASE s \in Worker
  <2>1. s[1] \in Node /\ s = <<s[1], s[2]>> /\ s[2] \in 0 .. kthreads[s[1]] - 1
    BY <1>2, Threads
  <2>2. CASE s[2] = 0
    BY <1>1, <2>1, <2>2 DEF At, First
  <2>3. CASE s[2] # 0
    <3>1. s[2] \in 1 .. kthreads[s[1]] - 1
      BY <2>1, <2>3, NodesAssumption
    <3>2. Alive(s[1]) = {}
      BY <1>1, <2>1 DEF Inv, Ended, Ending
    <3> QED
      BY <2>1, <3>1, <3>2 DEF Alive
  <2> QED
    BY <2>2, <2>3
<1>3. ASSUME NEW m \in Node, s = Server(m)
      PROVE  pc[s] = "exited" \/ (s[2] = -1 /\ N = 1)
  <2>1. N > 1 \/ N = 1
    BY NodesAssumption
  <2> QED
    BY <1>1, <1>3, <2>1 DEF Inv, Ended, Server
<1> QED
  BY <1>2, <1>3, Threads

\* When torc_init returns on node 0, every node is ready to be sent
\* descriptors and to execute them, for any number of nodes and workers.
THEOREM AlwaysReady == Spec => []ReadyBeforeUse
BY InitInv, NextInv, InvImpliesReady, PTL DEF Spec

\* A node calls MPI_Finalize only when all workers and servers of all nodes
\* have ended.
THEOREM AlwaysExitsTogether == Spec => []ExitsTogether
BY InitInv, NextInv, InvImpliesExits, PTL DEF Spec

----------------------------------------------------------------------------
(* With a thread safe library a server ends by a message, which its own    *)
(* node sends when all nodes have entered the barrier before it.           *)

Gone == {"join", "last", "finalized"}

\* The messages that do not end a server.
Calm == {m \in Message : m.type # "TERMINATE_LOCAL"}

\* What may be on its way to the server of n.
Letter(n) == {m \in Message : m.type = "TERMINATE_LOCAL" => At(n) \in Gone}

\* Nodes as torc_register_task computes them.
Place == Node \cup {Min(S) : S \in SUBSET Node}

Outs ==
  /\ out \in [Thread -> [msg : Calm \cup {NULL}, left : SUBSET Place]]
  /\ \A s \in Thread : out[s].left # {} => out[s].msg \in Calm
  /\ registered \in Nat

Link ==
  /\ Outs
  /\ chan \in [Thread \X Node -> Seq(Message)]
  /\ \A s \in Thread, n \in Node : chan[<<s, n>>] \in Seq(Letter(n))
  /\ thread_safe => \A n \in Node : N > 1 /\ pc[Server(n)] = "exited" => At(n) \in Gone

\* No worker 0 comes back from where it has ended its server.
Onward ==
  /\ thread_safe' = thread_safe
  /\ \A n \in Node : At(n) \in Gone => At(n)' \in Gone
  /\ thread_safe => \A n \in Node : pc'[Server(n)] = "exited" =>
                       pc[Server(n)] = "exited" \/ At(n) \in Gone

\* A step loses or adds one message that does not end a server, or none.
Delivery ==
  \/ chan' = chan
  \/ \E c \in Thread \X Node : chan[c] # <<>> /\ chan' = [chan EXCEPT ![c] = Tail(@)]
  \/ \E c : \E m \in Calm : chan' = [chan EXCEPT ![c] = Append(@, m)]

LEMMA CalmMessages ==
  /\ \A f \in Function : Msg("WORK", f) \in Calm
  /\ \A w \in Worker : Msg("STEALING_REQUEST", w) \in Calm
  /\ \A t \in {"ANSWER", "ENABLE_STEALING", "RESET_STATISTICS", "TERMINATE_WORKERS"} :
       Msg(t, NULL) \in Calm
  /\ Calm \subseteq Message /\ Msg("TERMINATE_LOCAL", NULL) \in Message
  /\ \A n \in Node : Calm \subseteq Letter(n) /\ Letter(n) \subseteq Message
BY DEF Msg, Message, Calm, Letter

LEMMA OnwardStill == ASSUME UNCHANGED <<pc, thread_safe>> PROVE Onward
BY DEF Onward, At

LEMMA OnwardWorker ==
  ASSUME Inv, NEW w \in Worker, NEW to \in Stage, Goto(w, to), UNCHANGED thread_safe,
         w[2] = 0 /\ pc[w] \in Gone => to \in Gone
  PROVE  Onward
<1>1. /\ w[1] \in Node /\ w = <<w[1], w[2]>> /\ w[2] \in 0 .. kthreads[w[1]] - 1
  BY Threads
<1>2. CASE w[2] = 0
  <2>1. w = First(w[1])
    BY <1>1, <1>2 DEF First
  <2>2. /\ At(w[1])' = to /\ \A m \in Node \ {w[1]} : At(m)' = At(m)
        /\ \A m \in Node : pc'[Server(m)] = pc[Server(m)]
    BY <1>1, <2>1, FirstGoto DEF Inv
  <2> QED
    BY <1>2, <2>1, <2>2 DEF Onward, At
<1>3. CASE w[2] # 0
  <2>1. w[2] \in 1 .. kthreads[w[1]] - 1
    BY <1>1, <1>3, NodesAssumption
  <2>2. \A m \in Node : At(m)' = At(m) /\ pc'[Server(m)] = pc[Server(m)]
    BY <1>1, <2>1, OtherGoto DEF Inv
  <2> QED
    BY <2>2 DEF Onward
<1> QED
  BY <1>2, <1>3

LEMMA LinkStep ==
  ASSUME Link, Onward, Delivery, Outs' PROVE Link'
<1>1. \A n \in Node : Letter(n) \subseteq Letter(n)'
  BY DEF Letter, Onward
<1>2. /\ chan' \in [Thread \X Node -> Seq(Message)]
      /\ \A s \in Thread, n \in Node : chan'[<<s, n>>] \in Seq(Letter(n))
  <2>1. CASE chan' = chan
    BY <2>1 DEF Link
  <2>2. ASSUME NEW c \in Thread \X Node, chan[c] # <<>>, chan' = [chan EXCEPT ![c] = Tail(@)]
        PROVE  <1>2!:
    <3>1. Tail(chan[c]) \in Seq(Message)
      BY <2>2, HeadTailProperties DEF Link
    <3>2. \A n \in Node : chan[c] \in Seq(Letter(n)) => Tail(chan[c]) \in Seq(Letter(n))
      BY <2>2, HeadTailProperties
    <3> QED
      BY <2>2, <3>1, <3>2 DEF Link
  <2>3. ASSUME NEW c, NEW m \in Calm, chan' = [chan EXCEPT ![c] = Append(@, m)]
        PROVE  <1>2!:
    <3>1. \A q \in Seq(Message) : Append(q, m) \in Seq(Message)
      BY AppendProperties, CalmMessages
    <3>2. \A n \in Node : \A q \in Seq(Letter(n)) : Append(q, m) \in Seq(Letter(n))
      BY AppendProperties, CalmMessages
    <3> QED
      BY <2>3, <3>1, <3>2 DEF Link
  <2> QED
    BY <2>1, <2>2, <2>3 DEF Delivery
<1>3. \A s \in Thread, n \in Node : chan'[<<s, n>>] \in Seq(Letter(n)')
  BY <1>1, <1>2, SeqMonotonic
<1>4. thread_safe' => \A n \in Node : N > 1 /\ pc'[Server(n)] = "exited" => At(n)' \in Gone
  BY DEF Link, Onward
<1> QED
  BY <1>2, <1>3, <1>4 DEF Link

LEMMA LinkWorkerStep ==
  ASSUME Inv, Link, NEW w \in Worker, WorkerStep(w) PROVE Link'
<1>0. w[1] \in Node /\ Loop(w) \in Stage
  BY Threads DEF Loop, Stage
<1> DEFINE Moves == \E to \in Stage : Goto(w, to) /\ pc[w] \notin Gone
<1>1. Onward
  <2>1. ASSUME Moves, thread_safe' = thread_safe PROVE Onward
    BY <2>1, OnwardWorker
  <2>2. CASE WorkerCreated(w)
    BY <2>1, <2>2 DEF WorkerCreated, Gone, Stage
  <2>3. CASE WorkerStarts(w)
    <3>1. (IF w[2] = 0 THEN "start" ELSE "loop") \in Stage
      BY DEF Stage, BarrierStage
    <3> QED
      BY <2>1, <2>3, <3>1 DEF WorkerStarts, Gone, boot
  <2>4. CASE \E f \in Function : TakeTask(w, f)
    BY <2>1, <2>4 DEF TakeTask, Looking, Loop, Gone, Stage, boot
  <2>5. CASE WriteTable(w)
    BY <2>1, <2>5 DEF WriteTable, Gone, Stage, boot
  <2>6. CASE CountFunction(w)
    BY <1>0, <2>1, <2>6 DEF CountFunction, Gone, boot
  <2>7. CASE StartSweep(w)
    BY <2>1, <2>7 DEF StartSweep, Looking, Loop, Gone, Stage, boot
  <2>8. CASE WillAsk(w) \/ AskForWork(w)
    BY <2>1, <2>8 DEF WillAsk, AskForWork, Gone, Stage, boot
  <2>9. CASE SkipVictim(w)
    BY <2>9, OnwardStill DEF SkipVictim, boot
  <2>10. CASE GotTask(w)
    BY <2>1, <2>10 DEF GotTask, Gone, Stage, boot
  <2>11. CASE GotNothing(w)
    BY <2>1, <2>11 DEF GotNothing, Gone, Stage, boot
  <2>12. CASE StopsWaiting(w)
    BY <2>1, <2>12 DEF StopsWaiting, Gone, Stage, boot
  <2>13. CASE Quit(w)
    <3>1. pc[w] \notin Gone
      BY <2>13 DEF Quit, Looking, Loop, Gone
    <3>2. "md_end" \in Stage /\ "exited" \in Stage
      BY DEF Stage
    <3>3. Goto(w, Loop(w)) \/ Goto(w, "md_end") \/ Goto(w, "exited")
      BY <2>13 DEF Quit
    <3> QED
      BY <1>0, <2>1, <2>13, <3>1, <3>2, <3>3 DEF Quit
  <2> QED
    BY <2>2, <2>3, <2>4, <2>5, <2>6, <2>7, <2>8, <2>9, <2>10, <2>11, <2>12, <2>13 DEF WorkerStep
<1>2. Delivery
  <2>1. CASE CountFunction(w)
    <3>1. Msg("ANSWER", NULL) \in Calm
      BY CalmMessages
    <3> QED
      BY <2>1, <3>1 DEF CountFunction, Send, Delivery
  <2>2. CASE AskForWork(w)
    <3>1. Msg("STEALING_REQUEST", w) \in Calm
      BY CalmMessages
    <3> QED
      BY <2>2, <3>1 DEF AskForWork, Send, Delivery
  <2>3. CASE ~CountFunction(w) /\ ~AskForWork(w)
    <3>1. chan' = chan
      BY <2>3 DEF WorkerStep, WorkerCreated, WorkerStarts, TakeTask, WriteTable, StartSweep,
                  WillAsk, SkipVictim, GotTask, GotNothing, StopsWaiting, Quit, net
    <3> QED
      BY <3>1 DEF Delivery
  <2> QED
    BY <2>1, <2>2, <2>3
<1>3. Outs'
  <2>1. out' = out /\ registered' = registered
    BY DEF WorkerStep, WorkerCreated, WorkerStarts, TakeTask, WriteTable, CountFunction, StartSweep,
           WillAsk, AskForWork, SkipVictim, GotTask, GotNothing, StopsWaiting, Quit, net, calls
  <2> QED
    BY <2>1 DEF Link, Outs
<1> QED
  BY <1>1, <1>2, <1>3, LinkStep

LEMMA LinkSendNext ==
  ASSUME Inv, Link, NEW s \in Thread, SendNext(s) PROVE Link'
<1>1. Onward
  BY OnwardStill DEF SendNext, boot
<1>2. Delivery
  <2>1. out[s].msg \in Calm
    BY DEF SendNext, Link, Outs
  <2> QED
    BY <2>1 DEF SendNext, Send, Delivery
<1>3. Outs'
  BY DEF SendNext, Link, Outs, calls
<1> QED
  BY <1>1, <1>2, <1>3, LinkStep

\* The application sends the same to several nodes.
LEMMA OutsSet ==
  ASSUME Outs, NEW s \in Thread, NEW m \in Calm, NEW L \in SUBSET Place,
         out' = [out EXCEPT ![s] = [msg |-> m, left |-> L]], registered' \in Nat
  PROVE  Outs'
BY DEF Outs

LEMMA LinkMainStep ==
  ASSUME Inv, Link, MainStep PROVE Link'
<1>0. /\ Main \in Worker /\ Main \in Thread /\ Others(0) \in SUBSET Place
      /\ "waitall" \in Stage /\ "main" \in Stage /\ "md_end" \in Stage
      /\ "main" \notin Gone /\ "waitall" \notin Gone /\ registered \in Nat
  BY Threads DEF Main, Others, Place, Stage, Gone, Link, Outs
<1>1. ASSUME Outs', chan' = chan, thread_safe' = thread_safe,
             pc' = pc \/ \E to \in Stage : Goto(Main, to) /\ pc[Main] \notin Gone
      PROVE  Link'
  BY <1>0, <1>1, OnwardStill, OnwardWorker, LinkStep DEF Delivery
<1>2. CASE RegisterTask
  <2>1. Msg("WORK", registered + 1) \in Calm
    <3>1. registered + 1 \in Function
      BY <1>0, <1>2, CallsAssumption DEF RegisterTask, Function
    <3> QED
      BY <3>1, CalmMessages
  <2>2. {TargetOf(i) : i \in Others(0)} \in SUBSET Place
    BY DEF TargetOf, GlobalToNode, Place
  <2>3. Outs'
    <3>1. out' = [out EXCEPT ![Main] = [msg |-> Msg("WORK", registered + 1),
                                        left |-> {TargetOf(i) : i \in Others(0)}]]
      BY <1>2 DEF RegisterTask
    <3>2. registered' \in Nat
      BY <1>0, <1>2 DEF RegisterTask
    <3> HIDE DEF RegisterTask
    <3> QED
      BY <1>0, <2>1, <2>2, <3>1, <3>2, OutsSet DEF Link
  <2> QED
    BY <1>0, <1>1, <1>2, <2>3 DEF RegisterTask, MayCall, Calling, boot
<1>3. CASE WaitReturns
  <2>1. Outs'
    BY <1>3 DEF WaitReturns, Link, Outs, net, calls
  <2> QED
    BY <1>0, <1>1, <1>3, <2>1 DEF WaitReturns, boot, net
<1>4. CASE EnableStealing
  <2>1. Outs'
    BY <1>0, <1>4, CalmMessages, OutsSet DEF EnableStealing, Link
  <2> QED
    BY <1>1, <1>4, <2>1 DEF EnableStealing, boot
<1>5. CASE ResetStatistics
  <2>1. Outs'
    <3>1. Main[1] = 0
      BY DEF Main, First
    <3> QED
      BY <1>0, <1>5, <3>1, CalmMessages, OutsSet DEF ResetStatistics, Reset, Link
  <2> QED
    BY <1>1, <1>5, <2>1 DEF ResetStatistics, boot
<1>6. CASE Finalize
  <2>1. Outs'
    BY <1>0, <1>6, CalmMessages, OutsSet DEF Finalize, Link, calls
  <2> QED
    BY <1>0, <1>1, <1>6, <2>1 DEF Finalize, Calling, boot
<1> QED
  BY <1>2, <1>3, <1>4, <1>5, <1>6 DEF MainStep

LEMMA LinkServerStep ==
  ASSUME Inv, Link, NEW n \in Node, ServerStep(n) PROVE Link'
<1>0. Server(n) \in Thread /\ Server(n)[1] = n /\ Others(n) \in SUBSET Place
  BY Threads DEF Server, Others, Place
<1>1. ASSUME NEW s \in Thread, NEW type, Accept(n, s, type) PROVE Delivery
  BY <1>1 DEF Accept, Delivery
<1>2. ASSUME out' = out, registered' = registered PROVE Outs'
  BY <1>2 DEF Link, Outs
<1>3. ASSUME NEW s \in Thread, RecvWork(n, s) PROVE Link'
  BY <1>1, <1>2, <1>3, OnwardStill, LinkStep DEF RecvWork, boot, calls
<1>4. ASSUME NEW s \in Thread, RecvAnswer(n, s) PROVE Link'
  BY <1>1, <1>2, <1>4, OnwardStill, LinkStep DEF RecvAnswer, boot, calls
<1>5. ASSUME NEW s \in Thread, ServeThief(n, s) PROVE Link'
  BY <1>1, <1>2, <1>5, OnwardStill, LinkStep DEF ServeThief, boot, calls
<1>6. ASSUME NEW s \in Thread, RecvEnable(n, s) PROVE Link'
  BY <1>1, <1>2, <1>6, OnwardStill, LinkStep DEF RecvEnable, boot, calls
<1>7. ASSUME NEW s \in Thread, RecvReset(n, s) PROVE Link'
  <2>1. Outs'
    BY <1>0, <1>7, CalmMessages, OutsSet DEF RecvReset, Reset, Link, Outs
  <2> QED
    BY <1>1, <1>7, <2>1, OnwardStill, LinkStep DEF RecvReset, boot
<1>9. ASSUME NEW to \in Served, NEW m \in Node, Goto(Server(n), to)
      PROVE  At(m)' = At(m) /\ (m # n => pc'[Server(m)] = pc[Server(m)])
  BY <1>9, ServerGoto DEF Inv
<1>8. ASSUME NEW s \in Thread, RecvTerminate(n, s) PROVE Link'
  <2>1. Goto(Server(n), "finish") /\ "finish" \in Served /\ UNCHANGED boot
    BY <1>8 DEF RecvTerminate, Served
  <2>2. /\ pc[Server(n)] # "exited" /\ pc'[Server(n)] # "exited"
    BY <1>8, <2>1, ServerGoto DEF RecvTerminate, Accept, Serving, Inv
  <2>3. Onward
    BY <1>9, <2>1, <2>2 DEF Onward, boot
  <2> QED
    BY <1>1, <1>2, <1>8, <2>3, LinkStep DEF RecvTerminate, calls
<1>10. ASSUME NEW s \in Thread, RecvTerminateLocal(n, s) PROVE Link'
  <2>1. At(n) \in Gone
    <3>1. /\ chan[<<s, n>>] \in Seq(Letter(n)) /\ chan[<<s, n>>] # <<>>
          /\ Head(chan[<<s, n>>]).type = "TERMINATE_LOCAL"
      BY <1>10 DEF RecvTerminateLocal, Accept, Link
    <3>2. Head(chan[<<s, n>>]) \in Letter(n)
      BY <3>1, HeadTailProperties
    <3> QED
      BY <3>1, <3>2 DEF Letter
  <2>2. Onward
    BY <1>9, <1>10, <2>1 DEF RecvTerminateLocal, Served, Onward, boot
  <2> QED
    BY <1>1, <1>2, <1>10, <2>2, LinkStep DEF RecvTerminateLocal, calls
<1>11. CASE ServerLeaves(n)
  <2>1. Onward
    BY <1>9, <1>11 DEF ServerLeaves, Served, Onward, boot
  <2> QED
    BY <1>2, <1>11, <2>1, LinkStep DEF ServerLeaves, Delivery, net, calls
<1>12. CASE CountFinished(n)
  <2>1. Goto(Server(n), "serve") /\ "serve" \in Served /\ UNCHANGED boot
    BY <1>12 DEF CountFinished, Served
  <2>2. pc[Server(n)] # "exited" /\ pc'[Server(n)] # "exited"
    BY <1>12, <2>1, ServerGoto DEF CountFinished, Inv
  <2>3. Onward
    BY <1>9, <2>1, <2>2 DEF Onward, boot
  <2> QED
    BY <1>2, <1>12, <2>3, LinkStep DEF CountFinished, Delivery, net, calls
<1> QED
  BY <1>3, <1>4, <1>5, <1>6, <1>7, <1>8, <1>10, <1>11, <1>12 DEF ServerStep

LEMMA LinkFirstStep ==
  ASSUME Inv, Link, NEW n \in Node, FirstStep(n) PROVE Link'
<1>0. First(n) \in Worker /\ First(n) \in Thread /\ First(n)[2] = 0
  BY Threads DEF First
<1>1. Outs'
  BY DEF FirstStep, EnterBarrier, LeaveBarrier, StartThreads, FillNodeInfo, WorkersEnded,
         ShutdownServer, JoinServer, net, calls, Link, Outs
<1>2. thread_safe' = thread_safe
  BY DEF FirstStep, EnterBarrier, LeaveBarrier, StartThreads, FillNodeInfo, WorkersEnded,
         ShutdownServer, JoinServer, boot
<1>3. ASSUME NEW to \in Stage, Goto(First(n), to), At(n) \in Gone => to \in Gone PROVE Onward
  BY <1>0, <1>2, <1>3, OnwardWorker DEF At
<1>4. CASE EnterBarrier(n)
  BY <1>1, <1>2, <1>4, OnwardStill, LinkStep DEF EnterBarrier, Delivery, net
<1>5. CASE LeaveBarrier(n)
  <2>1. At(n) \in BarrierStage /\ Goto(First(n), AfterBarrier(n, At(n)))
    BY <1>5 DEF LeaveBarrier, At, Inv, Together
  <2>2. AfterBarrier(n, At(n)) \in Stage
    BY <2>1, NextStage
  <2>3. At(n) \in Gone => AfterBarrier(n, At(n)) \in Gone
    BY <2>1 DEF AfterBarrier, Gone, BarrierStage
  <2> QED
    BY <1>1, <1>3, <1>5, <2>1, <2>2, <2>3, LinkStep DEF LeaveBarrier, Delivery, net
<1>6. CASE StartThreads(n)
  <2>1. At(n) = "md_init" /\ pc \in [Thread -> Stage]
    BY <1>6 DEF StartThreads, At, Inv, Types
  <2>2. \A m \in Node \ {n} : At(m)' = At(m) /\ pc'[Server(m)] = pc[Server(m)]
    BY <1>6, Threads DEF StartThreads, At, First, Server
  <2>3. pc'[Server(n)] # "exited"
    BY <1>6, Threads DEF StartThreads, Server
  <2>4. Onward
    BY <1>2, <2>1, <2>2, <2>3 DEF Onward, Gone
  <2> QED
    BY <1>1, <1>6, <2>4, LinkStep DEF StartThreads, Delivery, net
<1>7. CASE FillNodeInfo(n)
  <2>1. "up" \in Stage /\ At(n) \notin Gone
    BY <1>7 DEF FillNodeInfo, At, Stage, BarrierStage, Gone
  <2> QED
    BY <1>1, <1>3, <1>7, <2>1, LinkStep DEF FillNodeInfo, Delivery, net
<1>8. CASE WorkersEnded(n)
  <2>1. "end" \in Stage /\ At(n) \notin Gone
    BY <1>8 DEF WorkersEnded, At, Stage, BarrierStage, Gone
  <2> QED
    BY <1>1, <1>3, <1>8, <2>1, LinkStep DEF WorkersEnded, Delivery, net
<1>9. CASE JoinServer(n)
  <2>1. "last" \in Stage /\ "last" \in Gone
    BY DEF Stage, BarrierStage, Gone
  <2> QED
    BY <1>1, <1>3, <1>9, <2>1, LinkStep DEF JoinServer, Delivery, net
<1>10. CASE ShutdownServer(n)
  <2>1. Goto(First(n), "join") /\ "join" \in Stage /\ "join" \in Gone
    BY <1>10 DEF ShutdownServer, Stage, Gone
  <2>2. Onward /\ At(n)' = "join"
    BY <1>3, <2>1, FirstGoto DEF Inv
  <2>3. CASE chan' = chan
    BY <1>1, <2>2, <2>3, LinkStep DEF Delivery
  <2>4. CASE chan' = [chan EXCEPT ![<<First(n), n>>] = Append(@, Msg("TERMINATE_LOCAL", NULL))]
    <3>1. \A m \in Node : Letter(m) \subseteq Letter(m)'
      BY <2>2 DEF Letter, Onward
    <3>2. Msg("TERMINATE_LOCAL", NULL) \in Message /\ Msg("TERMINATE_LOCAL", NULL) \in Letter(n)'
      BY <2>1, <2>2, CalmMessages DEF Letter
    <3>3. \A s \in Thread, m \in Node : chan[<<s, m>>] \in Seq(Letter(m)')
      BY <3>1, SeqMonotonic DEF Link
    <3>4. /\ Append(chan[<<First(n), n>>], Msg("TERMINATE_LOCAL", NULL)) \in Seq(Message)
          /\ Append(chan[<<First(n), n>>], Msg("TERMINATE_LOCAL", NULL)) \in Seq(Letter(n)')
      BY <1>0, <3>2, <3>3, AppendProperties DEF Link
    <3>5. /\ chan' \in [Thread \X Node -> Seq(Message)]
          /\ \A s \in Thread, m \in Node : chan'[<<s, m>>] \in Seq(Letter(m)')
      BY <2>4, <3>3, <3>4 DEF Link
    <3>6. thread_safe' => \A m \in Node : N > 1 /\ pc'[Server(m)] = "exited" => At(m)' \in Gone
      BY <2>2 DEF Link, Onward
    <3> QED
      BY <1>1, <3>5, <3>6 DEF Link
  <2> QED
    BY <1>10, <2>3, <2>4 DEF ShutdownServer, Send
<1> QED
  BY <1>4, <1>5, <1>6, <1>7, <1>8, <1>9, <1>10 DEF FirstStep

LEMMA InitLink == Init => Link
<1> SUFFICES ASSUME Init PROVE Link
  OBVIOUS
<1>1. Outs
  BY DEF Init, Outs, NothingToSend
<1>2. /\ chan \in [Thread \X Node -> Seq(Message)]
      /\ \A s \in Thread, n \in Node : chan[<<s, n>>] \in Seq(Letter(n))
  <2>1. <<>> \in Seq(Message) /\ \A n \in Node : <<>> \in Seq(Letter(n))
    BY EmptySeq
  <2> QED
    BY <2>1 DEF Init
<1>3. \A n \in Node : pc[Server(n)] # "exited"
  BY Threads DEF Init, Server
<1> QED
  BY <1>1, <1>2, <1>3 DEF Link

LEMMA NextLink == Inv /\ Link /\ [Next]_vars => Link'
<1> SUFFICES ASSUME Inv, Link, [Next]_vars PROVE Link'
  OBVIOUS
<1>1. CASE UNCHANGED vars
  <2>1. Outs'
    BY <1>1 DEF vars, net, calls, Link, Outs
  <2> QED
    BY <1>1, <2>1, OnwardStill, LinkStep DEF vars, boot, net, Delivery
<1>2. ASSUME NEW s \in Thread, ThreadStep(s) PROVE Link'
  <2>1. s[1] \in Node
    BY Threads DEF Server
  <2> QED
    BY <1>2, <2>1, LinkSendNext, LinkWorkerStep, LinkFirstStep, LinkMainStep, LinkServerStep
       DEF ThreadStep
<1> QED
  BY <1>1, <1>2 DEF Next

LEMMA LinkImpliesNoOrphan == Inv /\ Link => NoOrphanRequest
<1> SUFFICES ASSUME Inv, Link, thread_safe, NEW n \in Node, NEW w \in Worker,
                    N > 1, pc[Server(n)] = "exited"
             PROVE  pc[w] \in {"exited", "shutdown", "join", "last", "end", "finalized"}
  BY DEF NoOrphanRequest
<1>1. \A m \in Node : At(m) \in Ending
  <2>1. At(n) \in Gone
    BY DEF Link
  <2>2. Done(At(n)) >= 6
    BY <2>1, DoneValues DEF Gone
  <2> QED
    BY <2>2, OthersBehind
<1>2. w[1] \in Node /\ w = <<w[1], w[2]>> /\ w[2] \in 0 .. kthreads[w[1]] - 1
  BY Threads
<1>3. CASE w[2] = 0
  BY <1>1, <1>2, <1>3 DEF At, First, Ending
<1>4. CASE w[2] # 0
  <2>1. w[2] \in 1 .. kthreads[w[1]] - 1
    BY <1>2, <1>4, NodesAssumption
  <2>2. Alive(w[1]) = {}
    BY <1>1, <1>2 DEF Inv, Ended
  <2> QED
    BY <1>2, <2>1, <2>2 DEF Alive
<1> QED
  BY <1>3, <1>4

\* A server that is stopped by a message ends only when no worker of any
\* node can ask it for work any more.
THEOREM AlwaysNoOrphan == Spec => []NoOrphanRequest
BY InitInv, NextInv, InitLink, NextLink, LinkImpliesNoOrphan, PTL DEF Spec

----------------------------------------------------------------------------
(* Minima and sums.                                                        *)

\* A set of natural numbers has a minimum: of the initial segments of the
\* set, one has no proper part among them.
LEMMA Minimum ==
  ASSUME NEW S \in SUBSET Nat, S # {}
  PROVE  Min(S) \in S /\ \A y \in S : Min(S) <= y
<1> DEFINE Upto(x) == {y \in S : y <= x}
           T == {Upto(x) : x \in S}
<1>1. T \subseteq FiniteSubsetsOf(Nat)
  <2> SUFFICES ASSUME NEW x \in S PROVE IsFiniteSet(Upto(x)) /\ Upto(x) \in SUBSET Nat
    BY DEF FiniteSubsetsOf
  <2>1. IsFiniteSet(0 .. x)
    BY FS_Interval
  <2>2. Upto(x) \subseteq 0 .. x
    <3>1. x \in Nat /\ \A y \in S : y \in Nat
      OBVIOUS
    <3> HIDE DEF T
    <3>2. \A y \in Upto(x) : y \in 0 .. x
      BY <3>1
    <3> QED
      BY <3>2
  <2> QED
    BY <2>1, <2>2, FS_Subset
<1>2. T # {}
  OBVIOUS
<1>3. \E X \in T : \A Y \in T : <<Y, X>> \notin StrictSubsetOrdering(Nat)
  <2> HIDE DEF T
  <2> QED
    BY <1>1, <1>2, FS_StrictSubsetOrderingWellFounded, WFMin
<1>4. PICK x \in S : \A y \in S : <<Upto(y), Upto(x)>> \notin StrictSubsetOrdering(Nat)
  BY <1>3
<1>5. \A y \in S : x <= y
  <2> SUFFICES ASSUME NEW y \in S, y < x PROVE FALSE
    OBVIOUS
  <2>1. Upto(y) \subseteq Upto(x) /\ x \in Upto(x) /\ x \notin Upto(y)
    <3>1. x \in Nat /\ \A z \in S : z \in Nat
      OBVIOUS
    <3> HIDE DEF T
    <3>2. \A z \in Upto(y) : z \in S /\ z <= x
      BY <3>1
    <3>3. x <= x /\ ~ (x <= y)
      BY <3>1
    <3>4. x \in Upto(x) /\ x \notin Upto(y)
      BY <3>3
    <3> QED
      BY <3>2, <3>4
  <2>2. Upto(y) \in SUBSET Nat /\ Upto(x) \in SUBSET Nat
    OBVIOUS
  <2> QED
    BY <1>4, <2>1, <2>2 DEF StrictSubsetOrdering
<1> QED
  BY <1>5 DEF Min

\* The sum of a function over a finite set, as MapThenSumSet defines it.
SumOver(f, S) == MapThenSumSet(LAMBDA k : f[k], S)

\* The recursion of MapThenSumSet.
Sums(f, S, iter) ==
  iter = [s \in SUBSET S |->
            IF s = {} THEN 0 ELSE LET x == CHOOSE x \in s : TRUE IN f[x] + iter[s \ {x}]]

\* ... has a solution: for subsets of at most n elements, for every n.
LEMMA SumsExist ==
  ASSUME NEW S, IsFiniteSet(S), NEW f
  PROVE  \E iter : Sums(f, S, iter)
<1> DEFINE Step(g, s) == IF s = {} THEN 0 ELSE LET x == CHOOSE x \in s : TRUE IN f[x] + g[s \ {x}]
           Upto(n, g) == \A s \in SUBSET S : Cardinality(s) <= n => g[s] = Step(g, s)
           Bad == {n \in Nat : ~ \E g : g = [s \in SUBSET S |-> g[s]] /\ Upto(n, g)}
<1>0. \A s \in SUBSET S : /\ IsFiniteSet(s) /\ Cardinality(s) \in Nat
                          /\ Cardinality(s) = 0 <=> s = {}
                          /\ \A x \in s : Cardinality(s \ {x}) = Cardinality(s) - 1
  BY FS_Subset, FS_CardinalityType, FS_EmptySet, FS_RemoveElement
<1>1. Bad = {}
  <2> SUFFICES ASSUME Bad # {} PROVE FALSE
    OBVIOUS
  <2>1. PICK n \in Bad : \A m \in Bad : n <= m
    <3> HIDE DEF Bad
    <3>1. Bad \in SUBSET Nat
      BY DEF Bad
    <3> QED
      BY <3>1, Minimum
  <2>2. n # 0
    <3> DEFINE g == [s \in SUBSET S |-> 0]
    <3>1. g = [s \in SUBSET S |-> g[s]]
      OBVIOUS
    <3>2. Upto(0, g)
      BY <1>0
    <3> HIDE DEF Upto
    <3> QED
      BY <3>1, <3>2
  <2>3. n - 1 \in Nat /\ n - 1 \notin Bad
    <3>1. n \in Nat
      BY DEF Bad
    <3> HIDE DEF Bad
    <3>2. n - 1 \in Nat /\ ~ (n <= n - 1)
      BY <2>2, <3>1
    <3> QED
      BY <2>1, <3>2
  <2>4. PICK g : g = [s \in SUBSET S |-> g[s]] /\ Upto(n - 1, g)
    BY <2>3
  <2> DEFINE h == [s \in SUBSET S |-> Step(g, s)]
  <2>5. h = [s \in SUBSET S |-> h[s]]
    OBVIOUS
  <2>6. \A s \in SUBSET S : Cardinality(s) <= n - 1 => h[s] = g[s]
    BY <2>4
  <2>7. Upto(n, h)
    <3> SUFFICES ASSUME NEW s \in SUBSET S, Cardinality(s) <= n PROVE h[s] = Step(h, s)
      OBVIOUS
    <3>1. CASE s = {}
      BY <3>1
    <3>2. CASE s # {}
      <4> DEFINE x == CHOOSE x \in s : TRUE
      <4>1. x \in s
        BY <3>2
      <4>2. s \ {x} \in SUBSET S /\ Cardinality(s \ {x}) <= n - 1
        BY <1>0, <2>1, <4>1
      <4>3. h[s \ {x}] = g[s \ {x}]
        BY <2>6, <4>2
      <4> QED
        BY <3>2, <4>3
    <3> QED
      BY <3>1, <3>2
  <2> HIDE DEF h, Upto
  <2> QED
    BY <2>1, <2>5, <2>7
<1>2. PICK g : g = [s \in SUBSET S |-> g[s]] /\ Upto(Cardinality(S), g)
  <2>1. Cardinality(S) \in Nat
    BY <1>0
  <2> HIDE DEF Upto
  <2> QED
    BY <1>1, <2>1
<1>3. \A s \in SUBSET S : g[s] = Step(g, s)
  <2>1. \A s \in SUBSET S : Cardinality(s) <= Cardinality(S)
    BY FS_Subset
  <2> QED
    BY <1>2, <2>1
<1>4. g = [s \in SUBSET S |-> Step(g, s)]
  <2>1. \A s \in SUBSET S : g[s] = [t \in SUBSET S |-> Step(g, t)][s]
    BY <1>3
  <2> HIDE DEF Step
  <2> QED
    BY <1>2, <2>1
<1> QED
  BY <1>4 DEF Sums

LEMMA SumsStep ==
  ASSUME NEW S, IsFiniteSet(S), NEW f, NEW iter, Sums(f, S, iter)
  PROVE  /\ iter[{}] = 0
         /\ \A s \in SUBSET S : s # {} =>
              LET x == CHOOSE x \in s : TRUE IN x \in s /\ iter[s] = f[x] + iter[s \ {x}]
<1>1. iter[{}] = 0
  BY DEF Sums
<1>2. ASSUME NEW s \in SUBSET S, s # {}
      PROVE  LET x == CHOOSE x \in s : TRUE IN x \in s /\ iter[s] = f[x] + iter[s \ {x}]
  BY <1>2 DEF Sums
<1> QED
  BY <1>1, <1>2

\* ... which does not depend on the order in which the elements are chosen.
LEMMA SumsOrder ==
  ASSUME NEW S, IsFiniteSet(S), NEW f, \A z \in S : f[z] \in Nat, NEW iter, Sums(f, S, iter)
  PROVE  \A s \in SUBSET S : /\ iter[s] \in Nat
                             /\ \A a \in s : iter[s] = f[a] + iter[s \ {a}]
<1> DEFINE Good(s) == iter[s] \in Nat /\ \A a \in s : iter[s] = f[a] + iter[s \ {a}]
           Bad == {n \in Nat : \E s \in SUBSET S : Cardinality(s) = n /\ ~Good(s)}
<1>0. \A s \in SUBSET S : /\ IsFiniteSet(s) /\ Cardinality(s) \in Nat
                          /\ \A x \in s : Cardinality(s \ {x}) = Cardinality(s) - 1
  BY FS_Subset, FS_CardinalityType, FS_RemoveElement
<1>1. ASSUME NEW s \in SUBSET S, \A t \in SUBSET S : Cardinality(t) < Cardinality(s) => Good(t)
      PROVE  Good(s)
  <2>1. CASE s = {}
    BY <2>1, SumsStep
  <2>2. CASE s # {}
    <3> DEFINE x == CHOOSE x \in s : TRUE
    <3>1. x \in s /\ iter[s] = f[x] + iter[s \ {x}]
      BY <2>2, SumsStep
    <3> HIDE DEF x
    <3>2. s \ {x} \in SUBSET S /\ Good(s \ {x})
      <4>1. s \ {x} \in SUBSET S
        OBVIOUS
      <4>2. Cardinality(s \ {x}) < Cardinality(s)
        BY <1>0, <3>1
      <4> QED
        BY <1>1, <4>1, <4>2
    <3>3. f[x] \in Nat /\ iter[s] \in Nat
      <4>1. iter[s \ {x}] \in Nat
        BY <3>2
      <4>2. f[x] \in Nat
        BY <3>1
      <4> HIDE DEF Good
      <4> QED
        BY <3>1, <4>1, <4>2
    <3>4. ASSUME NEW a \in s PROVE iter[s] = f[a] + iter[s \ {a}]
      <4>1. CASE a = x
        BY <3>1, <4>1
      <4>2. CASE a # x
        <5>1. a \in s \ {x} /\ x \in s \ {a} /\ (s \ {x}) \ {a} = (s \ {a}) \ {x}
          BY <3>1, <4>2
        <5>2. s \ {a} \in SUBSET S /\ Good(s \ {a})
          <6>1. s \ {a} \in SUBSET S
            OBVIOUS
          <6>2. Cardinality(s \ {a}) < Cardinality(s)
            BY <1>0
          <6> QED
            BY <1>1, <6>1, <6>2
        <5>3. iter[s \ {x}] = f[a] + iter[(s \ {x}) \ {a}]
          BY <3>2, <5>1
        <5>4. iter[s \ {a}] = f[x] + iter[(s \ {x}) \ {a}]
          <6>1. iter[s \ {a}] = f[x] + iter[(s \ {a}) \ {x}]
            BY <5>1, <5>2
          <6> QED
            BY <5>1, <6>1
        <5>5. (s \ {x}) \ {a} \in SUBSET S /\ Good((s \ {x}) \ {a})
          <6>1. Cardinality(s \ {x}) = Cardinality(s) - 1
            BY <1>0, <3>1
          <6>2. Cardinality((s \ {x}) \ {a}) = Cardinality(s \ {x}) - 1
            BY <1>0, <3>2, <5>1
          <6>3. Cardinality(s) \in Nat
            BY <1>0
          <6>4. Cardinality((s \ {x}) \ {a}) < Cardinality(s)
            BY <6>1, <6>2, <6>3
          <6>5. (s \ {x}) \ {a} \in SUBSET S
            OBVIOUS
          <6> QED
            BY <1>1, <6>4, <6>5
        <5>6. f[a] \in Nat /\ iter[(s \ {x}) \ {a}] \in Nat
          BY <5>5
        <5> DEFINE u == iter[(s \ {x}) \ {a}]
        <5>7. /\ iter[s] = f[x] + (f[a] + u) /\ iter[s \ {a}] = f[x] + u
              /\ u \in Nat /\ f[a] \in Nat /\ f[x] \in Nat
          BY <3>1, <3>3, <5>3, <5>4, <5>6
        <5> HIDE DEF u
        <5> QED
          BY <5>7
      <4> QED
        BY <4>1, <4>2
    <3> QED
      BY <3>3, <3>4
  <2> QED
    BY <2>1, <2>2
<1>2. Bad = {}
  <2> SUFFICES ASSUME Bad # {} PROVE FALSE
    OBVIOUS
  <2>1. PICK n \in Bad : \A m \in Bad : n <= m
    <3> HIDE DEF Bad
    <3>1. Bad \in SUBSET Nat
      BY DEF Bad
    <3> QED
      BY <3>1, Minimum
  <2>2. PICK s \in SUBSET S : Cardinality(s) = n /\ ~Good(s)
    OBVIOUS
  <2> HIDE DEF Good
  <2>3. ASSUME NEW t \in SUBSET S, Cardinality(t) < n PROVE Good(t)
    <3>1. ~ (n <= Cardinality(t))
      BY <1>0, <2>3
    <3>2. Cardinality(t) \notin Bad
      BY <2>1, <3>1
    <3> QED
      BY <1>0, <3>2
  <2> QED
    BY <1>1, <2>2, <2>3
<1> HIDE DEF Good
<1>3. \A s \in SUBSET S : Good(s)
  BY <1>0, <1>2
<1> QED
  BY <1>3 DEF Good

\* ... and is the same for a part of the set.
LEMMA SumsPart ==
  ASSUME NEW S, IsFiniteSet(S), NEW f, \A z \in S : f[z] \in Nat, NEW iter, Sums(f, S, iter),
         NEW T \in SUBSET S, NEW part, Sums(f, T, part)
  PROVE  iter[T] = part[T]
<1> DEFINE Bad == {n \in Nat : \E s \in SUBSET T : Cardinality(s) = n /\ iter[s] # part[s]}
<1>0. \A s \in SUBSET T : /\ IsFiniteSet(s) /\ Cardinality(s) \in Nat /\ s \in SUBSET S
                          /\ \A x \in s : Cardinality(s \ {x}) = Cardinality(s) - 1
  BY FS_Subset, FS_CardinalityType, FS_RemoveElement
<1>1. ASSUME NEW s \in SUBSET T,
             \A t \in SUBSET T : Cardinality(t) < Cardinality(s) => iter[t] = part[t]
      PROVE  iter[s] = part[s]
  <2>0. IsFiniteSet(T)
    BY FS_Subset
  <2>1. CASE s = {}
    <3>1. iter[{}] = 0
      BY SumsStep
    <3>2. part[{}] = 0
      BY <2>0, SumsStep
    <3> QED
      BY <2>1, <3>1, <3>2
  <2>2. CASE s # {}
    <3> DEFINE x == CHOOSE x \in s : TRUE
    <3>1. x \in s /\ iter[s] = f[x] + iter[s \ {x}]
      BY <2>2, SumsStep
    <3>2. part[s] = f[x] + part[s \ {x}]
      BY <2>0, <2>2, SumsStep
    <3> HIDE DEF x
    <3>3. s \ {x} \in SUBSET T /\ Cardinality(s \ {x}) < Cardinality(s)
      <4>1. Cardinality(s \ {x}) = Cardinality(s) - 1 /\ Cardinality(s) \in Nat
        BY <1>0, <3>1
      <4> QED
        BY <4>1
    <3> QED
      BY <1>1, <3>1, <3>2, <3>3
  <2> QED
    BY <2>1, <2>2
<1>2. Bad = {}
  <2> SUFFICES ASSUME Bad # {} PROVE FALSE
    OBVIOUS
  <2>1. PICK n \in Bad : \A m \in Bad : n <= m
    <3> HIDE DEF Bad
    <3>1. Bad \in SUBSET Nat
      BY DEF Bad
    <3> QED
      BY <3>1, Minimum
  <2>2. PICK s \in SUBSET T : Cardinality(s) = n /\ iter[s] # part[s]
    OBVIOUS
  <2>3. ASSUME NEW t \in SUBSET T, Cardinality(t) < n PROVE iter[t] = part[t]
    <3>1. ~ (n <= Cardinality(t))
      BY <1>0, <2>3
    <3>2. Cardinality(t) \notin Bad
      BY <2>1, <3>1
    <3> QED
      BY <1>0, <3>2
  <2> QED
    BY <1>1, <2>2, <2>3
<1> QED
  BY <1>0, <1>2

LEMMA SumIter ==
  ASSUME NEW S, IsFiniteSet(S), NEW f
  PROVE  \E iter : Sums(f, S, iter) /\ SumOver(f, S) = iter[S]
<1> DEFINE I == CHOOSE iter : Sums(f, S, iter)
<1>1. Sums(f, S, I)
  BY SumsExist
<1>2. SumOver(f, S) = I[S]
  BY DEF SumOver, MapThenSumSet, MapThenFoldSet, Sums
<1> QED
  BY <1>1, <1>2

LEMMA SumEmpty == \A f : SumOver(f, {}) = 0
BY FS_EmptySet, SumIter, SumsStep

\* The sum without one element.
LEMMA SumRemove ==
  ASSUME NEW S, IsFiniteSet(S), NEW f, \A z \in S : f[z] \in Nat, NEW a \in S
  PROVE  /\ SumOver(f, S) \in Nat /\ SumOver(f, S \ {a}) \in Nat
         /\ SumOver(f, S) = f[a] + SumOver(f, S \ {a})
<1> DEFINE T == S \ {a}
<1>1. T \in SUBSET S /\ IsFiniteSet(T)
  BY FS_Subset
<1>2. PICK iter : Sums(f, S, iter) /\ SumOver(f, S) = iter[S]
  BY SumIter
<1>3. PICK part : Sums(f, T, part) /\ SumOver(f, T) = part[T]
  BY <1>1, SumIter
<1>4. iter[T] = part[T]
  BY <1>1, <1>2, <1>3, SumsPart
<1>5. iter[S] \in Nat /\ iter[T] \in Nat /\ iter[S] = f[a] + iter[T]
  BY <1>2, SumsOrder
<1> QED
  BY <1>2, <1>3, <1>4, <1>5

----------------------------------------------------------------------------
(* The numbers of workers, once every node knows those of all nodes.       *)

\* The first worker of a node has the number that follows those of the
\* workers of the node before.
Before(m) == SumOver(kthreads, 0 .. m - 1)

LEMMA BeforeNext ==
  /\ Before(0) = 0
  /\ \A m \in Node : /\ Before(m) \in Nat /\ Before(m + 1) \in Nat
                     /\ Before(m + 1) = Before(m) + kthreads[m]
<1>0. N \in Nat \ {0} /\ \A k \in Node : kthreads[k] \in Nat
  BY NodesAssumption
<1>1. Before(0) = 0
  <2>1. 0 .. 0 - 1 = {}
    OBVIOUS
  <2> QED
    BY <2>1, SumEmpty DEF Before
<1>2. ASSUME NEW m \in Node
      PROVE  /\ Before(m) \in Nat /\ Before(m + 1) \in Nat
             /\ Before(m + 1) = Before(m) + kthreads[m]
  <2>1. m \in Nat /\ m \in 0 .. m /\ 0 .. m \subseteq Node
    BY <1>0 DEF Node
  <2>2. (0 .. m) \ {m} = 0 .. m - 1 /\ 0 .. (m + 1) - 1 = 0 .. m
    <3>1. (m + 1) - 1 = m
      BY <2>1
    <3>2. \A k \in 0 .. m : k # m => k \in 0 .. m - 1
      BY <2>1
    <3>3. \A k \in 0 .. m - 1 : k \in 0 .. m /\ k # m
      BY <2>1
    <3> QED
      BY <2>1, <3>1, <3>2, <3>3
  <2>3. IsFiniteSet(0 .. m) /\ \A k \in 0 .. m : kthreads[k] \in Nat
    BY <1>0, <2>1, FS_Interval
  <2>4. /\ SumOver(kthreads, 0 .. m) \in Nat /\ SumOver(kthreads, (0 .. m) \ {m}) \in Nat
        /\ SumOver(kthreads, 0 .. m) = kthreads[m] + SumOver(kthreads, (0 .. m) \ {m})
    BY <2>1, <2>3, SumRemove
  <2>5. /\ Before(m) = SumOver(kthreads, (0 .. m) \ {m})
        /\ Before(m + 1) = SumOver(kthreads, 0 .. m)
    BY <2>2 DEF Before
  <2> QED
    BY <1>0, <2>4, <2>5
<1> QED
  BY <1>1, <1>2

\* All workers of a node have smaller numbers than those of a later node.
LEMMA BeforeOrder ==
  \A m \in Node : \A n \in Node : m < n => Before(m + 1) <= Before(n)
<1> TAKE m \in Node
<1> DEFINE Bad == {n \in Node : m < n /\ ~ (Before(m + 1) <= Before(n))}
<1>0. Node \subseteq Nat /\ \A n \in Node : n # 0 => n - 1 \in Node
  BY NodesAssumption DEF Node
<1>1. SUFFICES ASSUME Bad # {} PROVE FALSE
  OBVIOUS
<1>2. PICK n \in Bad : \A k \in Bad : n <= k
  <2>1. Bad \in SUBSET Nat
    BY <1>0
  <2> HIDE DEF Bad
  <2> QED
    BY <1>1, <2>1, Minimum
<1>3. n \in Nat /\ n # 0 /\ n - 1 \in Node /\ (n - 1) + 1 = n /\ ~ (n <= n - 1) /\ m \in Nat
  BY <1>0
<1>4. Before(n) = Before(n - 1) + kthreads[n - 1] /\ Before(n - 1) \in Nat /\ Before(n) \in Nat
  BY <1>3, BeforeNext
<1>5. CASE m = n - 1
  BY <1>3, <1>4, <1>5
<1>6. CASE m # n - 1
  <2>1. m < n - 1
    BY <1>3, <1>6
  <2>2. Before(m + 1) <= Before(n - 1) /\ Before(m + 1) \in Nat
    BY <1>2, <1>3, <2>1, BeforeNext
  <2> QED
    BY <1>3, <1>4, <2>2, NodesAssumption
<1> QED
  BY <1>5, <1>6

\* A number between that of the first worker of a node and that of the next
\* node's leads to the node.
LEMMA NodeOfNumber ==
  ASSUME NEW n \in Node, NEW g \in Nat, Before(n) <= g, g < Before(n + 1)
  PROVE  Min({m \in Node : g < Before(m + 1)}) = n
<1> DEFINE S == {m \in Node : g < Before(m + 1)}
<1>1. n \in S /\ S \in SUBSET Nat
  BY NodesAssumption DEF Node
<1>2. Min(S) \in S /\ Min(S) <= n
  BY <1>1, Minimum
<1>3. \A m \in Node : m < n => Before(m + 1) <= g
  <2> TAKE m \in Node
  <2> HAVE m < n
  <2>1. Before(m + 1) \in Nat /\ Before(n) \in Nat /\ Before(m + 1) <= Before(n)
    BY BeforeNext, BeforeOrder
  <2> QED
    BY <2>1
<1>4. ~ (Min(S) < n)
  <2>1. Min(S) \in Node /\ g < Before(Min(S) + 1) /\ Before(Min(S) + 1) \in Nat
    BY <1>2, BeforeNext
  <2> HIDE DEF S
  <2> QED
    BY <1>3, <2>1
<1>5. Min(S) \in Nat /\ n \in Nat
  BY <1>1, <1>2
<1> QED
  BY <1>2, <1>4, <1>5

LEMMA OffsetIsBefore ==
  ASSUME NEW n \in Node, node_info[n] = kthreads
  PROVE  \A m : Offset(n, m) = Before(m)
BY DEF Offset, Workers, Before, SumOver

LEMMA ReadyImpliesIds == ReadyBeforeUse => IdsRoundTrip
<1> SUFFICES ASSUME \A n \in Node : node_info[n] = kthreads, NEW w \in Worker, NEW n \in Node
             PROVE  LET g == LocalToGlobal(w[1], w[2])
                    IN  <<GlobalToNode(n, g), GlobalToLocal(n, g)>> = w
  BY DEF ReadyBeforeUse, IdsRoundTrip
<1> DEFINE g == LocalToGlobal(w[1], w[2])
<1>1. w[1] \in Node /\ w[2] \in 0 .. kthreads[w[1]] - 1 /\ w = <<w[1], w[2]>>
  BY Threads
<1>2. g = Before(w[1]) + w[2]
  BY <1>1, OffsetIsBefore DEF LocalToGlobal
<1>3. g \in Nat /\ Before(w[1]) <= g /\ g < Before(w[1] + 1)
  BY <1>1, <1>2, BeforeNext, NodesAssumption
<1> HIDE DEF g
<1>4. GlobalToNode(n, g) = w[1]
  BY <1>1, <1>3, OffsetIsBefore, NodeOfNumber DEF GlobalToNode
<1>5. GlobalToLocal(n, g) = w[2]
  BY <1>1, <1>2, <1>4, OffsetIsBefore, BeforeNext, NodesAssumption DEF GlobalToLocal
<1> QED
  BY <1>1, <1>4, <1>5 DEF g

\* Global numbers name each worker once and lead back to it, for any number
\* of nodes and any numbers of workers.
THEOREM NumbersRoundTrip == Spec => []IdsRoundTrip
BY AlwaysReady, ReadyImpliesIds, PTL

=============================================================================
