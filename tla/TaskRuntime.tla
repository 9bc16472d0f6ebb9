----------------------------- MODULE TaskRuntime -----------------------------
(***************************************************************************)
(* The task runtime across nodes: creation of tasks and their placement in *)
(* the ready queues of a node, the scheduling loop of the workers, waiting *)
(* with other tasks run in between, work stealing between nodes, direct    *)
(* execution in the server thread, and the answers that complete tasks far *)
(* from home.                                                              *)
(*                                                                         *)
(* A node has workers and one server thread.  Its ready queues are         *)
(* private_grq and public_grq[0..NumLevels-1].  A worker's stack holds the *)
(* tasks it is inside of: the one on top runs, the others are waiting, for *)
(* a waiting task lends its worker to the scheduling loop.  Messages       *)
(* between two threads keep their order (MPI does not let two messages of  *)
(* one sender with one tag overtake each other); messages of different     *)
(* threads do not.                                                         *)
(*                                                                         *)
(* A descriptor is modelled by the task it stands for: the copies made by  *)
(* sending it are the same task, and what the copies agree on is desc[t].  *)
(* The arguments are left out, and so is the end of the application.       *)
(***************************************************************************)
EXTENDS Integers, SequencesExt

CONSTANTS
  N,           \* number of nodes
  Worker,      \* worker threads of all nodes
  node_of,     \* the node of each worker
  Main,        \* the worker that runs the main program
  Root,        \* the main program's descriptor
  Task,        \* the tasks the application may create
  NumLevels,   \* number of public queues of a node (10 in the code)
  Calls,       \* what the application calls, besides torc_waitall
  MaxToggles,  \* bound on the calls that switch stealing on or off
  NULL         \* no task, no worker, no parent

Node  == 0 .. N - 1
Frame == Task \cup {Root}

\* What the model keeps of a torc_t.
TaskDesc == [parent : Frame \cup {NULL}, homenode : Node, level : Nat, direct : BOOLEAN]

AllCalls == {"torc_task", "torc_task_detached", "torc_task_direct",
             "torc_waitall3", "torc_fetch_work", "stealing"}

ASSUME NodesAssumption  == N \in Nat \ {0} /\ Worker # {} /\ node_of \in [Worker -> Node]
ASSUME MainAssumption   == Main \in Worker /\ node_of[Main] = 0
ASSUME TasksAssumption  == IsFiniteSet(Task) /\ Root \notin Task
ASSUME LevelsAssumption == NumLevels \in Nat \ {0}
ASSUME CallsAssumption  == Calls \subseteq AllCalls /\ MaxToggles \in Nat
ASSUME NamesAssumption  ==
  /\ NULL \notin Task \cup {Root} \cup Worker \cup TaskDesc
  /\ Worker \cap (Task \cup {Root}) = {}
  /\ Worker \cap Node = {}
  /\ "TORC_NO_WORK" \notin Task \cup {NULL}

VARIABLES
  desc,               \* descriptor of each task; NULL before it is created
  ndep,               \* join counter of each task and of the main program
  forked,             \* history: has it created tasks it has not waited for?
  private_grq,        \* private queue of each node
  public_grq,         \* public queues of each node, by level
  chan,               \* chan[<<s, n>>]: descriptors sent by thread s to the server of n
  reply,              \* the answer to a worker's stealing request, not yet received
  stack,              \* the tasks each worker is inside of
  pc,                 \* where each worker is
  at,                 \* how far a worker is in get_next_task
  victim,             \* the node a worker is about to steal from
  hand,               \* the task torc_fetch_work has in hand
  internode_m,        \* owner of each node's internode_m
  internode_stealing, \* the flag of each node
  serving,            \* what each server is busy with: a direct task, a thief, or NULL
  scan_at,            \* how far a server is in its search for a task to give away
  toggles             \* calls made that switch stealing, up to MaxToggles

queues  == <<private_grq, public_grq>>
net     == <<chan, reply>>
workers == <<stack, pc, at, victim, hand>>
nodes   == <<internode_m, internode_stealing, serving, scan_at, toggles>>
vars    == <<desc, ndep, forked, queues, net, workers, nodes>>

----------------------------------------------------------------------------
(* Threads, queues and channels.                                           *)

\* A server thread is named by its node.
Thread == Worker \cup Node

Here(s) == IF s \in Worker THEN node_of[s] ELSE s

\* Positions of get_next_task: the private queue, then the public queues
\* from the last level to level 0, then the stealing flag, then the victims.
PrivateQueue == NumLevels
FlagTest     == -1
StealLoop    == -2

Message ==
       [type : {"TORC_NORMAL_ENQUEUE", "TORC_ANSWER"}, arg : Task]
  \cup [type : {"STEALING_REQUEST"}, arg : Worker]
  \cup [type : {"ENABLE_STEALING", "DISABLE_STEALING"}, arg : {NULL}]

Msg(type, arg) == [type |-> type, arg |-> arg]

\* The public queue for a task of a given level.
PublicLevel(level) ==
  IF level <= 1 THEN 0
  ELSE IF level >= NumLevels + 1 THEN NumLevels - 1
  ELSE level - 1

Send(s, n, m) == chan' = [chan EXCEPT ![<<s, n>>] = Append(@, m)]

IsHead(s, n, type) == chan[<<s, n>>] # <<>> /\ Head(chan[<<s, n>>]).type = type

Receive(s, n) == chan' = [chan EXCEPT ![<<s, n>>] = Tail(@)]

\* Variant of Dequeue: the head is read and stays linked.
DequeueKeepsHead(q) == q

\* What _dequeue leaves of a queue whose head it returns.
Dequeue(q) == Tail(q)

ToPublic(n, t, level) ==
  public_grq' = [public_grq EXCEPT ![n][PublicLevel(level)] = Append(@, t)]

Init ==
  /\ desc = [t \in Task |-> NULL]
  /\ ndep = [f \in Frame |-> 0]
  /\ forked = [f \in Frame |-> 0]
  /\ private_grq = [n \in Node |-> <<>>]
  /\ public_grq = [n \in Node |-> [l \in 0 .. NumLevels - 1 |-> <<>>]]
  /\ chan = [c \in Thread \X Node |-> <<>>]
  /\ reply = [w \in Worker |-> NULL]
  /\ stack = [w \in Worker |-> IF w = Main THEN <<Root>> ELSE <<>>]
  /\ pc = [w \in Worker |-> IF w = Main THEN "run" ELSE "scan"]
  /\ at = [w \in Worker |-> PrivateQueue]
  /\ victim = [w \in Worker |-> NULL]
  /\ hand = [w \in Worker |-> NULL]
  /\ internode_m = [n \in Node |-> NULL]
  /\ internode_stealing = [n \in Node |-> FALSE]
  /\ serving = [n \in Node |-> NULL]
  /\ scan_at = [n \in Node |-> 0]
  /\ toggles = 0

Self(w) == Last(stack[w])

Goto(w, to) == pc' = [pc EXCEPT ![w] = to]

\* get_next_task starts again, for the purpose p.
Search(w, p) == Goto(w, p) /\ at' = [at EXCEPT ![w] = PrivateQueue]

----------------------------------------------------------------------------
(* The application: calls made by the task on top of a worker's stack.     *)

LevelOf(f) == IF f = Root THEN 0 ELSE desc[f].level

\* Variant of GuardedNdep: a unit is added at every creation.
GuardAlways(d) == d + 1

GuardedNdep(d) == IF d = 0 THEN 1 ELSE d

\* Variant of BlockNdep: the guard is not given up.
BlockKeepsGuard(d) == d

BlockNdep(d) == IF d - 1 < 0 THEN 0 ELSE d - 1

\* The bounded pool has a task left for one more creation.
Spare ==
  Cardinality({t \in Task : desc[t] = NULL}) > Cardinality({w \in Worker : pc[w] = "create"})

\* torc_task and torc_task_direct, first half: the join counter.
CountChild(w) ==
  /\ pc[w] = "run"
  /\ {"torc_task", "torc_task_direct"} \cap Calls # {}
  /\ Spare
  /\ ndep' = [ndep EXCEPT ![Self(w)] = GuardedNdep(@) + 1]
  /\ forked' = [forked EXCEPT ![Self(w)] = 1]
  /\ Goto(w, "create")
  /\ UNCHANGED <<desc, queues, net, stack, at, victim, hand, nodes>>

\* Variant of Place: no return after the message is sent.
PlaceTwice(s, t, n) ==
  /\ ToPublic(Here(s), t, desc'[t].level)
  /\ IF n = Here(s) THEN UNCHANGED chan ELSE Send(s, n, Msg("TORC_NORMAL_ENQUEUE", t))

\* A new task t of thread s goes to the queue of node n, here or by message.
Place(s, t, n) ==
  IF n = Here(s)
    THEN ToPublic(n, t, desc'[t].level) /\ UNCHANGED chan
    ELSE Send(s, n, Msg("TORC_NORMAL_ENQUEUE", t)) /\ UNCHANGED public_grq

NewDesc(t, p, home, level, direct) ==
  /\ desc[t] = NULL
  /\ desc' = [desc EXCEPT ![t] = [parent |-> p, homenode |-> home,
                                  level |-> level, direct |-> direct]]

\* Second half: the descriptor is filled in and placed on some node (the
\* next worker in turn, or the one the caller names).
EnqueueChild(w, t, n, direct) ==
  /\ pc[w] = "create"
  /\ (IF direct THEN "torc_task_direct" ELSE "torc_task") \in Calls
  /\ NewDesc(t, Self(w), node_of[w], LevelOf(Self(w)) + 1, direct)
  /\ Place(w, t, n)
  /\ Goto(w, "run")
  /\ UNCHANGED <<ndep, forked, private_grq, reply, stack, at, victim, hand, nodes>>

\* torc_task_detached: no parent, no count, level 0.
CreateDetached(w, t, n) ==
  /\ pc[w] = "run"
  /\ "torc_task_detached" \in Calls
  /\ Spare
  /\ NewDesc(t, NULL, node_of[w], 0, FALSE)
  /\ Place(w, t, n)
  /\ UNCHANGED <<ndep, forked, private_grq, reply, workers, nodes>>

\* torc_waitall: gives up the guard and enters the loop of _torc_block.
WaitAll(w) ==
  /\ pc[w] = "run"
  /\ ndep' = [ndep EXCEPT ![Self(w)] = BlockNdep(@)]
  /\ forked' = [forked EXCEPT ![Self(w)] = 0]
  /\ Goto(w, "check")
  /\ UNCHANGED <<desc, queues, net, stack, at, victim, hand, nodes>>

\* Variant of MayReturn: off by one.
MayReturnEarly(f) == ndep[f] <= 1

MayReturn(f) == ndep[f] <= 0

\* The test of the loop: back to the caller, or run something else.
CheckDeps(w) ==
  /\ pc[w] = "check"
  /\ IF MayReturn(Self(w)) THEN Goto(w, "run") ELSE Goto(w, "scan")
  /\ UNCHANGED <<desc, ndep, forked, queues, net, stack, at, victim, hand, nodes>>

\* Tasks that wait in some ready queue.
Queued == (UNION {Range(private_grq[n]) : n \in Node})
     \cup (UNION {Range(public_grq[n][l]) : n \in Node, l \in 0 .. NumLevels - 1})

\* Tasks in a message, as work or as an answer.
Travelling == {m.arg : m \in UNION {Range(chan[c]) : c \in Thread \X Node}} \cap Task

\* Tasks that exist and are not finished: something in the system holds them.
Outstanding ==
  Task \cap (Queued \cup Travelling \cup Range(reply) \cup Range(hand) \cup Range(serving)
             \cup (UNION {Range(stack[w]) : w \in Worker}))

ChildrenOf(f) == {t \in Outstanding : desc[t].parent = f}

\* torc_waitall3 runs no task while it waits.  An application may use it
\* after creating tasks that run in another node's server thread, and there
\* only: with any other child the caller may be the one that has to run it.
SpinWait(w) ==
  /\ pc[w] = "run"
  /\ "torc_waitall3" \in Calls
  /\ forked[Self(w)] = 1
  /\ \A t \in ChildrenOf(Self(w)) : desc[t].direct /\ t \in Travelling \cup Range(serving)
  /\ ndep' = [ndep EXCEPT ![Self(w)] = @ - 1]
  /\ forked' = [forked EXCEPT ![Self(w)] = 0]
  /\ Goto(w, "spin")
  /\ UNCHANGED <<desc, queues, net, stack, at, victim, hand, nodes>>

SpinReturn(w) ==
  /\ pc[w] = "spin"
  /\ ndep[Self(w)] = 0
  /\ Goto(w, "run")
  /\ UNCHANGED <<desc, ndep, forked, queues, net, stack, at, victim, hand, nodes>>

\* torc_fetch_work: looks for a task to put into the private queue.
FetchWork(w) ==
  /\ pc[w] = "run"
  /\ "torc_fetch_work" \in Calls
  /\ Goto(w, "fetch")
  /\ UNCHANGED <<desc, ndep, forked, queues, net, stack, at, victim, hand, nodes>>

Stash(w) ==
  /\ pc[w] = "stash"
  /\ private_grq' = [private_grq EXCEPT ![node_of[w]] = Append(@, hand[w])]
  /\ hand' = [hand EXCEPT ![w] = NULL]
  /\ Goto(w, "run")
  /\ UNCHANGED <<desc, ndep, forked, public_grq, net, stack, at, victim, nodes>>

\* torc_enable_stealing and torc_disable_stealing: the flag of this node at
\* once, those of the others by message.
SwitchStealing(w, on) ==
  /\ pc[w] = "run"
  /\ "stealing" \in Calls
  /\ toggles < MaxToggles
  /\ toggles' = toggles + 1
  /\ internode_stealing' = [internode_stealing EXCEPT ![node_of[w]] = on]
  /\ LET m == Msg(IF on THEN "ENABLE_STEALING" ELSE "DISABLE_STEALING", NULL)
     IN  chan' = [c \in Thread \X Node |->
                    IF c[1] = w /\ c[2] # node_of[w] THEN Append(chan[c], m) ELSE chan[c]]
  /\ UNCHANGED <<desc, ndep, forked, queues, reply, workers, internode_m, serving, scan_at>>

\* The body of a task returns.  An application joins what it created first.
Return(w) ==
  /\ pc[w] = "run"
  /\ Self(w) # Root
  /\ forked[Self(w)] = 0
  /\ Goto(w, "clean")
  /\ UNCHANGED <<desc, ndep, forked, queues, net, stack, at, victim, hand, nodes>>

\* Variant of DepSatisfy: nobody is told.
DepForgotten(t) == UNCHANGED ndep

\* The parent's counter after t has finished, if t has a parent.
DepSatisfy(t) ==
  ndep' = [f \in Frame |-> IF f = desc[t].parent THEN ndep[f] - 1 ELSE ndep[f]]

----------------------------------------------------------------------------
(* The scheduling loop of the workers.                                     *)

\* What follows the task a worker has just finished: the wait it was run in,
\* or the worker's own loop.
Resume(w, below) == Goto(w, IF below = <<>> THEN "scan" ELSE "check")

\* _torc_cleanup: an answer to the home node, or the count of the parent.
Cleanup(w) ==
  LET t == Self(w)
  IN  /\ pc[w] = "clean"
      /\ IF desc[t].homenode = node_of[w]
           THEN DepSatisfy(t) /\ UNCHANGED chan
           ELSE Send(w, desc[t].homenode, Msg("TORC_ANSWER", t)) /\ UNCHANGED ndep
      /\ stack' = [stack EXCEPT ![w] = Front(@)]
      /\ Resume(w, Front(stack[w]))
      /\ UNCHANGED <<desc, forked, queues, reply, at, victim, hand, nodes>>

Searching(w) == pc[w] \in {"scan", "rescan", "fetch"}

\* get_next_task returns t: it is executed, or kept for the private queue.
Take(w, t) ==
  /\ at' = [at EXCEPT ![w] = PrivateQueue]
  /\ victim' = [victim EXCEPT ![w] = NULL]
  /\ IF pc[w] = "fetch"
       THEN Goto(w, "stash") /\ hand' = [hand EXCEPT ![w] = t] /\ UNCHANGED stack
       ELSE Goto(w, "run") /\ stack' = [stack EXCEPT ![w] = Append(@, t)] /\ UNCHANGED hand

\* get_next_task returns NULL: the loop asks twice before it gives up, and
\* an idle worker never does.
NotFound(w) ==
  /\ at' = [at EXCEPT ![w] = PrivateQueue]
  /\ victim' = [victim EXCEPT ![w] = NULL]
  /\ Goto(w, CASE pc[w] = "scan" -> "rescan"
               [] pc[w] = "rescan" -> IF stack[w] = <<>> THEN "rescan" ELSE "check"
               [] pc[w] = "fetch" -> "run")
  /\ UNCHANGED <<stack, hand>>

TakePrivate(w) ==
  LET n == node_of[w]
  IN  /\ Searching(w) /\ at[w] = PrivateQueue
      /\ private_grq[n] # <<>>
      /\ Take(w, Head(private_grq[n]))
      /\ private_grq' = [private_grq EXCEPT ![n] = Dequeue(@)]
      /\ UNCHANGED <<desc, ndep, forked, public_grq, net, nodes>>

TakePublic(w) ==
  LET n == node_of[w]
      l == at[w]
  IN  /\ Searching(w) /\ l \in 0 .. NumLevels - 1
      /\ public_grq[n][l] # <<>>
      /\ Take(w, Head(public_grq[n][l]))
      /\ public_grq' = [public_grq EXCEPT ![n][l] = Dequeue(@)]
      /\ UNCHANGED <<desc, ndep, forked, private_grq, net, nodes>>

EmptyAt(w) ==
  IF at[w] = PrivateQueue THEN private_grq[node_of[w]] = <<>>
                          ELSE public_grq[node_of[w]][at[w]] = <<>>

NextQueue(w) ==
  /\ Searching(w) /\ at[w] >= 0
  /\ EmptyAt(w)
  /\ at' = [at EXCEPT ![w] = @ - 1]
  /\ UNCHANGED <<desc, ndep, forked, queues, net, stack, pc, victim, hand, nodes>>

NextNode(n) == (n + 1) % N

\* The queues of the node are empty: is stealing on?
TestFlag(w) ==
  /\ Searching(w) /\ at[w] = FlagTest
  /\ IF internode_stealing[node_of[w]]
       THEN /\ at' = [at EXCEPT ![w] = StealLoop]
            /\ victim' = [victim EXCEPT ![w] = NextNode(node_of[w])]
            /\ UNCHANGED <<stack, pc, hand>>
       ELSE NotFound(w)
  /\ UNCHANGED <<desc, ndep, forked, queues, net, nodes>>

\* Variant of LockFree: internode_m is not taken into account.
NoLock(n) == TRUE

LockFree(n) == internode_m[n] = NULL

\* direct_synchronous_stealing_request, up to the wait for the reply:
\* internode_m is held from here to the reply.
StealRequest(w) ==
  LET n == node_of[w]
  IN  /\ Searching(w) /\ at[w] = StealLoop
      /\ victim[w] # n
      /\ LockFree(n)
      /\ internode_m' = [internode_m EXCEPT ![n] = w]
      /\ Send(w, victim[w], Msg("STEALING_REQUEST", w))
      /\ UNCHANGED <<desc, ndep, forked, queues, reply, workers,
                     internode_stealing, serving, scan_at, toggles>>

StealReply(w) ==
  LET n == node_of[w]
  IN  /\ internode_m[n] = w
      /\ reply[w] # NULL
      /\ IF reply[w] \in Task
           THEN Take(w, reply[w])
           ELSE /\ victim' = [victim EXCEPT ![w] = NextNode(@)]
                /\ UNCHANGED <<stack, pc, at, hand>>
      /\ reply' = [reply EXCEPT ![w] = NULL]
      /\ internode_m' = [internode_m EXCEPT ![n] = NULL]
      /\ UNCHANGED <<desc, ndep, forked, queues, chan,
                     internode_stealing, serving, scan_at, toggles>>

\* No node has work to give: stealing is switched off here.
StealNothing(w) ==
  /\ Searching(w) /\ at[w] = StealLoop
  /\ victim[w] = node_of[w]
  /\ internode_stealing' = [internode_stealing EXCEPT ![node_of[w]] = FALSE]
  /\ NotFound(w)
  /\ UNCHANGED <<desc, ndep, forked, queues, net, internode_m, serving, scan_at, toggles>>

----------------------------------------------------------------------------
(* The server thread of a node.                                            *)

\* Work from another node: into the public queue, or executed at once.
RecvEnqueue(n, s) ==
  LET t == Head(chan[<<s, n>>]).arg
  IN  /\ serving[n] = NULL
      /\ IsHead(s, n, "TORC_NORMAL_ENQUEUE")
      /\ Receive(s, n)
      /\ IF desc[t].direct
           THEN serving' = [serving EXCEPT ![n] = t] /\ UNCHANGED public_grq
           ELSE ToPublic(n, t, desc[t].level) /\ UNCHANGED serving
      /\ UNCHANGED <<desc, ndep, forked, private_grq, reply, workers,
                     internode_m, internode_stealing, scan_at, toggles>>

\* A task executed by the server has no descriptor of its own to count
\* children in; it can create detached tasks.
DirectCreate(n, t, to) ==
  /\ serving[n] \in Task
  /\ "torc_task_detached" \in Calls
  /\ Spare
  /\ NewDesc(t, NULL, n, 0, FALSE)
  /\ Place(n, t, to)
  /\ UNCHANGED <<ndep, forked, private_grq, reply, workers, nodes>>

DirectDone(n) ==
  /\ serving[n] \in Task
  /\ Send(n, desc[serving[n]].homenode, Msg("TORC_ANSWER", serving[n]))
  /\ serving' = [serving EXCEPT ![n] = NULL]
  /\ UNCHANGED <<desc, ndep, forked, queues, reply, workers,
                 internode_m, internode_stealing, scan_at, toggles>>

RecvAnswer(n, s) ==
  /\ serving[n] = NULL
  /\ IsHead(s, n, "TORC_ANSWER")
  /\ Receive(s, n)
  /\ DepSatisfy(Head(chan[<<s, n>>]).arg)
  /\ UNCHANGED <<desc, forked, queues, reply, workers, nodes>>

\* A thief asks: the public queues are searched from level 0 up.
RecvSteal(n, s) ==
  /\ serving[n] = NULL
  /\ IsHead(s, n, "STEALING_REQUEST")
  /\ Receive(s, n)
  /\ serving' = [serving EXCEPT ![n] = Head(chan[<<s, n>>]).arg]
  /\ scan_at' = [scan_at EXCEPT ![n] = 0]
  /\ UNCHANGED <<desc, ndep, forked, queues, reply, workers,
                 internode_m, internode_stealing, toggles>>

Answer(n, r) ==
  /\ reply' = [reply EXCEPT ![serving[n]] = r]
  /\ serving' = [serving EXCEPT ![n] = NULL]
  /\ scan_at' = [scan_at EXCEPT ![n] = 0]

\* Variant of LastLevel: the search runs over the end of the array.
LastLevelPlusOne == NumLevels

LastLevel == NumLevels - 1

StealScan(n) ==
  LET q == public_grq[n][scan_at[n]]
  IN  /\ serving[n] \in Worker
      /\ \/ /\ q # <<>>
            /\ Answer(n, Head(q))
            /\ public_grq' = [public_grq EXCEPT ![n][scan_at[n]] = Dequeue(q)]
         \/ /\ q = <<>> /\ scan_at[n] < LastLevel
            /\ scan_at' = [scan_at EXCEPT ![n] = @ + 1]
            /\ UNCHANGED <<reply, serving, public_grq>>
         \/ /\ q = <<>> /\ scan_at[n] = LastLevel
            /\ Answer(n, "TORC_NO_WORK")
            /\ UNCHANGED public_grq
      /\ UNCHANGED <<desc, ndep, forked, private_grq, chan, workers,
                     internode_m, internode_stealing, toggles>>

RecvSwitch(n, s) ==
  /\ serving[n] = NULL
  /\ IsHead(s, n, "ENABLE_STEALING") \/ IsHead(s, n, "DISABLE_STEALING")
  /\ Receive(s, n)
  /\ internode_stealing' =
       [internode_stealing EXCEPT ![n] = Head(chan[<<s, n>>]).type = "ENABLE_STEALING"]
  /\ UNCHANGED <<desc, ndep, forked, queues, reply, workers,
                 internode_m, serving, scan_at, toggles>>

----------------------------------------------------------------------------
Call(w) ==
  \/ CountChild(w) \/ WaitAll(w) \/ SpinWait(w) \/ FetchWork(w) \/ Return(w)
  \/ \E t \in Task, n \in Node : CreateDetached(w, t, n)
  \/ \E on \in BOOLEAN : SwitchStealing(w, on)

Enqueue(w) == \E t \in Task, n \in Node, direct \in BOOLEAN : EnqueueChild(w, t, n, direct)

\* What a worker does inside the library, once a call is made.
Library(w) ==
  \/ Enqueue(w) \/ CheckDeps(w) \/ SpinReturn(w) \/ Stash(w) \/ Cleanup(w)
  \/ TakePrivate(w) \/ TakePublic(w) \/ NextQueue(w) \/ TestFlag(w)
  \/ StealRequest(w) \/ StealReply(w) \/ StealNothing(w)

Server(n) ==
  \/ StealScan(n) \/ DirectDone(n)
  \/ \E s \in Thread : \/ RecvEnqueue(n, s) \/ RecvAnswer(n, s)
                       \/ RecvSteal(n, s) \/ RecvSwitch(n, s)

Next ==
  \/ \E w \in Worker : Call(w) \/ Library(w)
  \/ \E n \in Node : \/ Server(n)
                     \/ \E t \in Task, to \in Node : DirectCreate(n, t, to)

Spec == Init /\ [][Next]_vars

(***************************************************************************)
(* Fairness.  Threads keep running, and the body of a task comes to an     *)
(* end: it does not go on fetching work for ever without waiting for what  *)
(* it has created, or returning (strong fairness, because it may make      *)
(* other calls in between).  The main program need not do anything more    *)
(* once it has waited.                                                     *)
(***************************************************************************)
Finish(w) == pc[w] = "run" /\ ((forked[Self(w)] = 1 /\ WaitAll(w)) \/ Return(w))

Fairness ==
  /\ \A w \in Worker : WF_vars(Library(w)) /\ SF_vars(Finish(w))
  /\ \A n \in Node : WF_vars(Server(n))

FairSpec == Spec /\ Fairness

----------------------------------------------------------------------------
(* Properties.                                                             *)

Levels   == 0 .. NumLevels - 1
WorkerPC == {"run", "create", "check", "spin", "scan", "rescan", "fetch", "stash", "clean"}

\* Every component has its type.
TypeOK ==
  /\ desc \in [Task -> TaskDesc \cup {NULL}]
  /\ ndep \in [Frame -> Int]
  /\ forked \in [Frame -> 0 .. 1]
  /\ private_grq \in [Node -> Seq(Task)]
  /\ public_grq \in [Node -> [Levels -> Seq(Task)]]
  /\ chan \in [Thread \X Node -> Seq(Message)]
  /\ reply \in [Worker -> Task \cup {NULL, "TORC_NO_WORK"}]
  /\ stack \in [Worker -> Seq(Frame)]
  /\ pc \in [Worker -> WorkerPC]
  /\ at \in [Worker -> StealLoop .. PrivateQueue]
  /\ victim \in [Worker -> Node \cup {NULL}]
  /\ hand \in [Worker -> Task \cup {NULL}]
  /\ internode_m \in [Node -> Worker \cup {NULL}]
  /\ internode_stealing \in [Node -> BOOLEAN]
  /\ serving \in [Node -> Task \cup Worker \cup {NULL}]
  /\ scan_at \in [Node -> Levels]
  /\ toggles \in 0 .. MaxToggles

\* Where a sequence q, called name, holds t.
Slots(name, q, t) == {<<name, i>> : i \in {j \in DOMAIN q : q[j] = t}}

\* Every place of the system where task t is.
Holders(t) ==
       (UNION {Slots(<<"private", n>>, private_grq[n], t) : n \in Node})
  \cup (UNION {Slots(<<"public", n, l>>, public_grq[n][l], t) : n \in Node, l \in Levels})
  \cup (UNION {Slots(<<"chan", c>>, [i \in DOMAIN chan[c] |-> chan[c][i].arg], t)
                 : c \in Thread \X Node})
  \cup (UNION {Slots(<<"stack", w>>, stack[w], t) : w \in Worker})
  \cup {<<"reply", w>> : w \in {v \in Worker : reply[v] = t}}
  \cup {<<"hand", w>> : w \in {v \in Worker : hand[v] = t}}
  \cup {<<"serving", n>> : n \in {m \in Node : serving[m] = t}}

\* A task is in one place at a time, over all queues, messages and threads
\* of all nodes: stealing, fetching and sending move a descriptor, they
\* never duplicate it, so no task can be run twice.
OneHolder == \A t \in Task : Cardinality(Holders(t)) <= 1

\* The creation f has begun: counted, not placed yet.
Creating(f) == {w \in Worker : pc[w] = "create" /\ Self(w) = f}

\* Whoever runs them and wherever, the tasks that are not finished are what
\* their parents count: the local decrement and the one made by an answer
\* happen once per task, and no counter is ever negative.
JoinCount ==
  \A f \in Frame :
    ndep[f] = forked[f] + Cardinality(Creating(f)) + Cardinality(ChildrenOf(f))

\* The descriptor of the parent of an unfinished task is in use, on the
\* task's home node: the pointer desc->parent, which travels with the task
\* and comes back in its answer, is still good when it is followed there.
ParentAlive ==
  \A t \in Outstanding :
    desc[t].parent # NULL =>
      \E w \in Worker : /\ node_of[w] = desc[t].homenode
                        /\ desc[t].parent \in Range(stack[w])

\* Requests to steal of worker w that are on their way; being served.
RequestsOf(w) == UNION {Slots(c, chan[c], Msg("STEALING_REQUEST", w)) : c \in Thread \X Node}
ServedFor(w)  == {n \in Node : serving[n] = w}

\* A worker that holds internode_m has exactly one request or one reply in
\* the system, and nobody else has any: a reply cannot reach a worker that
\* does not wait for it, or be overwritten by a second one.
StealHandshake ==
  \A w \in Worker :
    Cardinality(RequestsOf(w)) + Cardinality(ServedFor(w))
      + (IF reply[w] = NULL THEN 0 ELSE 1)
      = (IF internode_m[node_of[w]] = w THEN 1 ELSE 0)

----------------------------------------------------------------------------
(* The abstract view: nested fork-join parallelism.                        *)

Answered == {t \in Travelling : \E c \in Thread \X Node : Msg("TORC_ANSWER", t) \in Range(chan[c])}

Returned == {Self(w) : w \in {v \in Worker : pc[v] = "clean"}}

Begun == Task \cap (Range(serving) \cup (UNION {Range(stack[w]) : w \in Worker}))

PhaseBar ==
  LET live  == Outstanding
      begun == Begun
      ended == Answered \cup Returned
  IN  [t \in Task |->
        IF desc[t] = NULL THEN "unborn"
        ELSE IF t \notin live THEN "joined"
        ELSE IF t \in ended THEN "ended"
        ELSE IF t \in begun THEN "running"
        ELSE "ready"]

ParentBar == [t \in Task |-> IF desc[t] = NULL THEN NULL ELSE desc[t].parent]

WaitPC == {"check", "spin", "scan", "rescan"}

WaitingBar ==
  {f \in Frame : \E w \in Worker : \E i \in DOMAIN stack[w] :
     stack[w][i] = f /\ (i < Len(stack[w]) \/ pc[w] \in WaitPC)}

FJ == INSTANCE ForkJoin WITH phase <- PhaseBar, parent <- ParentBar, waiting <- WaitingBar

\* The runtime implements fork-join: every task is started once, returns
\* once and is joined once, and no wait lets its caller go before all it has
\* created is joined, whatever node its tasks went to.
ImplementsForkJoin == FJ!Spec

\* Every task that is counted by a parent is run, somewhere, and joined.
\* (A detached task is promised less: on a node whose only worker runs the
\* main program, nobody runs it unless the main program waits for others.)
EveryTaskFinishes ==
  \A t \in Task :
    desc[t] # NULL /\ ParentBar[t] # NULL ~> desc[t] # NULL /\ t \notin Outstanding

\* Every wait returns, however many other tasks its worker runs inside it
\* and however they nest.
EveryWaitReturns == \A f \in Frame : f \in WaitingBar ~> f \notin WaitingBar

=============================================================================
