------------------------------- MODULE Lifecycle -------------------------------
(***************************************************************************)
(* The life of the run-time system on all nodes: start-up, the calls of    *)
(* the main program that reach every node, and the way to MPI_Finalize.    *)
(*                                                                         *)
(* Each node starts with one thread, worker 0, which takes part in the     *)
(* barriers between the nodes; it starts the server thread and the other   *)
(* workers.  Worker 0 of node 0 becomes the main program, which may        *)
(* register functions, switch stealing on, reset the statistics and at     *)
(* last finalize.  The only tasks here are those that register a function; *)
(* tasks in general are the subject of TaskRuntime.                        *)
(*                                                                         *)
(* With an MPI library that is not thread safe, a barrier is held inside   *)
(* comm_m, so that the other threads of the node cannot communicate; a     *)
(* server leaves by a flag instead of a message, and a thief stops waiting *)
(* when the application has finished.                                      *)
(***************************************************************************)
EXTENDS Integers, SequencesExt, FiniteSetsExt

CONSTANTS
  N,                \* number of nodes
  kthreads,         \* number of workers of each node
  SafetyLevels,     \* is the MPI library thread safe?  the values to consider
  MaxRegistrations, \* bound on the functions registered after torc_init
  MaxResets,        \* bound on the calls of torc_reset_statistics
  MaxCalls,         \* bound on the calls of the main program before torc_finalize
  NULL

Node == 0 .. N - 1

ASSUME NodesAssumption  == N \in Nat \ {0} /\ kthreads \in [Node -> Nat \ {0}]
ASSUME CallsAssumption  ==
  /\ SafetyLevels \subseteq BOOLEAN /\ MaxRegistrations \in Nat /\ MaxResets \in Nat
  /\ MaxCalls \in Nat /\ NULL \notin 0 .. MaxRegistrations

\* Worker v of node n is <<n, v>>, the server of node n is <<n, -1>>.
Worker    == UNION {{n} \X (0 .. kthreads[n] - 1) : n \in Node}
Server(n) == <<n, -1>>
Thread    == Worker \cup {Server(n) : n \in Node}
First(n)  == <<n, 0>>
Main      == First(0)

\* torc_register_task takes i * kthreads[0] for a worker of node i.  It is
\* when all nodes have as many workers, and with few nodes also otherwise.
ASSUME RegistrationAssumption ==
  MaxRegistrations > 0 =>
    \A i \in Node : LET Before(m) == MapThenSumSet(LAMBDA k : kthreads[k], 0 .. m - 1)
                    IN  Before(i) <= i * kthreads[0] /\ i * kthreads[0] < Before(i + 1)

Function == 1 .. MaxRegistrations

TORC_NO_WORK == 0

VARIABLES
  thread_safe,         \* does the MPI library support MPI_THREAD_MULTIPLE?
  pc,                  \* where each thread is
  barriers,            \* how many barriers a node has entered
  inside,              \* is its worker 0 inside one?
  node_info,           \* what a node knows of the workers of all nodes
  created_workers,     \* workers of a node that have started
  active_workers,      \* workers of a node that have not ended
  chan,                \* chan[<<s, n>>]: messages of thread s to the server of n
  reply,               \* the answer to a stealing request, not yet received
  out,                 \* what a thread has still to send, and to which nodes
  victim,              \* the node a worker steals from next
  queue,               \* registration tasks in the ready queues of a node
  task,                \* the function a worker is registering
  table,               \* internode_function_table of each node
  number_of_functions, \* its entries, without those made before torc_init
  pending,             \* the main program's join counter
  internode_stealing,  \* the flag of each node
  termination_flag,    \* the flag of each node
  appl_finished,       \* the flag of each node, which is counted up
  registered,          \* calls of torc_register_task after torc_init
  enabled,             \* has torc_enable_stealing been called?  at most once, a bound
  mixed,               \* history: was a function registered after that?
  resets,              \* calls of torc_reset_statistics
  reset_count          \* history: how often each node has reset its own, up to MaxResets + 1

boot    == <<thread_safe, barriers, inside, node_info, created_workers, active_workers>>
net     == <<chan, reply, out>>
tables  == <<queue, task, table, number_of_functions, pending>>
flags   == <<internode_stealing, termination_flag, appl_finished>>
calls   == <<registered, enabled, mixed, resets, reset_count>>
vars    == <<pc, victim, boot, net, tables, flags, calls>>

----------------------------------------------------------------------------
(* Numbers of workers: a worker has a number on its node and one among the *)
(* workers of all nodes.  n is the node that computes.                     *)

Workers(n, m) == node_info[n][m]

Offset(n, m) == MapThenSumSet(LAMBDA k : Workers(n, k), 0 .. m - 1)

LocalToGlobal(n, v) == Offset(n, n) + v

\* Variant of GlobalToNode: the bound is taken for the node's own.
GlobalToNodeLate(n, g) == Min({m \in Node : g <= Offset(n, m + 1)})

GlobalToNode(n, g) == Min({m \in Node : g < Offset(n, m + 1)})

GlobalToLocal(n, g) == g - Offset(n, GlobalToNode(n, g))

----------------------------------------------------------------------------
(* Messages.                                                               *)

Message == [type : {"WORK"}, arg : Function]
      \cup [type : {"STEALING_REQUEST"}, arg : Worker]
      \cup [type : {"ANSWER", "ENABLE_STEALING", "RESET_STATISTICS",
                    "TERMINATE_WORKERS", "TERMINATE_LOCAL"}, arg : {NULL}]

Msg(type, arg) == [type |-> type, arg |-> arg]

Others(n) == Node \ {n}

NothingToSend == [msg |-> NULL, left |-> {}]

\* Barriers that a worker 0 waits in while it holds comm_m.
Locked == {"gather", "up", "start", "end"}

\* The thread may make an MPI call.
MayEnter(n) == thread_safe \/ ~(inside[n] /\ pc[First(n)] \in Locked)

Send(s, n, m) == MayEnter(s[1]) /\ chan' = [chan EXCEPT ![<<s, n>>] = Append(@, m)]

Goto(s, to) == pc' = [pc EXCEPT ![s] = to]

\* The loop "for each node but mine: send_descriptor".
SendNext(s) ==
  /\ out[s].left # {}
  /\ Send(s, Min(out[s].left), out[s].msg)
  /\ out' = [out EXCEPT ![s].left = @ \ {Min(@)}]
  /\ UNCHANGED <<pc, victim, boot, reply, tables, flags, calls>>

Quiet(s) == out[s].left = {}

Init ==
  /\ thread_safe \in SafetyLevels
  /\ pc = [s \in Thread |-> IF s[2] = 0 THEN "opt" ELSE "none"]
  /\ barriers = [n \in Node |-> 0]
  /\ inside = [n \in Node |-> FALSE]
  /\ node_info = [n \in Node |-> [m \in Node |-> 0]]
  /\ created_workers = [n \in Node |-> 0]
  /\ active_workers = [n \in Node |-> 0]
  /\ chan = [c \in Thread \X Node |-> <<>>]
  /\ reply = [w \in Worker |-> NULL]
  /\ out = [s \in Thread |-> NothingToSend]
  /\ victim = [w \in Worker |-> w[1]]
  /\ queue = [n \in Node |-> {}]
  /\ task = [w \in Worker |-> NULL]
  /\ table = [n \in Node |-> [i \in Function |-> NULL]]
  /\ number_of_functions = [n \in Node |-> 0]
  /\ pending = 0
  /\ internode_stealing = [n \in Node |-> FALSE]
  /\ termination_flag = [n \in Node |-> 0]
  /\ appl_finished = [n \in Node |-> 0]
  /\ registered = 0
  /\ enabled = FALSE
  /\ mixed = FALSE
  /\ resets = 0
  /\ reset_count = [n \in Node |-> 0]

----------------------------------------------------------------------------
(* Barriers between the nodes, entered by their workers 0.                 *)

\* The stages of worker 0 that end with a barrier, and what follows each.
AfterBarrier(n, stage) ==
  CASE stage = "opt"    -> "dup"
    [] stage = "dup"    -> "md_init"
    [] stage = "gather" -> "info"
    [] stage = "up"     -> "worker"
    [] stage = "start"  -> IF n = 0 THEN "main" ELSE "loop"
    [] stage = "end"    -> "shutdown"
    [] stage = "last"   -> "finalized"

BarrierStage == {"opt", "dup", "gather", "up", "start", "end", "last"}

EnterBarrier(n) ==
  /\ pc[First(n)] \in BarrierStage
  /\ ~inside[n]
  /\ inside' = [inside EXCEPT ![n] = TRUE]
  /\ barriers' = [barriers EXCEPT ![n] = @ + 1]
  /\ UNCHANGED <<pc, victim, thread_safe, node_info, created_workers, active_workers,
                 net, tables, flags, calls>>

\* Variant of AllEntered: no barrier before the servers are shut down.
NoEndBarrier(n) ==
  pc[First(n)] = "end" \/ \A m \in Node : barriers[m] >= barriers[n]

\* Variant of AllEntered: no barrier before MPI_Finalize.
NoLastBarrier(n) ==
  pc[First(n)] = "last" \/ \A m \in Node : barriers[m] >= barriers[n]

\* Variant of AllEntered: no barrier when the workers have been created.
NoStartBarrier(n) ==
  pc[First(n)] = "start" \/ \A m \in Node : barriers[m] >= barriers[n]

AllEntered(n) == \A m \in Node : barriers[m] >= barriers[n]

LeaveBarrier(n) ==
  /\ inside[n]
  /\ AllEntered(n)
  /\ inside' = [inside EXCEPT ![n] = FALSE]
  /\ Goto(First(n), AfterBarrier(n, pc[First(n)]))
  /\ UNCHANGED <<victim, thread_safe, barriers, node_info, created_workers, active_workers,
                 net, tables, flags, calls>>

----------------------------------------------------------------------------
(* Start-up.                                                               *)

\* _torc_md_init: the server, if there are other nodes, and the workers.
StartThreads(n) ==
  /\ pc[First(n)] = "md_init"
  /\ pc' = [s \in Thread |->
              IF s[1] # n THEN pc[s]
              ELSE IF s[2] = 0 THEN "gather"
              ELSE IF s[2] > 0 THEN "worker"
              ELSE IF N > 1 THEN "serve" ELSE "none"]
  /\ active_workers' = [active_workers EXCEPT ![n] = kthreads[n]]
  /\ UNCHANGED <<victim, thread_safe, barriers, inside, node_info, created_workers,
                 net, tables, flags, calls>>

\* _torc_comm_init, between its barriers: what MPI_Iallgather has brought.
FillNodeInfo(n) ==
  /\ pc[First(n)] = "info"
  /\ node_info' = [node_info EXCEPT ![n] = kthreads]
  /\ Goto(First(n), "up")
  /\ UNCHANGED <<victim, thread_safe, barriers, inside, created_workers, active_workers,
                 net, tables, flags, calls>>

\* _torc_worker: a worker counts itself, ...
WorkerCreated(w) ==
  /\ pc[w] = "worker"
  /\ created_workers' = [created_workers EXCEPT ![w[1]] = @ + 1]
  /\ Goto(w, "created")
  /\ UNCHANGED <<victim, thread_safe, barriers, inside, node_info, active_workers,
                 net, tables, flags, calls>>

\* Variant of EverybodyCreated: no waiting for the others.
MyselfCreated(n) == created_workers[n] > 0

EverybodyCreated(n) == created_workers[n] >= kthreads[n]

\* ... waits for the others of its node and starts its work.
WorkerStarts(w) ==
  /\ pc[w] = "created"
  /\ EverybodyCreated(w[1])
  /\ Goto(w, IF w[2] = 0 THEN "start" ELSE "loop")
  /\ UNCHANGED <<victim, boot, net, tables, flags, calls>>

----------------------------------------------------------------------------
(* The main program.                                                       *)

Calling == pc[Main] = "main" /\ Quiet(Main)

CallsMade == registered + resets + IF enabled THEN 1 ELSE 0

\* The main program calls something before it finalizes.
MayCall == Calling /\ CallsMade < MaxCalls

\* The node that torc_register_task takes for node i.
TargetOf(i) == GlobalToNode(0, i * kthreads[0])

\* torc_register_task: a task for every node, then torc_waitall.
RegisterTask ==
  LET f == registered + 1
  IN  /\ MayCall
      /\ registered < MaxRegistrations
      /\ registered' = f
      /\ mixed' = (mixed \/ enabled)
      /\ queue' = [queue EXCEPT ![0] = @ \cup {f}]
      /\ out' = [out EXCEPT ![Main] =
                   [msg |-> Msg("WORK", f), left |-> {TargetOf(i) : i \in Others(0)}]]
      /\ pending' = pending + N
      /\ Goto(Main, "waitall")
      /\ UNCHANGED <<victim, boot, chan, reply, task, table, number_of_functions, flags,
                     enabled, resets, reset_count>>

\* Variant of WaitEnds: nobody waits.
DoesNotWait == TRUE

WaitEnds == pending = 0

WaitReturns ==
  /\ pc[Main] = "waitall"
  /\ Quiet(Main)
  /\ WaitEnds
  /\ Goto(Main, "main")
  /\ UNCHANGED <<victim, boot, net, tables, flags, calls>>

EnableStealing ==
  /\ MayCall
  /\ ~enabled
  /\ enabled' = TRUE
  /\ internode_stealing' = [internode_stealing EXCEPT ![0] = TRUE]
  /\ out' = [out EXCEPT ![Main] = [msg |-> Msg("ENABLE_STEALING", NULL), left |-> Others(0)]]
  /\ UNCHANGED <<pc, victim, boot, chan, reply, tables, termination_flag, appl_finished,
                 registered, mixed, resets, reset_count>>

\* torc_reset_statistics, on any node: the statistics of this node are
\* cleared, and every other node is told.
Reset(s) ==
  /\ out' = [out EXCEPT ![s] = [msg |-> Msg("RESET_STATISTICS", NULL), left |-> Others(s[1])]]
  /\ reset_count' = [reset_count EXCEPT ![s[1]] = Min({@ + 1, MaxResets + 1})]

ResetStatistics ==
  /\ MayCall
  /\ resets < MaxResets
  /\ resets' = resets + 1
  /\ Reset(Main)
  /\ UNCHANGED <<pc, victim, boot, chan, reply, tables, flags, registered, enabled, mixed>>

\* torc_finalize: the other nodes are told, then this one ends.
Finalize ==
  /\ Calling
  /\ appl_finished' = [appl_finished EXCEPT ![0] = 1]
  /\ out' = [out EXCEPT ![Main] = [msg |-> Msg("TERMINATE_WORKERS", NULL), left |-> Others(0)]]
  /\ Goto(Main, "md_end")
  /\ UNCHANGED <<victim, boot, chan, reply, tables, internode_stealing, termination_flag, calls>>

----------------------------------------------------------------------------
(* Workers: the loop of the scheduler, with registration tasks only.       *)

\* Where a worker looks for work, and goes back to.
Loop(w) == IF w = Main THEN "waitall" ELSE "loop"

Looking(w) == pc[w] = Loop(w) /\ Quiet(w)

TakeTask(w, f) ==
  /\ Looking(w)
  /\ f \in queue[w[1]]
  /\ queue' = [queue EXCEPT ![w[1]] = @ \ {f}]
  /\ task' = [task EXCEPT ![w] = f]
  /\ Goto(w, "write")
  /\ UNCHANGED <<victim, boot, net, table, number_of_functions, pending, flags, calls>>

\* torc_register_task_internal: the entry is written, then it is counted.
WriteTable(w) ==
  /\ pc[w] = "write"
  /\ table' = [table EXCEPT ![w[1]] =
                 [i \in Function |->
                    IF i = number_of_functions[w[1]] + 1 THEN task[w] ELSE @[i]]]
  /\ Goto(w, "count")
  /\ UNCHANGED <<victim, boot, net, queue, task, number_of_functions, pending, flags, calls>>

CountFunction(w) ==
  /\ pc[w] = "count"
  /\ number_of_functions' = [number_of_functions EXCEPT ![w[1]] = @ + 1]
  /\ task' = [task EXCEPT ![w] = NULL]
  /\ IF w[1] = 0 THEN pending' = pending - 1 /\ UNCHANGED chan
                 ELSE Send(w, 0, Msg("ANSWER", NULL)) /\ UNCHANGED pending
  /\ Goto(w, Loop(w))
  /\ UNCHANGED <<victim, boot, reply, out, queue, table, flags, calls>>

\* Nothing here, and stealing is on: ask the other nodes in turn.
StartSweep(w) ==
  /\ Looking(w)
  /\ queue[w[1]] = {}
  /\ internode_stealing[w[1]]
  /\ victim' = [victim EXCEPT ![w] = (w[1] + 1) % N]
  /\ Goto(w, "sweep")
  /\ UNCHANGED <<boot, net, tables, flags, calls>>

\* direct_synchronous_stealing_request: a look at the flag, ...
WillAsk(w) ==
  /\ pc[w] = "sweep"
  /\ victim[w] # w[1]
  /\ termination_flag[w[1]] = 0
  /\ Goto(w, "ask")
  /\ UNCHANGED <<victim, boot, net, tables, flags, calls>>

\* ... then the request, inside internode_m.
AskForWork(w) ==
  /\ pc[w] = "ask"
  /\ \A v \in Worker : v[1] = w[1] => pc[v] # "asked"
  /\ Send(w, victim[w], Msg("STEALING_REQUEST", w))
  /\ Goto(w, "asked")
  /\ UNCHANGED <<victim, boot, reply, out, tables, flags, calls>>

\* The application ends: the node is not asked.
SkipVictim(w) ==
  /\ pc[w] = "sweep"
  /\ victim[w] # w[1]
  /\ termination_flag[w[1]] # 0
  /\ victim' = [victim EXCEPT ![w] = (@ + 1) % N]
  /\ UNCHANGED <<pc, boot, net, tables, flags, calls>>

GotTask(w) ==
  /\ pc[w] = "asked"
  /\ MayEnter(w[1])
  /\ reply[w] \in Function
  /\ task' = [task EXCEPT ![w] = reply[w]]
  /\ reply' = [reply EXCEPT ![w] = NULL]
  /\ victim' = [victim EXCEPT ![w] = w[1]]
  /\ Goto(w, "write")
  /\ UNCHANGED <<boot, chan, out, queue, table, number_of_functions, pending, flags, calls>>

GotNothing(w) ==
  /\ pc[w] = "asked"
  /\ MayEnter(w[1])
  /\ reply[w] = TORC_NO_WORK
  /\ reply' = [reply EXCEPT ![w] = NULL]
  /\ victim' = [victim EXCEPT ![w] = (@ + 1) % N]
  /\ Goto(w, "sweep")
  /\ UNCHANGED <<boot, chan, out, tables, flags, calls>>

\* With a library that is not thread safe the answer is polled for, until
\* the application has finished.
StopsWaiting(w) ==
  /\ ~thread_safe
  /\ pc[w] = "asked"
  /\ appl_finished[w[1]] = 1
  /\ victim' = [victim EXCEPT ![w] = (@ + 1) % N]
  /\ Goto(w, "sweep")
  /\ UNCHANGED <<boot, net, tables, flags, calls>>

\* get_next_task has found nothing: the end, if the application has finished.
Quit(w) ==
  /\ \/ pc[w] = "sweep" /\ victim[w] = w[1]
     \/ Looking(w) /\ queue[w[1]] = {} /\ ~internode_stealing[w[1]] /\ appl_finished[w[1]] = 1
  /\ internode_stealing' = [internode_stealing EXCEPT ![w[1]] = FALSE]
  /\ IF appl_finished[w[1]] # 1 THEN Goto(w, Loop(w)) /\ UNCHANGED active_workers
     ELSE IF w[2] = 0 THEN Goto(w, "md_end") /\ UNCHANGED active_workers
     ELSE Goto(w, "exited") /\ active_workers' = [active_workers EXCEPT ![w[1]] = @ - 1]
  /\ UNCHANGED <<victim, thread_safe, barriers, inside, node_info, created_workers,
                 net, tables, termination_flag, appl_finished, calls>>

----------------------------------------------------------------------------
(* The server thread.                                                      *)

Serving(n) == pc[Server(n)] = "serve" /\ Quiet(Server(n))

\* The server of n takes the next message of s.  A server that polls looks
\* at the flag first.
Accept(n, s, type) ==
  /\ Serving(n)
  /\ thread_safe \/ termination_flag[n] = 0
  /\ MayEnter(n)
  /\ chan[<<s, n>>] # <<>>
  /\ Head(chan[<<s, n>>]).type = type
  /\ chan' = [chan EXCEPT ![<<s, n>>] = Tail(@)]

RecvWork(n, s) ==
  /\ Accept(n, s, "WORK")
  /\ queue' = [queue EXCEPT ![n] = @ \cup {Head(chan[<<s, n>>]).arg}]
  /\ UNCHANGED <<pc, victim, boot, reply, out, task, table, number_of_functions, pending,
                 flags, calls>>

RecvAnswer(n, s) ==
  /\ Accept(n, s, "ANSWER")
  /\ pending' = pending - 1
  /\ UNCHANGED <<pc, victim, boot, reply, out, queue, task, table, number_of_functions,
                 flags, calls>>

ServeThief(n, s) ==
  /\ Accept(n, s, "STEALING_REQUEST")
  /\ \/ \E f \in queue[n] : /\ reply' = [reply EXCEPT ![s] = f]
                            /\ queue' = [queue EXCEPT ![n] = @ \ {f}]
     \/ /\ queue[n] = {}
        /\ reply' = [reply EXCEPT ![s] = TORC_NO_WORK]
        /\ UNCHANGED queue
  /\ UNCHANGED <<pc, victim, boot, out, task, table, number_of_functions, pending, flags, calls>>

RecvEnable(n, s) ==
  /\ Accept(n, s, "ENABLE_STEALING")
  /\ internode_stealing' = [internode_stealing EXCEPT ![n] = TRUE]
  /\ UNCHANGED <<pc, victim, boot, reply, out, tables, termination_flag, appl_finished, calls>>

\* The handler calls torc_reset_statistics, not _torc_reset_statistics.
RecvReset(n, s) ==
  /\ Accept(n, s, "RESET_STATISTICS")
  /\ Reset(Server(n))
  /\ UNCHANGED <<pc, victim, boot, reply, tables, flags, registered, enabled, mixed, resets>>

\* The end of the application: one flag, ...
RecvTerminate(n, s) ==
  /\ Accept(n, s, "TERMINATE_WORKERS")
  /\ termination_flag' = [termination_flag EXCEPT ![n] = 1]
  /\ Goto(Server(n), "finish")
  /\ UNCHANGED <<victim, boot, reply, out, tables, internode_stealing, appl_finished, calls>>

\* Variant of CountFinished: the application is not marked as finished.
FinishForgotten(n) ==
  /\ pc[Server(n)] = "finish"
  /\ Goto(Server(n), "serve")
  /\ UNCHANGED <<victim, boot, net, tables, flags, calls>>

\* ... then the other.
CountFinished(n) ==
  /\ pc[Server(n)] = "finish"
  /\ appl_finished' = [appl_finished EXCEPT ![n] = @ + 1]
  /\ Goto(Server(n), "serve")
  /\ UNCHANGED <<victim, boot, net, tables, internode_stealing, termination_flag, calls>>

RecvTerminateLocal(n, s) ==
  /\ Accept(n, s, "TERMINATE_LOCAL")
  /\ Goto(Server(n), "exited")
  /\ UNCHANGED <<victim, boot, reply, out, tables, flags, calls>>

\* A server that polls leaves by the flag.
ServerLeaves(n) ==
  /\ ~thread_safe
  /\ Serving(n)
  /\ termination_flag[n] # 0
  /\ Goto(Server(n), "exited")
  /\ UNCHANGED <<victim, boot, net, tables, flags, calls>>

----------------------------------------------------------------------------
(* _torc_md_end on worker 0.                                               *)

\* The other workers of the node have ended.
WorkersEnded(n) ==
  /\ pc[First(n)] = "md_end"
  /\ Quiet(First(n))
  /\ active_workers[n] = 1
  /\ Goto(First(n), "end")
  /\ UNCHANGED <<victim, boot, net, tables, flags, calls>>

\* shutdown_server_thread: by a message or by the flag.
ShutdownServer(n) ==
  /\ pc[First(n)] = "shutdown"
  /\ IF N > 1 /\ thread_safe
       THEN Send(First(n), n, Msg("TERMINATE_LOCAL", NULL)) /\ UNCHANGED termination_flag
       ELSE termination_flag' = [termination_flag EXCEPT ![n] = IF N > 1 THEN 1 ELSE @]
            /\ UNCHANGED chan
  /\ Goto(First(n), "join")
  /\ UNCHANGED <<victim, boot, reply, out, tables, internode_stealing, appl_finished, calls>>

\* Variant of ServerEnded: the server is not joined.
NotJoined(n) == TRUE

ServerEnded(n) == N > 1 => pc[Server(n)] = "exited"

JoinServer(n) ==
  /\ pc[First(n)] = "join"
  /\ ServerEnded(n)
  /\ Goto(First(n), "last")
  /\ UNCHANGED <<victim, boot, net, tables, flags, calls>>

----------------------------------------------------------------------------

WorkerStep(w) ==
  \/ WorkerCreated(w) \/ WorkerStarts(w)
  \/ \E f \in Function : TakeTask(w, f)
  \/ WriteTable(w) \/ CountFunction(w) \/ StartSweep(w) \/ WillAsk(w) \/ AskForWork(w)
  \/ SkipVictim(w) \/ GotTask(w) \/ GotNothing(w) \/ StopsWaiting(w) \/ Quit(w)

FirstStep(n) ==
  \/ EnterBarrier(n) \/ LeaveBarrier(n) \/ StartThreads(n) \/ FillNodeInfo(n)
  \/ WorkersEnded(n) \/ ShutdownServer(n) \/ JoinServer(n)

MainStep == RegisterTask \/ WaitReturns \/ EnableStealing \/ ResetStatistics \/ Finalize

ServerStep(n) ==
  \/ \E s \in Thread : \/ RecvWork(n, s) \/ RecvAnswer(n, s) \/ ServeThief(n, s)
                       \/ RecvEnable(n, s) \/ RecvReset(n, s) \/ RecvTerminate(n, s)
                       \/ RecvTerminateLocal(n, s)
  \/ CountFinished(n) \/ ServerLeaves(n)

ThreadStep(s) ==
  \/ SendNext(s)
  \/ s \in Worker /\ WorkerStep(s)
  \/ s[2] = 0 /\ FirstStep(s[1])
  \/ s = Main /\ MainStep
  \/ s[2] = -1 /\ ServerStep(s[1])

Next == \E s \in Thread : ThreadStep(s)

Fairness == \A s \in Thread : WF_vars(ThreadStep(s))

Spec == Init /\ [][Next]_vars

FairSpec == Spec /\ Fairness

----------------------------------------------------------------------------
(* Properties.                                                             *)

Stage == BarrierStage \cup {"none", "md_init", "info", "worker", "created", "main", "waitall",
  "loop", "write", "count", "sweep", "ask", "asked", "serve", "finish", "md_end", "shutdown", "join", "exited",
  "finalized"}

\* Types of the variables.
TypeOK ==
  /\ thread_safe \in BOOLEAN
  /\ pc \in [Thread -> Stage]
  /\ barriers \in [Node -> 0 .. 7]
  /\ inside \in [Node -> BOOLEAN]
  /\ node_info \in [Node -> [Node -> Nat]]
  /\ \A n \in Node : created_workers[n] \in 0 .. kthreads[n] /\ active_workers[n] \in 0 .. kthreads[n]
  /\ chan \in [Thread \X Node -> Seq(Message)]
  /\ reply \in [Worker -> {NULL, TORC_NO_WORK} \cup Function]
  /\ \A s \in Thread : out[s].msg \in Message \cup {NULL} /\ out[s].left \subseteq Node
  /\ victim \in [Worker -> Node]
  /\ queue \in [Node -> SUBSET Function]
  /\ task \in [Worker -> Function \cup {NULL}]
  /\ table \in [Node -> [Function -> Function \cup {NULL}]]
  /\ number_of_functions \in [Node -> Nat]
  /\ pending \in 0 .. N
  /\ internode_stealing \in [Node -> BOOLEAN]
  /\ termination_flag \in [Node -> 0 .. 1]
  /\ appl_finished \in [Node -> 0 .. 1]
  /\ registered \in 0 .. MaxRegistrations
  /\ enabled \in BOOLEAN /\ mixed \in BOOLEAN
  /\ resets \in 0 .. MaxResets
  /\ reset_count \in [Node -> 0 .. MaxResets + 1]

Started == pc[Main] \in {"main", "waitall"}

\* When torc_init returns on node 0, every node can be sent a descriptor and
\* executes it: its server runs, all its workers are created, and it knows
\* the numbers of workers of all nodes.
ReadyBeforeUse ==
  Started => \A n \in Node : /\ N > 1 => pc[Server(n)] \notin {"none"}
                             /\ created_workers[n] >= kthreads[n]
                             /\ node_info[n] = kthreads

\* Global numbers name each worker once, and lead back to it, as computed on
\* its own node and on any other.
IdsRoundTrip ==
  Started => \A w \in Worker, n \in Node :
    LET g == LocalToGlobal(w[1], w[2])
    IN  <<GlobalToNode(n, g), GlobalToLocal(n, g)>> = w

\* After each registration all nodes have the same functions at the same
\* positions, as long as stealing is switched on only after that.
TablesAgree ==
  pc[Main] = "main" /\ ~mixed =>
    \A n \in Node : /\ number_of_functions[n] = registered
                    /\ \A i \in 1 .. registered : table[n][i] = i

\* With a thread safe library a server ends only when nobody waits for its
\* answer, or ever will.
NoOrphanRequest ==
  thread_safe => \A n \in Node, w \in Worker :
    N > 1 /\ pc[Server(n)] = "exited" => pc[w] \in {"exited", "shutdown", "join", "last", "end", "finalized"}

\* When a node calls MPI_Finalize, the workers and servers of all nodes have
\* ended: nobody communicates any more.
ExitsTogether ==
  (\E n \in Node : pc[First(n)] = "finalized") =>
    \A s \in Thread : pc[s] \in {"exited"} \cup (IF s[2] = 0 THEN {"last", "finalized"} ELSE {})
                      \/ (s[2] = -1 /\ N = 1)

\* MPI_Finalize wants every message received: so it is with a thread safe
\* library when the statistics have never been reset.
NothingUnread ==
  thread_safe /\ resets = 0 =>
    \A n \in Node : pc[First(n)] = "finalized" => \A c \in Thread \X Node : chan[c] = <<>>

\* Unless the statistics are reset, torc_finalize brings all nodes to
\* MPI_Finalize, whatever stealing requests are under way.
EveryNodeEnds ==
  <>(resets > 0 \/ \A n \in Node : pc[First(n)] = "finalized")

\* torc_reset_statistics resets each node once.
ResetOnce == \A n \in Node : reset_count[n] <= resets

=============================================================================
