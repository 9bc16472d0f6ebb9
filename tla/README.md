# TORC_LITE: specifications, checks and proofs

TORC_LITE runs task-parallel programs on clusters: a program creates tasks,
waits for them, and the library spreads them over the worker threads of all MPI
processes, moving arguments and results by messages and letting idle nodes steal
work. This directory holds TLA+ specifications of the library's core, the TLC
configurations that check them, and proofs checked by TLAPS. Paths such as
`torc_runtime.c:241` are relative to `src/src/` (headers: `src/include/`).

Run a check with `tlc -workers 2 -config <run>.cfg <MC module>` and a proof with
`tlapm <module>.tla`. `PROJECT.json` lists the runs, the source lines behind each
definition, and the mutation of the code that each property detects.

## 1. The system

### Components

| Component | State | Operations | Interacts by |
|---|---|---|---|
| Task creation (`torc.c`: `torc_task`, `_ex`, `_direct`, `_detached`) | the descriptor `torc_t`; the creator's `ndep`; a static `target_worker` per variant | count the child, fill in the descriptor, place it | queues of the own node, `send_descriptor` to others |
| Join counter and waits (`torc.c:26-67`, `torc_runtime.c:179-333`) | `desc->ndep`, `desc->lock` | guard, `_torc_depadd`, `_torc_depsatisfy`, `_torc_block`, `_torc_block2`, `torc_waitall3` | shared memory between the parent's worker, the workers that run children and the server thread |
| Scheduler (`torc_runtime.c:218-239, 463-599`) | current task of each thread, nesting of waits on its C stack | `get_next_task`, `_torc_execute`, `_torc_cleanup`, `_torc_scheduler_loop`, `torc_fetch_work` | queues, answers to the home node, stealing |
| Ready queues (`torc_queue.c`, `queues.h`) | `private_grq`, `public_grq[10]`, `reuse_q`: linked lists with a lock | enqueue at head or tail, dequeue at head | all threads of a node |
| Work stealing (`torc_server.c:463-511, 166-198`, `torc_comm.c:355-507`) | `internode_stealing`, `internode_m` | request, search by the victim's server, reply, sweep over victims, enable and disable | messages; the flag is shared by the threads of a node |
| Server thread (`torc_server.c:35-366`) | the message it is busy with | enqueue work, execute a direct task, take an answer, serve a thief, switch the flag, terminate | messages in, queues, join counters, messages out |
| Argument passing (`torc_comm.c:220-282, 386-431`, `torc_runtime.c:31-119`) | `localarg`, `temparg`, `quantity`, `callway` | copy, send, receive, return, free, dispatch on `narg` | messages that follow a descriptor |
| Message transport (`torc_comm.c`) | MPI tags, `comm_m` | `enter_comm_cs`, Isend/Irecv/Wait/Test | MPI |
| Start-up and termination (`torc_thread.c`, `torc_server.c:371-461`, `torc_runtime.c:190-210, 343-461`) | `appl_finished`, `termination_flag`, barriers | start workers and server, `terminate_workers`, `shutdown_server_thread`, `_torc_md_end` | messages, barriers |
| Identifiers (`torc_comm.c:509-590`, `torc.c:594-660`) | table of worker counts | local and global worker numbers, node of a worker | pure functions |
| Registration and broadcast (`torc_comm.c:65-137, 594-640`) | `internode_function[]`, `number_of_functions` | register before or after start-up, broadcast a buffer | tasks, collective operations |
| Statistics, Fortran interface, nullmpi, demos | counters nothing reads back | - | - |

### What is hard

* A child may finish on any thread of its home node while its parent is still
  creating siblings, about to wait, or returning from a wait. The count lives in
  the parent's descriptor, which goes back to a pool as soon as the parent ends.
* A wait runs other tasks on top of the waiting one; these wait in turn. Waits of
  unrelated tasks nest on one stack.
* A descriptor travels: to the node it is placed on, from there to a thief, back
  home in an answer. The pointer to its parent travels with it and is followed
  only at home.
* The server gives tasks to thieves from the same queues the node's workers
  search, in the opposite order of levels; `get_next_task` looks at eleven
  queues one after the other.
* A direct task occupies the server thread: answers and stealing requests wait.
* Descriptors of all threads arrive at one server under one tag; the arguments of
  each follow under the tag of its sender, while other threads send theirs. Sender
  and receiver decide by different conditions which arguments travel.
* With an MPI library that is not thread safe every call is made inside `comm_m`,
  which is held across waits and barriers.
* Termination messages, stealing requests under way and the barriers of all nodes
  meet in `_torc_md_end`, where each node must keep its server for the others.
* Stealing is a request and a reply under a mutex held across both, with a flag
  that every node clears for itself after an unsuccessful sweep.

`PROJECT.json` lists these and others as hazards, each at its line.

### What makes it correct

* Join counter: it is exact at every step; no wait is passed early; every wait
  returns; the parent's descriptor is not touched once it is recycled.
* Scheduler, creation, server: a task is in one place at a time, run once, counted
  once; the parent pointer in it is good when it is followed; every task finishes.
* Stealing: a thief gets one reply to one request, and nobody else's.
* Queues: the two directions of the list agree; an operation takes effect once.
* Messages: a task finds what its creator passed and its creator what the task left,
  however many nodes they went through; buffers are freed once; no message is left.
* Start-up and end: nothing is used before it is there on every node; a server stays
  until nobody can ask it; nobody communicates after `MPI_Finalize`; all nodes end.
* As a whole: nested fork-join parallelism, wherever the tasks run.

## 2. The modules

| Module | What it is |
|---|---|
| `JoinCounter` | one parent's `ndep` and `lock`, its children, the three waits |
| `JoinCounterProofs` | exact count and safe recycling, for any number of children |
| `ForkJoin` | abstract specification: what creating and waiting promise |
| `TaskRuntime` | workers, server threads, queues, messages and stealing of all nodes |
| `TaskRuntimeProofs` | types, "nothing dangles", a task is in one place, a thief's request in one, for any configuration |
| `TaskRefinementProofs` | the counters of all parents are exact, parents outlive their children, and every step of `TaskRuntime` is a step of `ForkJoin` |
| `Deque` | abstract specification: what a queue promises the threads that share it |
| `ReadyQueue` | the linked list of `queues.h`, its lock and the unlocked look at `head` |
| `ReadyQueueProofs` | the list is linked both ways and implements `Deque`, for any number of threads |
| `Messaging` | descriptors, arguments, results, buffers, tags, `comm_m`, broadcast |
| `MessagingProofs` | types of messages and activities; what sends and receives do to the order of a channel |
| `MessagingTrafficProofs` | inputs and results arrive, buffers are freed once, broadcasts come first, no message is left, for any number of nodes, workers, tasks and arguments |
| `Lifecycle` | start-up, barriers, calls that reach every node, termination |
| `LifecycleProofs` | ready before use, servers outlive requests, all end together, worker numbers lead back to their workers, for any number of nodes and workers |
| `LifecycleTablesProofs` | the nodes agree on their tables, no message is left at the end, types |
| `MC*` | instances for TLC |

`TaskRuntime` uses the counter at the grain of one atomic update per critical
section; `JoinCounter` opens those sections up and shows that nothing is lost by
that. It uses queues as sequences; `ReadyQueue` shows that the linked lists behave
so. `TaskRuntime` implements `ForkJoin` by the mapping at the end of the module:
the phase of a task is read off the place that holds it, and a caller is waiting
while it is below the top of a stack or its worker is in the wait loop.

### JoinCounter

The parent's `pc` names the places between its critical sections. Creation is three
steps as in `torc_task`: the first locked section adds the guard when `ndep` is
zero (`AddGuard`), `_torc_depadd` adds the child (`DepAdd`), and the enqueue
makes it visible (`Publish`). A finished child acquires, decrements, releases: three
steps, because `_torc_block2` reads `ndep` without the lock and can see the middle.
`Recycle` puts the parent's descriptor into the reuse queue; `Reuse` takes it out
again. `guard` and `last` are history variables.

### TaskRuntime

A worker's `stack` holds the tasks it is inside of; `pc` says where its top one is.

| Code | Actions |
|---|---|
| `torc_task`, `torc_task_ex`, `torc_task_direct` | `CountChild` (both locked sections), `EnqueueChild` (descriptor, `torc_to_rq_end` or `torc_to_lrq_end`) |
| `torc_task_detached` | `CreateDetached`; from a server thread `DirectCreate` |
| `torc_waitall` = `_torc_block` | `WaitAll`, then `CheckDeps` and the scheduler in turn |
| `torc_waitall3` | `SpinWait`, `SpinReturn` |
| `torc_fetch_work` | `FetchWork`, the search, `Stash` |
| `torc_enable_stealing`, `torc_disable_stealing` | `SwitchStealing`, `RecvSwitch` |
| end of a task: `_torc_execute`, `_torc_cleanup` | `Return`, `Cleanup` |
| `get_next_task` | `TakePrivate`, `TakePublic`, `NextQueue` (one queue per step), `TestFlag`, `StealNothing` |
| `direct_synchronous_stealing_request` | `StealRequest`, `StealReply` |
| `process_a_received_descriptor` | `RecvEnqueue`, `DirectDone`, `RecvAnswer`, `RecvSteal`, `StealScan` (one queue per step), `RecvSwitch` |

Decisions of the application are nondeterministic: which task calls what, when and
on which node it places a task. The round robin over workers is one of those
choices, so safety does not depend on the unlocked static `target_worker`.

Messages of one thread to one server arrive in order, those of different threads
in any order, which is what MPI guarantees for one tag. A descriptor and the
arguments that follow it are one message here; `Messaging` opens them up.
No message is lost or doubled: MPI is reliable and the library never retries.

Two rules about the application are modelled because the library relies on them
and does not check them: a task waits for what it has created before it returns
(otherwise its descriptor is recycled with children pointing to it), and
`torc_waitall3` waits only for direct tasks already out of the queues (it runs no
task, so it may wait for what only its own worker would run).

### ReadyQueue

The bodies of `_enqueue_head`, `_enqueue_tail` and `_dequeue` between lock and unlock
are one step each, the look at `head` before the lock another. An empty queue at
that look is no operation. `ImplementsDeque` says each operation takes effect
at one moment between its call and its return.

### Messaging

Each descriptor is followed by the messages of its arguments. `chan[<<s, n>>]` keeps
the messages of one thread in order; a receive takes the first with its tag from any
thread of its source node, which is what MPI promises. Values are "in" (what the
creator passed), "out" (what the task left), freed, or wrong (what a receive took for
its own and is not). `doing` says for which task a thread is sending, receiving or
running, and what is left to do. Waiting for tasks is not part of this module.

| Code | Actions |
|---|---|
| `torc_task_ex`, `torc_task_direct`, placement | `Create` (copies, descriptor), `SendArgument` |
| `server_loop`, `process_a_received_descriptor` | `RecvWork`, `RecvAnswer`, `ServeThief`, `RecvBcast` |
| `receive_arguments` | `Allocate`, `EnterToReceive`, `RecvArgument`, `HaveArguments` |
| `_torc_cleanup`, `send_descriptor` of an answer | `FinishAtHome`, `FinishAway`, `SendResult`; at home `CollectResult`, `HaveResults` |
| `direct_synchronous_stealing_request`, `receive_descriptor` | `AskForWork`, `Refused`, `Stolen`, `GiveUp` |
| `torc_broadcast` | `Broadcast`, `Ssend`, `Told`; on the other side `MatchBuffer`, `BufferArrives` |

`SentArgs` and `AwaitedArgs` are the conditions of `send_arguments` and
`receive_arguments`, `SentResults` and `AwaitedResults` those of the two sides of an
answer; they are written separately because the code decides separately.

### Lifecycle

Worker `v` of node `n` is `<<n, v>>`, its server `<<n, -1>>`. `pc` follows worker 0
through `torc_init` and `_torc_md_end`, the other workers through `_torc_worker` and
the scheduler's loop, and the server. `barriers[n]` counts the barriers a node has
entered: all are collective, so a node leaves its k-th when all have entered k. The
loops that send one message to every other node are one step per message (`SendNext`),
so that anything may come between. The only tasks are those of `torc_register_task`.

| Code | Actions |
|---|---|
| `__torc_opt`, `_torc_md_init`, `_torc_comm_init`, `_torc_worker` | `EnterBarrier`, `LeaveBarrier`, `StartThreads`, `FillNodeInfo`, `WorkerCreated`, `WorkerStarts` |
| `torc_register_task` and its task | `RegisterTask`, `TakeTask`, `WriteTable`, `CountFunction`, `WaitReturns` |
| `torc_enable_stealing`, `torc_reset_statistics` | `EnableStealing`, `ResetStatistics`, `RecvEnable`, `RecvReset` |
| `get_next_task`, stealing, `receive_descriptor` | `StartSweep`, `WillAsk` (the flag), `AskForWork` (`internode_m`, the request), `SkipVictim`, `GotTask`, `GotNothing`, `StopsWaiting` |
| `torc_finalize`, `terminate_workers` | `Finalize`, `SendNext`, `RecvTerminate` (`termination_flag`), `CountFinished` (`appl_finished`) |
| `_torc_md_end`, `shutdown_server_thread` | `Quit`, `WorkersEnded`, `ShutdownServer`, `RecvTerminateLocal`, `ServerLeaves`, `JoinServer` |

Only the main program finalizes here: `appl_finished` is counted up by each
termination message and compared with 1, so a second caller would not be noticed.

## 3. The runs

| Run | Instance | What it shows |
|---|---|---|
| `join_all` | 3 children, all waits mixed | the count is exact (`Count`), never negative (`TypeOK`); no wait passed early (`JoinSafe`); no child touches a recycled parent unless its last wait was `torc_waitall2` (`NoTouchAfterRecycle`); waits return (`WaitReturns`) |
| `join_spin_empty` | as above, `torc_waitall3` without children | expected violation: the wait never returns |
| `queue` | 3 descriptors, 3 threads | `WellLinked`, `ImplementsDeque` |
| `core_nested` | 2 nodes, 1 worker each, 3 tasks, 2 levels | `OneHolder`, `JoinCount`, `ParentAlive` for tasks nested three deep or wide |
| `core_steal` | 2 workers on node 0, 1 on node 1, 2 tasks, 2 levels, stealing | the same with competing workers and thieves; `TypeOK`; `StealHandshake` |
| `core_refine` | 2 nodes, 2 tasks; `torc_task`, direct and detached tasks, `torc_waitall`, `torc_waitall3`, `torc_fetch_work`, the stealing switch | `ImplementsForkJoin`: the runtime implements `ForkJoin` |
| `core_live` | 2 nodes, 3 tasks | `EveryTaskFinishes`, `EveryWaitReturns` for nested waits |
| `core_live_calls` | 2 nodes, 2 tasks, direct tasks, spinning waits, stealing | the same |
| `messages` | 3 nodes, 4 workers, 3 tasks with arguments of every call way, a broadcast, a thief, either MPI library | `InputsArrive`, `ResultsArrive`, `FreedOnce`, `NothingLeftOver`, `BroadcastFirst`, `TypeOK`; with a thread safe library `EveryTaskCompletes` |
| `unsafe_comm` | 2 nodes that send each other a task with one argument | expected violation: both servers wait inside `comm_m` for ever |
| `lifecycle` | 2 nodes with 2 and 1 workers, up to 3 calls (2 registrations, stealing, a reset) in any order, either MPI library | `ReadyBeforeUse`, `IdsRoundTrip`, `TablesAgree`, `NoOrphanRequest`, `ExitsTogether`, `NothingUnread`, `TypeOK`, `EveryNodeEnds` |
| `reset_storm` | the same nodes, one reset | expected violation: a node is reset twice |

### Bounds, and why they are enough

* Three children in `JoinCounter`: one holding the lock, one about to decrement,
  one being created. Their descriptors are reused without bound, so the number of
  tasks in a run is not bounded.
* Two or three tasks in `TaskRuntime`: three allow a chain of nesting, siblings, and
  a task run inside another's wait; two are enough for one to be stolen while the
  other is waited for. `desc` is not reset, so a run creates each task once.
* One or two public levels instead of ten: with one level and nesting both ends of
  the clamp of `torc_to_i_rq_end` are reached, with two both searches have a middle:
  in `core_steal` the victim's server searches them in the opposite order of its workers.
* Two nodes; two workers on one node where the mutex and the shared queues matter.
* `MaxToggles` = 1: one enable at any moment. A sweep clears the flag again, and
  that repeats without bound as long as messages set it.
* Symmetry of the tasks is used in safety runs only.
* `messages`: two workers of one node send to the same server, which is where tags
  matter; the third node receives from a task that was itself received. The thief is on
  node 0, which may steal back what it sent (the arguments then do not travel), or on
  node 2, which gets what node 1 was sent. Each task is created once; arguments
  have 0, 1 or 2 elements, the three cases the code tells apart.
* `lifecycle`: `MaxCalls` = 3, `MaxRegistrations` = 2, `MaxResets` = 1, stealing enabled
  at most once. Two registrations show that positions agree, one reset that it spreads;
  `reset_count` stops at `MaxResets` + 1. Two workers and one give different offsets.

### Fairness

`JoinCounter`: a creation that was begun is finished, a waiting parent and each child
keep running (weak fairness). The idle round of `_torc_block2` gets strong fairness:
the work a waiting worker can pick up besides its own children runs out.

`TaskRuntime`: each worker inside the library and each server thread keeps running
(weak fairness: these are threads in endless loops that sleep for a bounded time,
and the mutexes are released). The body of a task ends: strong fairness of "wait for
what was created, or return", because the task may make other calls in between.
Nothing is assumed of the main program beyond that: it need not create or stop.

`Messaging`, `Lifecycle`: every thread keeps running (weak fairness of `ThreadStep`): an
MPI call whose message is there returns, mutexes are released, and the main program,
whose calls are bounded, comes to `torc_finalize`.

## 4. What is proved

For every value of the constants that meets the named assumptions:

* `JoinCounterProofs!CountInvariant`: `TypeOK`, `Count` and `JoinSafe`, when the
  application does not spin without tasks. `Count` is not inductive: a wait gives up
  one unit, so one has to know that the unit is the guard. The strengthening
  `GuardAt` says at which points of the parent the guard is in `ndep`. Three lemmas
  relate `Cardinality(Pending)` before and after a child is published or counted off.
  `CountTypes` states `TypeOK` by itself.
* `JoinCounterProofs!RecycleSafe`: `NoTouchAfterRecycle`. Needs besides that the
  lock's owner is the child inside its critical section (`LockOwner`), so that a
  test under the lock that sees the last decrement also sees the release.
* `TaskRuntimeProofs!RuntimeTypes`: `TypeOK`, for any number of nodes, workers, tasks
  and levels. Not inductive either: a thread follows the descriptor of what it takes
  out of a queue or a message, and a worker acts for the top of its stack. The
  invariant `TypeInv` adds that everything held exists (`Held`), that a worker not
  searching has a task (`Positions`), and that the owner of `internode_m` is in
  the middle of a request to another node (`Owners`).
* `TaskRuntimeProofs!NothingDangles`: `Held` itself: no queue, message, reply or
  stack ever refers to a task that has not been filled in.
* `TaskRuntimeProofs!OneHolderCorrect`, `StealHandshakeCorrect`: `OneHolder` and
  `StealHandshake`. Counting the places of a task is inductive only for
  steps that take a descriptor out of one place and put it into another; the invariant
  `HolderInv` therefore says of every task, and likewise of every worker's request, that it
  is not in two places (`Apart`) nor twice in one sequence (`NoRepeat`), that a worker's
  request or reply is somewhere exactly while it owns `internode_m` (`Asking`), and that
  only a worker about to stash a fetched task has one in hand (`HandsFree`). Every action
  then moves one token, puts one or takes one. A task that is not created is
  nowhere (`NothingDangles`), which is what the creations need.
* `TaskRefinementProofs!JoinCountCorrect`, `ParentAliveCorrect`: `JoinCount` and `ParentAlive`.
  Neither is inductive alone. `torc_task` adds the guard when it finds 0, and `torc_waitall`
  takes it away when there is one: both are right because a task at work that has not
  forked counts nothing (`RunningCounts`), which holds when it begins because tasks on no
  stack count nothing (`OffStack`), and afterwards because a task that returns has waited
  for what it created (`ReturnedDone`). Both rest on `OneHolder`: a task in two places
  would be counted down twice.
* `TaskRefinementProofs!RuntimeImplementsForkJoin`: `ImplementsForkJoin`. Each action
  is shown to change the abstract phase of one task as `ForkJoin` says, or nothing;
  that a wait returns only without unfinished children is `JoinCount` read backwards,
  and that a phase is read off one place is `OneHolder`.
* `MessagingProofs!AlwaysTypeOK`: `TypeOK` of `Messaging`, with nothing assumed of the
  application. The server answers a request for work to the node and with the tag of the
  worker that sent it, so the types rest on where requests come from (`Requests`).
* `MessagingTrafficProofs!AlwaysInv`, `AlwaysValues`, `AlwaysBroadcasting`, in three layers.
  - `Inv` is about who sends what to whom. The messages of a channel are in two lanes:
    those with the tags of workers and servers, and those with the reply tags of
    thieves. A lane is a chain: what its receiver waits for, the messages, each followed by
    those the receiver of it will wait for, and what its sender still has to send
    (`WorkChain`, `ReplyChain`). This is where the conditions of the two sides,
    `SentArgs` and `AwaitedArgs`, `SentResults` and `AwaitedResults`, have to agree. That a
    receive by tag takes the right message in spite of those of other threads needs which
    tags are on which channel (`Messages`), what each thread is doing for which task
    (`Activities`), that one worker of a node asks for work at a time and gets one reply
    (`Asking`), and that a task is in one place (`Apart`, `NoRepeat`): two threads that
    fill or free the buffers of one task would spoil any statement about them.
  - `Values` says what the arguments of a task hold, at home (`HomeOK`), elsewhere
    (`AwayOK`) and in messages (`Delivered`), at each stage from creation to the answer.
    `AlwaysInputsArrive`, `AlwaysResultsArrive` and `AlwaysFreedOnce` follow: `InputsArrive`,
    `ResultsArrive` and `FreedOnce`, the last for the creator's private copies and for the
    buffers of every other node.
  - `Broadcasting` says that messages of a broadcast are under way only while the
    broadcaster is in it, that the node it has told of has the buffer or is taking it, and
    that a task created afterwards is behind it: on the channel, or on a node that has the
    buffer. `AlwaysBroadcastFirst` (`BroadcastFirst`) and `AlwaysNothingLeftOver`
    (`NothingLeftOver`) follow; for the latter each kind of message is shown to belong
    to a thread that is not idle or to a task that is not finished.

  All but `AlwaysTypeOK` have the hypothesis `QuietServers`, which `MCMessaging` checks for
  the instances: a task that a server executes has no results, and sends no arguments to
  a third node. Otherwise the server would send data with tag `MAX_NVPS`, which is that of the
  descriptors as well, and the pairing is false (section 5). The direct tasks of
  `demo/async.c` meet it.
* `LifecycleProofs!AlwaysReady`, `AlwaysExitsTogether`, `AlwaysNoOrphan`: `ReadyBeforeUse`,
  `ExitsTogether` and `NoOrphanRequest`, for any number of nodes and of workers on each,
  any number of calls and either kind of library. The argument counts barriers:
  `Done(stage)` barriers lie behind a worker 0 at a stage, so `barriers[n]` is that
  number, or one more inside a barrier (`Together`); nobody is past a barrier that some
  node has not entered. `StartedUp`, `Counted` and `Ended` tie what a node has (threads,
  `created_workers`, `active_workers`) to its stage; a node past its first end barrier
  therefore knows that the workers of all nodes have ended. `Link` adds the messages:
  TERMINATE_LOCAL is only ever sent by a worker 0 to its own server, after that barrier.
  A termination message sets `termination_flag` and `appl_finished` in two steps; in between
  the server is at "finish", where it has taken the message and not counted it.
* `LifecycleProofs!NumbersRoundTrip`: `IdsRoundTrip`, once `ReadyBeforeUse` says that all
  nodes know the same `kthreads`. The offset of a node is a sum over the nodes before it
  (`SumOver`), by the recursion inside `MapThenSumSet`. That the recursion has a solution
  (`SumsExist`), and one that does not depend on the order in which `CHOOSE` picks the
  elements (`SumsOrder`, `SumsPart`), is induction over the size of a set. The induction
  theorems of the library take an operator as a parameter and cannot be used; instead a set
  of natural numbers has a least element (`Minimum`, from the well-founded ordering
  of finite sets by inclusion), and a least counterexample is refuted.
* `LifecycleTablesProofs!AlwaysTablesAgree`, `AlwaysNothingUnread`, `AlwaysTypeOK`:
  `TablesAgree`, `NothingUnread` and `TypeOK` of `Lifecycle`. The first two need where
  everything is that a call of the main program has set in motion. The invariant `Flow`
  says what each message on its way tells of the state of its sender, its receiver
  and the main program (`Letters`), which messages end a conversation and so are the last
  in their channel (`Lasts`), and what a node has read when it ends (`Finish`). A node's
  registration is to be sent, in a message, queued, held by a worker or a thief, or
  answered; `Counting` says that the main program's join counter is the number of
  registrations and answers under way, so that none is when it is back in the main program.
  `Agreeing` then follows the tables: without stealing each node makes its own entry
  once, at the position the others use. At the end every kind of message is excluded by
  what it would say of the state. A library that is not thread safe lets a thief give up
  its request, so what a request says holds only while nobody has (`Fresh`). `TypeOK` needs
  besides that each worker counts itself once (`Births`).
* `ReadyQueueProofs!QueueDiscipline`: pointers are descriptors or null, and only the
  owner of the lock is between lock and unlock.
* `ReadyQueueProofs!AlwaysWellLinked`, `QueueImplementsDeque`: `WellLinked` and
  `ImplementsDeque`. `List` says by index which pointers a sequence has; three lemmas show
  what each operation makes of a list, whatever its length. What a thread is about to add
  is not in the list (`ListInv`), or the list would close on itself. That the recursion of
  `Chain` returns the sequence needs no induction: the prefixes of the sequence solve it,
  and at the least step at which two solutions differed they would agree one step earlier.

The assumptions are those named in the modules: a finite set of children or tasks,
at least one node, worker and level, distinct names; in `Messaging`, `MAX_NVPS` is below 100
(it is 64, `torc_internal.h:27`), so that the tags of replies, which begin at 100, meet
no other tag.

Only model-checked: the liveness properties `WaitReturns`, `EveryTaskFinishes`,
`EveryWaitReturns`, `EveryTaskCompletes` and `EveryNodeEnds` (fairness and `ENABLED` are out
of the prover's reach). Every safety property of a passing run, and both refinements, are
proved.

## 5. What was found

* `torc_waitall3` (`torc.c:40-67`) takes the guard off without the clamp of
  `_torc_block` and leaves its loop only at `ndep == 0`. Called with nothing created
  it goes to -1 and never returns, while its comment says it "Waits for all
  communications dependencies to complete" (`torc.c:37`). Run `join_spin_empty`.

* With an MPI library that is not thread safe, for which `enter_comm_cs` is written
  (`torc_comm.c:31`), two nodes that send each other a task with an argument can block
  for ever: each server holds `comm_m` while it waits for the argument
  (`torc_comm.c:415-418`), which the other node's worker can only send inside its own
  `comm_m`. Run `unsafe_comm`. The receives of descriptors poll instead and do not block.
* `torc_reset_statistics` never stops (`torc_server.c:243`): the handler of its message
  calls it again, where `_torc_reset_statistics` is meant, and the message comes back.
  Run `reset_storm`. With more than two nodes the messages multiply, and they keep servers
  and termination busy: `EveryNodeEnds` and `NothingUnread` exclude runs with a reset.

Observations that are not findings, because nothing in the repository promises
otherwise:

* `_torc_block2` returns on a test of `ndep` without the lock (`torc_runtime.c:297`).
  The child whose decrement it saw may still be inside `desc->lock`; if the parent
  then returns, its descriptor can be reused under that child. `NoTouchAfterRecycle`
  therefore excludes a last wait of that kind.
* A detached task placed on a node whose only worker runs the main program is run
  only when the main program waits for something else. `EveryTaskFinishes` is
  about tasks with a parent.
* The results of a direct task are sent by a server thread with tag `MAX_NVPS`, which is
  also the tag of every descriptor of its node: the home server may take the descriptor
  of another worker of that node for a result. `messages` has no direct task with
  results. The reply to a server's stealing request would have a tag the receiver does
  not expect (`torc_comm.c:367` against `:438`), but servers do not steal.
* A task stolen after `torc_broadcast` may run on a node whose buffer is still being
  filled, since `MPI_Ssend` returns when the receive has been matched; `BroadcastFirst`
  is about tasks sent to the node, which its server takes after the broadcast.
* `torc_register_task` after start-up names the workers by `i * kthreads`, which is a
  worker of node `i` if all nodes have as many (`RegistrationAssumption`), and its tasks
  can be stolen: with stealing on, a node may register twice and another not at all, so
  that their tables differ. `TablesAgree` excludes registrations after the enabling.
* A by-address argument of more than one element is sent as the contents of the
  descriptor's slot (`torc_comm.c:243`, `:247`), and the buffers of pointer arguments on
  the executing node are not freed. No demo passes the former.
* With a library that is not thread safe, receives are abandoned with their request still
  outstanding at the end, and messages stay unread.
* The branch of `process_a_received_descriptor` for work that comes back to its home
  node (`torc_server.c:107`) is never taken: work is sent to another node only when
  it is created, and stolen work travels in the reply.

## 6. Not modelled

* The round robin of `torc_to_rq_end`: creations choose any node. Argument lists: the
  dispatch on `narg` (`torc_runtime.c:8-119`), whose macros skip or misplace arguments
  from the eighteenth on, and by-address arrays.
* `torc_finalize` by a task other than the main program; registration with numbers of
  workers that do not meet `RegistrationAssumption`; more functions than the table holds.
* MPI itself, and failures of it: the library has no recovery, no timeout and no retry, so
  there is no fault model. Memory of the pool of descriptors beyond its counters.
* `torc_waitall2` is modelled in `JoinCounter` only, and `torc_scheduler_loop` called by a
  task (`torc.c:69`, as `demo/async.c` does) not at all: a task runs others only in a wait.
* What the application has to take care of is a guard of the model, not a property: a
  task calls `torc_waitall3` only for direct tasks that are on their way to a server or
  executed there (`SpinWait`), and waits for what it created before it returns (`Return`).
* Counting and printing of statistics, debug output, the Fortran wrappers (which repeat the C functions),
  nullmpi, demos and build files: no logic of the library of their own.
* `torc_to_rq`, `torc_to_nrq`, `torc_to_lrq` and the other placements at the head of a
  queue are not called by the creation functions; the list operation they use,
  `_enqueue_head`, is part of `ReadyQueue`.

## 7. Plan

1. `TaskRuntime` with `torc_waitall2` and `torc_scheduler_loop`, the former against its
   description as blocking until no work exists in the cluster (`torc_runtime.c:269`).
2. Direct tasks with results in `Messaging`, and the theorems without `QuietServers`, once
   the tag of their results is settled.
