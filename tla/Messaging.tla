------------------------------ MODULE Messaging ------------------------------
(***************************************************************************)
(* How the arguments and the results of a task travel: the descriptor of a *)
(* task, the messages that carry its arguments, the buffers on each node,  *)
(* and the tags by which a receive finds its message.                      *)
(*                                                                         *)
(* Every descriptor is sent with the tag MAX_NVPS, which only a server     *)
(* receives; what follows it has the sender's tag, or, in the answer to a  *)
(* thief, a tag made from the thief's.  MPI keeps the order of the         *)
(* messages of one thread with one tag; a receive names the source node    *)
(* and the tag, and messages of other threads may come in between.  Sends  *)
(* are buffered, except the synchronous one of torc_broadcast.             *)
(*                                                                         *)
(* With an MPI library that is not thread safe every call to it is made    *)
(* inside comm_m, and a receive that waits holds it until the message is   *)
(* there.                                                                  *)
(*                                                                         *)
(* Waiting for tasks is left out: a task of the model is complete when its *)
(* parent's join counter would be decremented.                             *)
(***************************************************************************)
EXTENDS Integers, SequencesExt, FiniteSetsExt

CONSTANTS
  N,            \* number of nodes
  Worker,       \* worker threads of all nodes
  node_of,      \* the node of each worker
  vpid,         \* its number on that node
  MAX_NVPS,     \* bound on the workers of a node, and the tag of a server
  Task,         \* the tasks the application creates, each once
  creator,      \* the worker or the task that creates it
  target,       \* the node it is created for
  Direct,       \* the tasks created with torc_task_direct
  args,         \* the arguments of each task: quantity and call way
  Broadcaster,  \* the worker that first broadcasts a buffer, or NULL
  Thieves,      \* sets of nodes where stealing may be switched on at first
  SafetyLevels, \* is the MPI library thread safe?  the values to consider
  NULL

Node   == 0 .. N - 1
Thread == Worker \cup Node   \* a server thread is named by its node

\* A by-address argument of more than one element is sent as the contents of
\* the descriptor's slot; no caller does that, and it is left out.
ArgSpec == {a \in [quantity : 0 .. 2, callway : {"COP", "VAD", "REF", "PTR", "RES"}] :
              a.callway = "VAD" => a.quantity <= 1}

ASSUME NodesAssumption ==
  /\ N \in Nat \ {0}
  /\ node_of \in [Worker -> Node]
  /\ MAX_NVPS \in 1 .. 99   \* 64 in the code; ReplyTag must not meet another Tag
  /\ vpid \in [Worker -> 0 .. MAX_NVPS - 1]
  /\ \A v, w \in Worker : node_of[v] = node_of[w] /\ vpid[v] = vpid[w] => v = w
ASSUME TasksAssumption ==
  /\ creator \in [Task -> Worker \cup Task]
  /\ target \in [Task -> Node]
  /\ Direct \subseteq Task
  /\ args \in [Task -> Seq(ArgSpec)]
ASSUME CallsAssumption ==
  Broadcaster \in Worker \cup {NULL} /\ Thieves \subseteq SUBSET Node /\ SafetyLevels \subseteq BOOLEAN

ASSUME DistinctAssumption ==
  /\ Worker \cap Node = {} /\ Worker \cap Task = {} /\ Node \cap Task = {}
  /\ NULL \notin Worker \cup Node \cup Task
  /\ NULL \notin {"none", "in", "out", "freed", "freed twice", "wrong", "old", "new"}

VARIABLES
  thread_safe,        \* does the MPI library support MPI_THREAD_MULTIPLE?
  comm_m,             \* the thread of each node that holds comm_m
  chan,               \* chan[<<s, n>>]: messages of thread s to node n
  doing,              \* what each thread is busy with
  homenode,           \* where a task was created; NULL before
  ready,              \* the tasks in the ready queues of a node
  finished,           \* the tasks whose parent has been told
  localarg,           \* a task's arguments as the creator's node has them
  temparg,            \* temparg[n][t]: the arguments of t in the buffers of node n
  internode_stealing, \* the flag of each node
  buffer,             \* the buffer that is broadcast, on each node
  told,               \* the nodes a broadcast is done with
  after               \* history: tasks created after the broadcast, or by such tasks

values == <<localarg, temparg>>
tasks  == <<homenode, ready, finished>>
bcast  == <<buffer, told, after>>
vars   == <<thread_safe, comm_m, chan, doing, tasks, values, internode_stealing, bcast>>

----------------------------------------------------------------------------
(* Arguments.                                                              *)

Quantity(t, i) == args[t][i].quantity

\* By copy of more than one element is by copy through a private buffer.
Way(t, i) ==
  IF args[t][i].callway = "COP" /\ Quantity(t, i) > 1 THEN "COP2" ELSE args[t][i].callway

Args(t, ways) == {i \in DOMAIN args[t] : Quantity(t, i) # 0 /\ Way(t, i) \in ways}

\* The arguments the sender of a task sends after the descriptor.
SentArgs(t) == Args(t, {"COP2", "REF", "PTR"})

\* Variant of AwaitedArgs: waits for everything that gets a buffer.
AwaitsBuffers(t) == Args(t, {"COP2", "REF", "PTR", "RES"})

\* The arguments the receiver waits for: those that need a buffer, and are
\* not results.
AwaitedArgs(t) ==
  {i \in DOMAIN args[t] : /\ Quantity(t, i) # 0
                          /\ Quantity(t, i) > 1 \/ Way(t, i) \notin {"COP", "VAD"}
                          /\ Way(t, i) # "RES"}

\* Variant of SentResults: pointers are sent back as well.
SendsPointers(t) == Args(t, {"REF", "RES", "PTR"})

\* Variant of SentResults: private copies, already freed, are sent back.
SendsCopies(t) == Args(t, {"REF", "RES", "COP2"})

\* What is sent back with the answer.
SentResults(t) == Args(t, {"REF", "RES"})

\* Variant of AwaitedResults: an argument by reference is taken for an input.
AwaitsOutputs(t) == Args(t, {"RES"})

\* What the home node waits for after the answer.
AwaitedResults(t) == Args(t, {"RES", "REF"})

Inputs(t) == Args(t, {"COP", "COP2", "VAD", "REF", "PTR"})

Outputs(t) == Args(t, {"REF", "RES"})

\* A server that executes a task itself sends no data for it: the task has no
\* results, and passes no arguments to a task for another node.  The data
\* would have the server's tag, which is that of the descriptors as well.
\* The direct tasks of demo/async.c have no results, and those they create
\* take numbers by copy, which travel in the descriptor.
QuietServers ==
  \A t \in Direct :
    /\ Outputs(t) = {}
    /\ \A c \in Task : creator[c] = t =>
         Args(c, {"COP2", "REF", "PTR"}) = {} \/ target[c] = target[t]

\* Contents of an argument: not there, the value its creator passed, or the
\* value the task left in it; freed memory; or something else that arrived.
Content == {"none", "in", "out", "freed", "freed twice", "wrong"}

Freed(v) == IF v \in {"freed", "freed twice"} THEN "freed twice" ELSE "freed"

\* A task has run: outputs are in place, private copies have been freed.
AfterRun(t, v) ==
  [i \in DOMAIN v |-> IF i \in Outputs(t) THEN "out"
                      ELSE IF i \in Args(t, {"COP2"}) THEN Freed(v[i]) ELSE v[i]]

----------------------------------------------------------------------------
(* Threads and messages.                                                   *)

Here(s) == IF s \in Worker THEN node_of[s] ELSE s

\* Variant of Tag: one tag for all the workers of a node.
NodeTag(s) == IF s \in Worker THEN 0 ELSE MAX_NVPS

\* _torc_thread_id: what distinguishes the threads of a node.
Tag(s) == IF s \in Worker THEN vpid[s] ELSE MAX_NVPS

\* Variant of ReplyTag: the answer has the tag of an answer to a server.
ReplyTagOfServer(s) == MAX_NVPS + 1 + 100

\* Tag of the answer to a stealing request.
ReplyTag(s) == Tag(s) + 100

Message ==
  [tag : 0 .. MAX_NVPS + 100,
   type : {"TORC_NORMAL_ENQUEUE", "TORC_ANSWER", "STEALING_REQUEST", "TORC_BCAST",
           "stolen", "TORC_NO_WORK", "data"},
   task : Task \cup {NULL}, i : Nat, value : Content \cup {"old", "new", NULL}]

Descriptor(tag, type, t) ==
  [tag |-> tag, type |-> type, task |-> t, i |-> 0, value |-> NULL]

Data(tag, t, i, v) == [tag |-> tag, type |-> "data", task |-> t, i |-> i, value |-> v]

\* No other thread of the node is inside comm_m.
MayEnter(s) == thread_safe \/ comm_m[Here(s)] = NULL

Inside(s) == thread_safe \/ comm_m[Here(s)] = s

Enter(s) == comm_m' = IF thread_safe THEN comm_m ELSE [comm_m EXCEPT ![Here(s)] = s]

Leave(s) == comm_m' = IF thread_safe THEN comm_m ELSE [comm_m EXCEPT ![Here(s)] = NULL]

Send(s, n, m) == MayEnter(s) /\ chan' = [chan EXCEPT ![<<s, n>>] = Append(@, m)]

\* Position of the first message of s to n with a tag, 0 when there is none.
First(s, n, tag) == SelectInSeq(chan[<<s, n>>], LAMBDA m : m.tag = tag)

Receive(s, n, tag) ==
  First(s, n, tag) # 0 /\ chan' = [chan EXCEPT ![<<s, n>>] = RemoveAt(@, First(s, n, tag))]

Received(s, n, tag) == chan[<<s, n>>][First(s, n, tag)]

\* What a receive of argument i of t finds in the message m.
ArgValue(m, t, i) == IF m.type = "data" /\ m.task = t /\ m.i = i THEN m.value ELSE "wrong"

----------------------------------------------------------------------------
(* Activities.  op says what a thread does with task; left are the         *)
(* arguments still to be sent or received, in order; peer is the other     *)
(* node and tag the tag used.  inside is the task it goes on with.         *)

Activity ==
  [op : {"idle", "run", "send", "result", "receive", "collect", "asked", "refused",
         "bcast", "ssend", "telling", "buffer", "arriving"},
   task : Task \cup {NULL}, left : SUBSET Nat, peer : Node \cup {NULL},
   tag : 0 .. MAX_NVPS + 100, inside : Task \cup {NULL}]

Act(op, t, left, peer, tag, inside) ==
  [op |-> op, task |-> t, left |-> left, peer |-> peer, tag |-> tag, inside |-> inside]

Idle   == Act("idle", NULL, {}, NULL, 0, NULL)
Run(t) == Act("run", t, {}, NULL, 0, NULL)

\* A sender with nothing left to send goes on with what it was inside of.
Settle(d) == IF d.left # {} THEN d ELSE IF d.inside = NULL THEN Idle ELSE Run(d.inside)

Do(s, d) == doing' = [doing EXCEPT ![s] = d]

NextArg(s) == Min(doing[s].left)

OneLess(s) == [doing[s] EXCEPT !.left = @ \ {NextArg(s)}]

Others(w) == Node \ {Here(w)}

Init ==
  /\ thread_safe \in SafetyLevels
  /\ comm_m = [n \in Node |-> NULL]
  /\ chan = [c \in Thread \X Node |-> <<>>]
  /\ doing = [s \in Thread |-> Idle]
  /\ homenode = [t \in Task |-> NULL]
  /\ ready = [n \in Node |-> {}]
  /\ finished = {}
  /\ localarg = [t \in Task |-> [i \in DOMAIN args[t] |-> "none"]]
  /\ temparg = [n \in Node |-> [t \in Task |-> [i \in DOMAIN args[t] |-> "none"]]]
  /\ internode_stealing \in {[n \in Node |-> n \in T] : T \in Thieves}
  /\ buffer = [n \in Node |->
                 IF Broadcaster # NULL THEN IF n = node_of[Broadcaster] THEN "new" ELSE "old"
                                       ELSE "old"]
  /\ told = {}
  /\ after = {}

----------------------------------------------------------------------------
(* Creating a task, here or on another node.                               *)

\* Thread s runs the code that creates t, and has broadcast what it should.
CallsFor(s, t) ==
  \/ doing[s].op = "run" /\ creator[t] = doing[s].task
  \/ doing[s].op = "idle" /\ creator[t] = s /\ (s = Broadcaster => told = Others(s))

\* Copies are made, pointers are kept; then the descriptor goes to the ready
\* queue of this node, or to another node.
Create(s, t) ==
  /\ homenode[t] = NULL
  /\ CallsFor(s, t)
  /\ homenode' = [homenode EXCEPT ![t] = Here(s)]
  /\ localarg' = [localarg EXCEPT ![t] = [i \in DOMAIN @ |->
                                            IF i \in Inputs(t) THEN "in" ELSE "none"]]
  /\ after' = IF creator[t] \in after \cup {Broadcaster} THEN after \cup {t} ELSE after
  /\ IF target[t] = Here(s)
       THEN /\ ready' = [ready EXCEPT ![Here(s)] = @ \cup {t}]
            /\ UNCHANGED <<chan, doing>>
       ELSE /\ Send(s, target[t], Descriptor(MAX_NVPS, "TORC_NORMAL_ENQUEUE", t))
            /\ Do(s, Settle(Act("send", t, SentArgs(t), target[t], Tag(s), doing[s].task)))
            /\ UNCHANGED ready
  /\ UNCHANGED <<thread_safe, comm_m, finished, temparg, internode_stealing, buffer, told>>

\* send_arguments: from the creator's memory, or from the buffers of a node
\* that hands on what it was given.
SendArgument(s) ==
  LET d == doing[s]
      i == NextArg(s)
      v == IF homenode[d.task] # Here(s) THEN temparg[Here(s)][d.task][i]
                                         ELSE localarg[d.task][i]
  IN  /\ d.op = "send"
      /\ Send(s, d.peer, Data(d.tag, d.task, i, v))
      /\ Do(s, Settle(OneLess(s)))
      /\ UNCHANGED <<thread_safe, comm_m, tasks, values, internode_stealing, bcast>>

----------------------------------------------------------------------------
(* The server thread: one descriptor at a time, from any thread.           *)

\* Server n takes a descriptor of thread s.
Accepts(n, s, type) ==
  /\ doing[n].op = "idle"
  /\ MayEnter(n)
  /\ First(s, n, MAX_NVPS) # 0
  /\ Received(s, n, MAX_NVPS).type = type

AcceptedTask(n, s) == Received(s, n, MAX_NVPS).task

\* receive_arguments: buffers are allocated; what the descriptor carries
\* itself is copied, the rest is waited for.
Allocate(r, t, peer, tag) ==
  /\ temparg' = [temparg EXCEPT ![Here(r)][t] =
                   [i \in DOMAIN @ |-> IF i \in Args(t, {"COP", "VAD"}) THEN localarg[t][i]
                                                                        ELSE "none"]]
  /\ Do(r, Act("receive", t, AwaitedArgs(t), peer, tag, NULL))

RecvWork(n, s) ==
  /\ Accepts(n, s, "TORC_NORMAL_ENQUEUE")
  /\ Receive(s, n, MAX_NVPS)
  /\ Allocate(n, AcceptedTask(n, s), Here(s), Tag(s))
  /\ UNCHANGED <<thread_safe, comm_m, tasks, localarg, internode_stealing, bcast>>

\* An answer: the private copies are freed, the results are waited for.
RecvAnswer(n, s) ==
  LET t == AcceptedTask(n, s)
  IN  /\ Accepts(n, s, "TORC_ANSWER")
      /\ Receive(s, n, MAX_NVPS)
      /\ localarg' = [localarg EXCEPT ![t] =
                        [i \in DOMAIN @ |-> IF i \in Args(t, {"COP2"}) THEN Freed(@[i]) ELSE @[i]]]
      /\ Do(n, Act("collect", t, AwaitedResults(t), Here(s), Tag(s), NULL))
      /\ UNCHANGED <<thread_safe, comm_m, tasks, temparg, internode_stealing, bcast>>

\* A request for work: a ready task, with its arguments unless the thief is
\* at its home, or nothing.
ServeThief(n, s) ==
  /\ Accepts(n, s, "STEALING_REQUEST")
  /\ LET rest == RemoveAt(chan[<<s, n>>], First(s, n, MAX_NVPS))
         Reply(m) == chan' = [chan EXCEPT ![<<s, n>>] = rest, ![<<n, Here(s)>>] = Append(@, m)]
     IN  \/ \E t \in ready[n] :
              /\ ready' = [ready EXCEPT ![n] = @ \ {t}]
              /\ Reply(Descriptor(ReplyTag(s), "stolen", t))
              /\ Do(n, IF homenode[t] = Here(s) THEN Idle
                       ELSE Settle(Act("send", t, SentArgs(t), Here(s), ReplyTag(s), NULL)))
         \/ /\ ready[n] = {}
            /\ Reply(Descriptor(ReplyTag(s), "TORC_NO_WORK", NULL))
            /\ UNCHANGED <<ready, doing>>
  /\ UNCHANGED <<thread_safe, comm_m, homenode, finished, values, internode_stealing, bcast>>

RecvBcast(n, s) ==
  /\ Accepts(n, s, "TORC_BCAST")
  /\ Receive(s, n, MAX_NVPS)
  /\ Do(n, Act("buffer", NULL, {0}, Here(s), Tag(s), NULL))
  /\ UNCHANGED <<thread_safe, comm_m, tasks, values, internode_stealing, bcast>>

----------------------------------------------------------------------------
(* Receiving what follows a descriptor.                                    *)

\* With a library that is not thread safe, comm_m is taken before the wait.
EnterToReceive(s) ==
  /\ ~thread_safe
  /\ doing[s].op \in {"receive", "collect", "buffer"}
  /\ doing[s].left # {}
  /\ MayEnter(s)
  /\ Enter(s)
  /\ UNCHANGED <<thread_safe, chan, doing, tasks, values, internode_stealing, bcast>>

\* A thread of the peer whose message the wait of r ends with.
Matches(r, s) ==
  Inside(r) /\ Here(s) = doing[r].peer /\ Receive(s, Here(r), doing[r].tag)

RecvArgument(r, s) ==
  LET d == doing[r]
      i == NextArg(r)
  IN  /\ d.op = "receive"
      /\ d.left # {}
      /\ Matches(r, s)
      /\ temparg' = [temparg EXCEPT ![Here(r)][d.task][i] =
                       ArgValue(Received(s, Here(r), d.tag), d.task, i)]
      /\ Do(r, OneLess(r))
      /\ Leave(r)
      /\ UNCHANGED <<thread_safe, tasks, localarg, internode_stealing, bcast>>

\* All arguments are there: the server executes a direct task and queues any
\* other; a thief executes what it stole.
HaveArguments(r) ==
  LET t == doing[r].task
  IN  /\ doing[r].op = "receive"
      /\ doing[r].left = {}
      /\ IF r \in Worker \/ t \in Direct
           THEN Do(r, Run(t)) /\ UNCHANGED ready
           ELSE Do(r, Idle) /\ ready' = [ready EXCEPT ![r] = @ \cup {t}]
      /\ UNCHANGED <<thread_safe, comm_m, chan, homenode, finished, values,
                     internode_stealing, bcast>>

CollectResult(r, s) ==
  LET d == doing[r]
      i == NextArg(r)
  IN  /\ d.op = "collect"
      /\ d.left # {}
      /\ Matches(r, s)
      /\ localarg' = [localarg EXCEPT ![d.task][i] =
                        ArgValue(Received(s, Here(r), d.tag), d.task, i)]
      /\ Do(r, OneLess(r))
      /\ Leave(r)
      /\ UNCHANGED <<thread_safe, tasks, temparg, internode_stealing, bcast>>

\* All results are there: the parent is told.
HaveResults(r) ==
  /\ doing[r].op = "collect"
  /\ doing[r].left = {}
  /\ finished' = finished \cup {doing[r].task}
  /\ Do(r, Idle)
  /\ UNCHANGED <<thread_safe, comm_m, chan, homenode, ready, values, internode_stealing, bcast>>

----------------------------------------------------------------------------
(* Running a task and sending its results home.                            *)

TakeReady(w, t) ==
  /\ doing[w].op = "idle"
  /\ t \in ready[Here(w)]
  /\ ready' = [ready EXCEPT ![Here(w)] = @ \ {t}]
  /\ Do(w, Run(t))
  /\ UNCHANGED <<thread_safe, comm_m, chan, homenode, finished, values, internode_stealing, bcast>>

CreatedAll(t) == \A c \in Task : creator[c] = t => homenode[c] # NULL

FinishAtHome(s) ==
  LET t == doing[s].task
  IN  /\ doing[s].op = "run"
      /\ CreatedAll(t)
      /\ homenode[t] = Here(s)
      /\ localarg' = [localarg EXCEPT ![t] = AfterRun(t, @)]
      /\ finished' = finished \cup {t}
      /\ Do(s, Idle)
      /\ UNCHANGED <<thread_safe, comm_m, chan, homenode, ready, temparg, internode_stealing, bcast>>

FinishAway(s) ==
  LET t == doing[s].task
  IN  /\ doing[s].op = "run"
      /\ CreatedAll(t)
      /\ homenode[t] # Here(s)
      /\ temparg' = [temparg EXCEPT ![Here(s)][t] = AfterRun(t, @)]
      /\ Send(s, homenode[t], Descriptor(MAX_NVPS, "TORC_ANSWER", t))
      /\ Do(s, Settle(Act("result", t, SentResults(t), homenode[t], Tag(s), NULL)))
      /\ UNCHANGED <<thread_safe, comm_m, tasks, localarg, internode_stealing, bcast>>

\* A result goes home; the buffer it was in is freed, unless it has one element.
SendResult(s) ==
  LET d == doing[s]
      i == NextArg(s)
  IN  /\ d.op = "result"
      /\ Send(s, d.peer, Data(d.tag, d.task, i, temparg[Here(s)][d.task][i]))
      /\ temparg' = IF Quantity(d.task, i) > 1
                      THEN [temparg EXCEPT ![Here(s)][d.task][i] = Freed(@)] ELSE temparg
      /\ Do(s, Settle(OneLess(s)))
      /\ UNCHANGED <<thread_safe, comm_m, tasks, localarg, internode_stealing, bcast>>

----------------------------------------------------------------------------
(* Stealing: a worker with nothing to do asks the other nodes in turn.     *)

\* internode_m: one request of a node at a time.
NoneAsking(n) ==
  \A w \in Worker : Here(w) = n => doing[w].op \notin {"asked", "receive"}

AskForWork(w) ==
  LET n == Here(w)
      v == ((IF doing[w].op = "refused" THEN doing[w].peer ELSE n) + 1) % N
  IN  /\ \/ doing[w].op = "idle" /\ ready[n] = {} /\ internode_stealing[n] /\ v # n
         \/ doing[w].op = "refused" /\ v # n
      /\ NoneAsking(n)
      /\ Send(w, v, Descriptor(MAX_NVPS, "STEALING_REQUEST", NULL))
      /\ Do(w, Act("asked", NULL, {}, v, ReplyTag(w), NULL))
      /\ UNCHANGED <<thread_safe, comm_m, tasks, values, internode_stealing, bcast>>

\* Every node has refused: stealing is switched off here.
GiveUp(w) ==
  /\ doing[w].op = "refused"
  /\ (doing[w].peer + 1) % N = Here(w)
  /\ internode_stealing' = [internode_stealing EXCEPT ![Here(w)] = FALSE]
  /\ Do(w, Idle)
  /\ UNCHANGED <<thread_safe, comm_m, chan, tasks, values, bcast>>

Answered(w, type) ==
  LET d == doing[w]
  IN  /\ d.op = "asked"
      /\ MayEnter(w)
      /\ Receive(d.peer, Here(w), d.tag)
      /\ Received(d.peer, Here(w), d.tag).type = type

Refused(w) ==
  /\ Answered(w, "TORC_NO_WORK")
  /\ Do(w, [doing[w] EXCEPT !.op = "refused"])
  /\ UNCHANGED <<thread_safe, comm_m, tasks, values, internode_stealing, bcast>>

\* A task: its arguments follow, unless it has come home.
Stolen(w) ==
  LET d == doing[w]
      t == Received(d.peer, Here(w), d.tag).task
  IN  /\ Answered(w, "stolen")
      /\ IF homenode[t] # Here(w) THEN Allocate(w, t, d.peer, d.tag)
                                  ELSE Do(w, Run(t)) /\ UNCHANGED temparg
      /\ UNCHANGED <<thread_safe, comm_m, tasks, localarg, internode_stealing, bcast>>

----------------------------------------------------------------------------
(* torc_broadcast: to each other node a descriptor, then the buffer, sent  *)
(* synchronously.                                                          *)

Broadcast(w) ==
  /\ w = Broadcaster
  /\ doing[w].op = "telling" \/ (doing[w].op = "idle" /\ told = {})
  /\ Others(w) \ told # {}
  /\ LET n == Min(Others(w) \ told)
     IN  /\ Send(w, n, Descriptor(MAX_NVPS, "TORC_BCAST", NULL))
         /\ Do(w, Act("bcast", NULL, {}, n, Tag(w), NULL))
  /\ UNCHANGED <<thread_safe, comm_m, tasks, values, internode_stealing, bcast>>

Ssend(w) ==
  /\ doing[w].op = "bcast"
  /\ Send(w, doing[w].peer, Data(doing[w].tag, NULL, 0, buffer[Here(w)]))
  /\ Do(w, [doing[w] EXCEPT !.op = "ssend"])
  /\ Enter(w)
  /\ UNCHANGED <<thread_safe, tasks, values, internode_stealing, bcast>>

\* Variant of SsendDone: a buffered send.
SendDone(w) == doing[w].op = "ssend"

\* The synchronous send ends when the receive has been matched.
SsendDone(w) == doing[w].op = "ssend" /\ First(w, doing[w].peer, doing[w].tag) = 0

Told(w) ==
  /\ SsendDone(w)
  /\ told' = told \cup {doing[w].peer}
  /\ Do(w, IF told' = Others(w) THEN Idle ELSE Act("telling", NULL, {}, NULL, 0, NULL))
  /\ Leave(w)
  /\ UNCHANGED <<thread_safe, chan, tasks, values, internode_stealing, buffer, after>>

\* The server's receive is matched; the contents may arrive later.
MatchBuffer(n, s) ==
  /\ doing[n].op = "buffer"
  /\ Matches(n, s)
  /\ Do(n, [doing[n] EXCEPT !.op = "arriving"])
  /\ UNCHANGED <<thread_safe, comm_m, tasks, values, internode_stealing, bcast>>

BufferArrives(n) ==
  /\ doing[n].op = "arriving"
  /\ buffer' = [buffer EXCEPT ![n] = "new"]
  /\ Do(n, Idle)
  /\ Leave(n)
  /\ UNCHANGED <<thread_safe, chan, tasks, values, internode_stealing, told, after>>

----------------------------------------------------------------------------

ServerStep(n) ==
  \/ \E s \in Thread : \/ RecvWork(n, s) \/ RecvAnswer(n, s) \/ ServeThief(n, s)
                       \/ RecvBcast(n, s) \/ CollectResult(n, s) \/ MatchBuffer(n, s)
  \/ HaveResults(n) \/ BufferArrives(n)

WorkerStep(w) ==
  \/ \E t \in Task : TakeReady(w, t)
  \/ AskForWork(w) \/ GiveUp(w) \/ Refused(w) \/ Stolen(w)
  \/ Broadcast(w) \/ Ssend(w) \/ Told(w)

ThreadStep(s) ==
  \/ \E t \in Task : Create(s, t)
  \/ SendArgument(s) \/ EnterToReceive(s) \/ HaveArguments(s)
  \/ \E r \in Thread : RecvArgument(s, r)
  \/ FinishAtHome(s) \/ FinishAway(s) \/ SendResult(s)
  \/ s \in Node /\ ServerStep(s)
  \/ s \in Worker /\ WorkerStep(s)

Next == \E s \in Thread : ThreadStep(s)

Fairness == \A s \in Thread : WF_vars(ThreadStep(s))

Spec == Init /\ [][Next]_vars

FairSpec == Spec /\ Fairness

----------------------------------------------------------------------------
(* Properties.                                                             *)

\* Types of the variables: in particular messages only of the kinds above.
TypeOK ==
  /\ thread_safe \in BOOLEAN
  /\ comm_m \in [Node -> Thread \cup {NULL}]
  /\ chan \in [Thread \X Node -> Seq(Message)]
  /\ doing \in [Thread -> Activity]
  /\ homenode \in [Task -> Node \cup {NULL}]
  /\ ready \in [Node -> SUBSET Task]
  /\ finished \subseteq Task
  /\ \A t \in Task : /\ localarg[t] \in [DOMAIN args[t] -> Content]
                     /\ \A n \in Node : temparg[n][t] \in [DOMAIN args[t] -> Content]
  /\ internode_stealing \in [Node -> BOOLEAN]
  /\ buffer \in [Node -> {"old", "new"}]
  /\ told \subseteq Node
  /\ after \subseteq Task

Runs(s, t) == doing[s].op = "run" /\ doing[s].task = t

\* A task finds in its arguments what its creator passed, wherever it runs
\* and however many nodes it went through: send_arguments and
\* receive_arguments agree on what is sent, in what order and with which
\* tag, while other threads of the node send theirs to the same server.
InputsArrive ==
  \A s \in Thread, t \in Task :
    Runs(s, t) =>
      \A i \in Inputs(t) :
        (IF homenode[t] = Here(s) THEN localarg[t][i] ELSE temparg[Here(s)][t][i]) = "in"

\* When the parent is told that a task is complete, its results are in the
\* creator's memory and the private copies have been freed, once.
ResultsArrive ==
  \A t \in finished :
    /\ \A i \in Outputs(t) : localarg[t][i] = "out"
    /\ \A i \in Args(t, {"COP2"}) : localarg[t][i] = "freed"

\* No buffer is freed twice, the private copies of the home node (freed by
\* _torc_cleanup or on the answer) included, nor sent after it was freed.
FreedOnce ==
  /\ \A t \in Task : "freed twice" \notin Range(localarg[t])
  /\ \A n \in Node, t \in Task : "freed twice" \notin Range(temparg[n][t])
  /\ \A c \in Thread \X Node : \A m \in Range(chan[c]) : m.value \notin {"freed", "freed twice"}

\* When all tasks are complete and all threads are idle, no message is left
\* that a later receive of the same tag would take for its own.
NothingLeftOver ==
  finished = Task /\ (\A s \in Thread : doing[s] = Idle)
    => \A c \in Thread \X Node : chan[c] = <<>>

\* A task created after torc_broadcast returned, or by such a task wherever
\* that ran, finds the new contents of the buffer on the node it was sent to:
\* the server there has taken the broadcast first.  (A thief gets its task
\* from another node's server: nothing orders that with its own server.)
BroadcastFirst ==
  \A s \in Thread, t \in after :
    Runs(s, t) /\ Here(s) = target[t] /\ Here(s) # homenode[t] => buffer[Here(s)] = "new"

\* With a thread safe MPI library every task the application creates is
\* executed and reported complete.
EveryTaskCompletes == thread_safe => <>(finished = Task)

\* The same whatever the library supports: comm_m is there for this case.
EveryTaskCompletesAnyway == <>(finished = Task)

=============================================================================
