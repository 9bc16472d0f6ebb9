------------------------- MODULE TaskRuntimeProofs --------------------------
(***************************************************************************)
(* Type correctness of the runtime, and then where tasks and stealing      *)
(* requests are (the second part has its own introduction), for any number *)
(* of nodes, workers, tasks and levels.                                    *)
(*                                                                         *)
(* TypeOK is not inductive: a thread that takes a task out of a queue or a *)
(* message follows its descriptor, and a worker acts for the task on top   *)
(* of its stack.  One must know that every descriptor that is held         *)
(* anywhere exists (Held), that a worker which is not searching for work   *)
(* has a task to act for (Positions), and that the owner of internode_m is *)
(* in the middle of a request to another node (Owners).                    *)
(***************************************************************************)
EXTENDS TaskRuntime, FiniteSetTheorems, SequenceTheorems, TLAPS

\* Tasks that have been created, and what acts for itself on a stack.
Live      == {t \in Task : desc[t] # NULL}
LiveFrame == Live \cup {Root}

LiveMessage ==
       [type : {"TORC_NORMAL_ENQUEUE", "TORC_ANSWER"}, arg : Live]
  \cup [type : {"STEALING_REQUEST"}, arg : Worker]
  \cup [type : {"ENABLE_STEALING", "DISABLE_STEALING"}, arg : {NULL}]

\* Scalars and counters.
Plain ==
  /\ desc \in [Task -> TaskDesc \cup {NULL}]
  /\ ndep \in [Frame -> Int]
  /\ forked \in [Frame -> 0 .. 1]
  /\ pc \in [Worker -> WorkerPC]
  /\ at \in [Worker -> StealLoop .. PrivateQueue]
  /\ victim \in [Worker -> Node \cup {NULL}]
  /\ internode_m \in [Node -> Worker \cup {NULL}]
  /\ internode_stealing \in [Node -> BOOLEAN]
  /\ scan_at \in [Node -> Levels]
  /\ toggles \in 0 .. MaxToggles

\* Every task in a queue, a message or a thread's hands has been created.
Held ==
  /\ private_grq \in [Node -> Seq(Live)]
  /\ public_grq \in [Node -> [Levels -> Seq(Live)]]
  /\ chan \in [Thread \X Node -> Seq(LiveMessage)]
  /\ reply \in [Worker -> Live \cup {NULL, "TORC_NO_WORK"}]
  /\ stack \in [Worker -> Seq(LiveFrame)]
  /\ hand \in [Worker -> Live \cup {NULL}]
  /\ serving \in [Node -> Live \cup Worker \cup {NULL}]

\* What a worker has in hand at each point.
Positions ==
  \A w \in Worker :
    /\ pc[w] \notin {"scan", "rescan"} => stack[w] # <<>>
    /\ pc[w] = "clean" => Self(w) # Root
    /\ pc[w] = "stash" => hand[w] # NULL
    /\ at[w] = StealLoop => victim[w] \in Node

\* The owner of internode_m is stealing, from another node than its own.
Owners ==
  \A n \in Node :
    LET w == internode_m[n]
    IN  w # NULL => /\ node_of[w] = n
                    /\ Searching(w)
                    /\ at[w] = StealLoop
                    /\ victim[w] # n

TypeInv == Plain /\ Held /\ Positions /\ Owners

----------------------------------------------------------------------------
(* The constants.                                                          *)

\* The assumptions of TaskRuntime, in the form the proofs use.
LEMMA Constants ==
  /\ N \in Nat \ {0} /\ NumLevels \in Nat \ {0} /\ MaxToggles \in Nat
  /\ \A w \in Worker : node_of[w] \in Node
  /\ Main \in Worker
  /\ \A t \in Task : t # Root /\ t # NULL /\ t # "TORC_NO_WORK" /\ t \notin Worker
  /\ \A w \in Worker : w # NULL /\ w \notin Task /\ w \notin Node
  /\ Root # NULL /\ NULL \notin TaskDesc
  /\ \A n \in Node : n \in Int /\ NextNode(n) \in Node
  /\ \A level \in Nat : PublicLevel(level) \in Levels
<1>1. \A n \in Node : n \in Int /\ NextNode(n) \in Node
  BY NodesAssumption DEF Node, NextNode
<1>2. \A level \in Nat : PublicLevel(level) \in Levels
  BY LevelsAssumption DEF PublicLevel, Levels
<1> QED
  BY <1>1, <1>2, NodesAssumption, MainAssumption, TasksAssumption, LevelsAssumption,
     CallsAssumption, NamesAssumption

\* The task a worker acts for, and what is below it.
LEMMA SelfLive ==
  ASSUME Held, NEW w \in Worker, stack[w] # <<>>
  PROVE  Self(w) \in LiveFrame /\ Front(stack[w]) \in Seq(LiveFrame)
<1>1. stack[w] \in Seq(LiveFrame) /\ Len(stack[w]) \in 1 .. Len(stack[w])
  BY EmptySeq, LenProperties DEF Held
<1>2. Self(w) \in LiveFrame
  BY <1>1, ElementOfSeq DEF Self, Last
<1>3. \A i \in 1 .. Len(stack[w]) - 1 : stack[w][i] \in LiveFrame
  BY <1>1, ElementOfSeq
<1>4. Len(stack[w]) - 1 \in Int
  BY <1>1, LenProperties
<1> QED
  BY <1>2, <1>3, <1>4, SubSeqProperties DEF Front

----------------------------------------------------------------------------
(* Queues and channels whose elements lie in any set S.                    *)

\* A message sent or received leaves sequences of messages.
LEMMA SendType ==
  ASSUME NEW S, chan \in [Thread \X Node -> Seq(S)],
         NEW s, NEW n, NEW m \in S, Send(s, n, m)
  PROVE  chan' \in [Thread \X Node -> Seq(S)]
BY AppendProperties DEF Send

LEMMA ReceiveType ==
  ASSUME NEW S, chan \in [Thread \X Node -> Seq(S)],
         NEW s \in Thread, NEW n \in Node, chan[<<s, n>>] # <<>>, Receive(s, n)
  PROVE  chan' \in [Thread \X Node -> Seq(S)]
<1>1. Tail(chan[<<s, n>>]) \in Seq(S)
  BY HeadTailProperties
<1> QED
  BY <1>1 DEF Receive

\* So do a task that enters the public queues and one that leaves them.
LEMMA ToPublicType ==
  ASSUME NEW S, public_grq \in [Node -> [Levels -> Seq(S)]],
         NEW n \in Node, NEW t \in S, NEW level \in Nat, ToPublic(n, t, level)
  PROVE  public_grq' \in [Node -> [Levels -> Seq(S)]]
<1>1. PublicLevel(level) \in Levels
  BY Constants
<1>2. Append(public_grq[n][PublicLevel(level)], t) \in Seq(S)
  BY <1>1, AppendProperties
<1> QED
  BY <1>1, <1>2 DEF ToPublic

LEMMA DequeueType ==
  ASSUME NEW S, public_grq \in [Node -> [Levels -> Seq(S)]],
         NEW n \in Node, NEW l \in Levels, public_grq[n][l] # <<>>
  PROVE  /\ Head(public_grq[n][l]) \in S
         /\ [public_grq EXCEPT ![n][l] = Dequeue(public_grq[n][l])]
              \in [Node -> [Levels -> Seq(S)]]
<1>1. /\ Head(public_grq[n][l]) \in S
      /\ Tail(public_grq[n][l]) \in Seq(S)
  BY HeadTailProperties
<1> QED
  BY <1>1 DEF Dequeue

\* What was held before a task is created is held after it.
LEMMA HeldGrows ==
  ASSUME Held, Live \subseteq Live'
  PROVE  /\ private_grq \in [Node -> Seq(Live')]
         /\ public_grq \in [Node -> [Levels -> Seq(Live')]]
         /\ chan \in [Thread \X Node -> Seq(LiveMessage')]
         /\ reply \in [Worker -> Live' \cup {NULL, "TORC_NO_WORK"}]
         /\ stack \in [Worker -> Seq(LiveFrame')]
         /\ hand \in [Worker -> Live' \cup {NULL}]
         /\ serving \in [Node -> Live' \cup Worker \cup {NULL}]
<1>1. LiveMessage \subseteq LiveMessage' /\ LiveFrame \subseteq LiveFrame'
  BY DEF LiveMessage, LiveFrame
<1>2. /\ Seq(Live) \subseteq Seq(Live')
      /\ Seq(LiveMessage) \subseteq Seq(LiveMessage')
      /\ Seq(LiveFrame) \subseteq Seq(LiveFrame')
  BY <1>1, SeqMonotonic
<1> QED
  BY <1>2 DEF Held

----------------------------------------------------------------------------
\* The initial state satisfies the invariant.
LEMMA TypeInit == Init => TypeInv
<1> SUFFICES ASSUME Init PROVE TypeInv
  OBVIOUS
<1> USE Constants
<1>1. Plain
  BY DEF Init, Plain, Frame, WorkerPC, StealLoop, PrivateQueue, Levels
<1>2. Held
  <2>1. \A S : <<>> \in Seq(S)
    BY EmptySeq
  <2>2. <<Root>> \in Seq(LiveFrame)
    BY DEF LiveFrame
  <2> QED
    BY <2>1, <2>2 DEF Init, Held, Levels
<1>3. Positions
  BY DEF Init, Positions, PrivateQueue, StealLoop
<1>4. Owners
  BY DEF Init, Owners
<1> QED
  BY <1>1, <1>2, <1>3, <1>4 DEF TypeInv

----------------------------------------------------------------------------
(* The calls of a task.                                                    *)

\* Calls that change the counters and where the caller is, and nothing else.
LEMMA CallStep ==
  ASSUME TypeInv, NEW w \in Worker,
         CountChild(w) \/ WaitAll(w) \/ SpinWait(w) \/ FetchWork(w) \/ Return(w)
  PROVE  TypeInv'
<1> USE Constants DEF TypeInv
<1>1. pc[w] = "run" /\ stack[w] # <<>>
  BY DEF CountChild, WaitAll, SpinWait, FetchWork, Return, Positions
<1>2. Self(w) \in Frame
  BY <1>1, SelfLive DEF LiveFrame, Live, Frame
<1>3. UNCHANGED <<desc, queues, net, stack, at, victim, hand, nodes>>
  BY DEF CountChild, WaitAll, SpinWait, FetchWork, Return
<1>4. /\ ndep' \in [Frame -> Int]
      /\ forked' \in [Frame -> 0 .. 1]
  BY <1>2 DEF CountChild, WaitAll, SpinWait, FetchWork, Return, Plain, GuardedNdep, BlockNdep
<1>5. \E to \in {"create", "check", "spin", "fetch", "clean"} :
        pc' = [pc EXCEPT ![w] = to] /\ (to = "clean" => Self(w) # Root)
  BY DEF CountChild, WaitAll, SpinWait, FetchWork, Return, Goto
<1>6. Plain'
  BY <1>3, <1>4, <1>5 DEF Plain, nodes, WorkerPC
<1>7. Held'
  BY <1>3 DEF Held, queues, net, nodes, Live, LiveFrame, LiveMessage
<1>8. Positions'
  BY <1>1, <1>3, <1>5 DEF Plain, Positions, Self
<1>9. Owners'
  BY <1>1, <1>3, <1>5 DEF Plain, Owners, Searching, nodes
<1> QED
  BY <1>6, <1>7, <1>8, <1>9

\* A wait's test, the return of the spinning wait, the end of a fetch, and
\* the switch of the stealing flag.
LEMMA ReturnStep ==
  ASSUME TypeInv, NEW w \in Worker, CheckDeps(w) \/ SpinReturn(w)
  PROVE  TypeInv'
<1> USE Constants DEF TypeInv
<1>1. pc[w] \in {"check", "spin"} /\ stack[w] # <<>>
  BY DEF CheckDeps, SpinReturn, Positions
<1>2. UNCHANGED <<desc, ndep, forked, queues, net, stack, at, victim, hand, nodes>>
  BY DEF CheckDeps, SpinReturn
<1>3. \E to \in {"run", "scan"} : pc' = [pc EXCEPT ![w] = to]
  BY DEF CheckDeps, SpinReturn, Goto
<1>4. Plain'
  BY <1>2, <1>3 DEF Plain, nodes, WorkerPC
<1>5. Held'
  BY <1>2 DEF Held, queues, net, nodes, Live, LiveFrame, LiveMessage
<1>6. Positions'
  BY <1>1, <1>2, <1>3 DEF Plain, Positions, Self
<1>7. Owners'
  BY <1>1, <1>2, <1>3 DEF Plain, Owners, Searching, nodes
<1> QED
  BY <1>4, <1>5, <1>6, <1>7

LEMMA StashStep ==
  ASSUME TypeInv, NEW w \in Worker, Stash(w)
  PROVE  TypeInv'
<1> USE Constants DEF TypeInv
<1>1. hand[w] \in Live /\ stack[w] # <<>> /\ ~Searching(w)
  BY DEF Stash, Positions, Held, Searching
<1>2. Plain'
  BY DEF Stash, Goto, Plain, nodes, WorkerPC
<1>3. private_grq' \in [Node -> Seq(Live)]
  BY <1>1, AppendProperties DEF Stash, Held
<1>4. Held'
  BY <1>3 DEF Stash, Held, net, nodes, Live, LiveFrame, LiveMessage
<1>5. Positions'
  BY <1>1 DEF Stash, Goto, Plain, Positions, Self
<1>6. Owners'
  BY <1>1 DEF Stash, Goto, Plain, Owners, Searching, nodes
<1> QED
  BY <1>2, <1>4, <1>5, <1>6

LEMMA SwitchStep ==
  ASSUME TypeInv, NEW w \in Worker, NEW on \in BOOLEAN, SwitchStealing(w, on)
  PROVE  TypeInv'
<1> USE Constants DEF TypeInv
<1>1. Plain'
  BY DEF SwitchStealing, Plain, workers
<1>2. chan' \in [Thread \X Node -> Seq(LiveMessage)]
  <2> DEFINE m == Msg(IF on THEN "ENABLE_STEALING" ELSE "DISABLE_STEALING", NULL)
  <2>1. m \in LiveMessage
    BY DEF LiveMessage, Msg
  <2>2. \A c \in Thread \X Node : /\ chan[c] \in Seq(LiveMessage)
                                  /\ Append(chan[c], m) \in Seq(LiveMessage)
    BY <2>1, AppendProperties DEF Held
  <2> QED
    BY <2>2 DEF SwitchStealing
<1>3. Held'
  BY <1>2 DEF SwitchStealing, Held, queues, workers, Live, LiveFrame, LiveMessage
<1>4. Positions' /\ Owners'
  BY DEF SwitchStealing, Positions, Owners, Self, Searching, workers
<1> QED
  BY <1>1, <1>3, <1>4

\* What the creation and the placement of a task leave.
LEMMA Creation ==
  ASSUME TypeInv, NEW s \in Thread, NEW t \in Task, NEW to \in Node,
         NEW p \in Frame \cup {NULL}, NEW level \in Nat, NEW direct \in BOOLEAN,
         NewDesc(t, p, Here(s), level, direct), Place(s, t, to)
  PROVE  /\ desc' \in [Task -> TaskDesc \cup {NULL}]
         /\ Live \subseteq Live'
         /\ public_grq' \in [Node -> [Levels -> Seq(Live')]]
         /\ chan' \in [Thread \X Node -> Seq(LiveMessage')]
<1> USE Constants DEF TypeInv
<1>1. Here(s) \in Node
  BY DEF Here, Thread
<1> DEFINE d == [parent |-> p, homenode |-> Here(s), level |-> level, direct |-> direct]
<1>2. d \in TaskDesc /\ d # NULL
  BY <1>1 DEF TaskDesc
<1>3. desc' = [desc EXCEPT ![t] = d]
  BY DEF NewDesc
<1>4. desc' \in [Task -> TaskDesc \cup {NULL}] /\ desc'[t] = d
  BY <1>2, <1>3 DEF Plain
<1>5. Live \subseteq Live' /\ t \in Live'
  BY <1>2, <1>3, <1>4 DEF Plain, Live
<1>6. /\ public_grq \in [Node -> [Levels -> Seq(Live')]]
      /\ chan \in [Thread \X Node -> Seq(LiveMessage')]
  BY <1>5, HeldGrows
<1>7. Msg("TORC_NORMAL_ENQUEUE", t) \in LiveMessage'
  BY <1>5 DEF LiveMessage, Msg
<1>8. desc'[t].level \in Nat
  BY <1>4
<1>9. public_grq' \in [Node -> [Levels -> Seq(Live')]]
  BY <1>5, <1>6, <1>8, ToPublicType DEF Place
<1>10. chan' \in [Thread \X Node -> Seq(LiveMessage')]
  BY <1>6, <1>7, SendType DEF Place
<1> QED
  BY <1>4, <1>5, <1>9, <1>10

LEMMA EnqueueStep ==
  ASSUME TypeInv, NEW w \in Worker, NEW t \in Task, NEW n \in Node, NEW direct \in BOOLEAN,
         EnqueueChild(w, t, n, direct)
  PROVE  TypeInv'
<1> USE Constants DEF TypeInv
<1>1. stack[w] # <<>> /\ ~Searching(w)
  BY DEF EnqueueChild, Positions, Searching
<1>2. Self(w) \in LiveFrame
  BY <1>1, SelfLive
<1>3. LevelOf(Self(w)) + 1 \in Nat
  BY <1>2 DEF LevelOf, LiveFrame, Live, Plain, TaskDesc
<1>4. Self(w) \in Frame \cup {NULL} /\ w \in Thread /\ Here(w) = node_of[w]
  BY <1>2 DEF LiveFrame, Live, Frame, Thread, Here
<1>5. /\ NewDesc(t, Self(w), Here(w), LevelOf(Self(w)) + 1, direct)
      /\ Place(w, t, n)
  BY <1>4 DEF EnqueueChild
<1>6. /\ desc' \in [Task -> TaskDesc \cup {NULL}]
      /\ Live \subseteq Live'
      /\ public_grq' \in [Node -> [Levels -> Seq(Live')]]
      /\ chan' \in [Thread \X Node -> Seq(LiveMessage')]
  BY <1>3, <1>4, <1>5, Creation
<1>7. Plain'
  BY <1>6 DEF EnqueueChild, Goto, Plain, nodes, WorkerPC
<1>8. UNCHANGED <<private_grq, reply, stack, hand, serving>>
  BY DEF EnqueueChild, nodes
<1>9. Held'
  BY <1>6, <1>8, HeldGrows DEF Held
<1>10. Positions'
  BY <1>1 DEF EnqueueChild, Goto, Plain, Positions, Self
<1>11. Owners'
  BY <1>1 DEF EnqueueChild, Goto, Plain, Owners, Searching, nodes
<1> QED
  BY <1>7, <1>9, <1>10, <1>11

\* Detached tasks, created by workers and by tasks the server executes.
LEMMA DetachedStep ==
  ASSUME TypeInv, NEW s \in Thread, NEW t \in Task, NEW to \in Node,
         NewDesc(t, NULL, Here(s), 0, FALSE), Place(s, t, to),
         UNCHANGED <<ndep, forked, private_grq, reply, workers, nodes>>
  PROVE  TypeInv'
<1> USE Constants DEF TypeInv
<1>1. /\ desc' \in [Task -> TaskDesc \cup {NULL}]
      /\ Live \subseteq Live'
      /\ public_grq' \in [Node -> [Levels -> Seq(Live')]]
      /\ chan' \in [Thread \X Node -> Seq(LiveMessage')]
  BY Creation
<1>2. Plain'
  BY <1>1 DEF Plain, workers, nodes
<1>3. Held'
  BY <1>1, HeldGrows DEF Held, workers, nodes
<1>4. Positions' /\ Owners'
  BY DEF Positions, Owners, Self, Searching, workers, nodes
<1> QED
  BY <1>2, <1>3, <1>4

----------------------------------------------------------------------------
(* The scheduling loop.                                                    *)

LEMMA CleanupStep ==
  ASSUME TypeInv, NEW w \in Worker, Cleanup(w)
  PROVE  TypeInv'
<1> USE Constants DEF TypeInv
<1>1. stack[w] # <<>> /\ ~Searching(w)
  BY DEF Cleanup, Positions, Searching
<1>2. Self(w) \in Live /\ Front(stack[w]) \in Seq(LiveFrame)
  BY <1>1, SelfLive DEF Cleanup, Positions, LiveFrame
<1>3. /\ stack' = [stack EXCEPT ![w] = Front(stack[w])]
      /\ pc' = [pc EXCEPT ![w] = IF Front(stack[w]) = <<>> THEN "scan" ELSE "check"]
      /\ UNCHANGED <<desc, forked, queues, reply, at, victim, hand, nodes>>
  BY DEF Cleanup, Resume, Goto
<1>4. ndep' \in [Frame -> Int]
  BY DEF Cleanup, DepSatisfy, Plain
<1>5. chan' \in [Thread \X Node -> Seq(LiveMessage)]
  <2>1. Msg("TORC_ANSWER", Self(w)) \in LiveMessage
    BY <1>2 DEF Msg, LiveMessage
  <2>2. CASE UNCHANGED chan
    BY <2>2 DEF Held
  <2>3. CASE Send(w, desc[Self(w)].homenode, Msg("TORC_ANSWER", Self(w)))
    BY <2>1, <2>3, SendType DEF Held
  <2> QED
    BY <2>2, <2>3 DEF Cleanup
<1>6. Plain'
  BY <1>3, <1>4 DEF Plain, nodes, WorkerPC
<1>7. Held'
  BY <1>2, <1>3, <1>5 DEF Held, queues, nodes, Live, LiveFrame, LiveMessage
<1>8. Positions'
  BY <1>1, <1>3 DEF Plain, Held, Positions, Self
<1>9. Owners'
  BY <1>1, <1>3 DEF Plain, Owners, Searching, nodes
<1> QED
  BY <1>6, <1>7, <1>8, <1>9

\* A worker that has found t: the parts of the invariant about workers.
LEMMA TakeStep ==
  ASSUME TypeInv, NEW w \in Worker, NEW t \in Live, Searching(w), Take(w, t),
         UNCHANGED desc
  PROVE  /\ pc' \in [Worker -> WorkerPC]
         /\ at' \in [Worker -> StealLoop .. PrivateQueue]
         /\ victim' \in [Worker -> Node \cup {NULL}]
         /\ stack' \in [Worker -> Seq(LiveFrame)]
         /\ hand' \in [Worker -> Live \cup {NULL}]
         /\ Positions'
         /\ \A v \in Worker \ {w} : /\ Searching(v) => Searching(v)'
                                    /\ at'[v] = at[v] /\ victim'[v] = victim[v]
<1> USE Constants DEF TypeInv, Take, Goto
<1>1. at' \in [Worker -> StealLoop .. PrivateQueue] /\ victim' \in [Worker -> Node \cup {NULL}]
  BY DEF Plain, StealLoop, PrivateQueue
<1>2. t \in LiveFrame /\ t # Root /\ t # NULL
  BY DEF LiveFrame, Live
<1>3. /\ Append(stack[w], t) \in Seq(LiveFrame)
      /\ Append(stack[w], t) # <<>>
  <2>1. stack[w] \in Seq(LiveFrame)
    BY DEF Held
  <2>2. Append(stack[w], t) \in Seq(LiveFrame) /\ Len(Append(stack[w], t)) = Len(stack[w]) + 1
    BY <1>2, <2>1, AppendProperties
  <2>3. Len(stack[w]) \in Nat /\ Len(<<>>) = 0
    BY <2>1, LenProperties, EmptySeq
  <2> QED
    BY <2>2, <2>3
<1>4. CASE pc[w] = "fetch"
  <2>1. pc' = [pc EXCEPT ![w] = "stash"] /\ hand' = [hand EXCEPT ![w] = t] /\ UNCHANGED stack
    BY <1>4
  <2>2. /\ pc' \in [Worker -> WorkerPC]
        /\ stack' \in [Worker -> Seq(LiveFrame)]
        /\ hand' \in [Worker -> Live \cup {NULL}]
    BY <2>1 DEF Plain, Held, WorkerPC
  <2>3. Positions'
    BY <1>1, <1>2, <1>4, <2>1 DEF Plain, Held, Positions, Self, StealLoop, PrivateQueue
  <2>4. \A v \in Worker \ {w} : /\ Searching(v) => Searching(v)'
                                /\ at'[v] = at[v] /\ victim'[v] = victim[v]
    BY <2>1 DEF Plain, Searching
  <2> QED
    BY <1>1, <2>2, <2>3, <2>4
<1>5. CASE pc[w] # "fetch"
  <2>1. /\ pc' = [pc EXCEPT ![w] = "run"]
        /\ stack' = [stack EXCEPT ![w] = Append(@, t)]
        /\ UNCHANGED hand
    BY <1>5
  <2>2. /\ pc' \in [Worker -> WorkerPC]
        /\ stack' \in [Worker -> Seq(LiveFrame)]
        /\ hand' \in [Worker -> Live \cup {NULL}]
    BY <1>3, <2>1 DEF Plain, Held, WorkerPC
  <2>3. Positions'
    BY <1>1, <1>3, <2>1 DEF Plain, Held, Positions, Self, StealLoop, PrivateQueue
  <2>4. \A v \in Worker \ {w} : /\ Searching(v) => Searching(v)'
                                /\ at'[v] = at[v] /\ victim'[v] = victim[v]
    BY <2>1 DEF Plain, Searching
  <2> QED
    BY <1>1, <2>2, <2>3, <2>4
<1> QED
  BY <1>4, <1>5

\* A worker that has found nothing: the same parts.
LEMMA NotFoundStep ==
  ASSUME TypeInv, NEW w \in Worker, Searching(w), NotFound(w)
  PROVE  /\ pc' \in [Worker -> WorkerPC]
         /\ at' \in [Worker -> StealLoop .. PrivateQueue]
         /\ victim' \in [Worker -> Node \cup {NULL}]
         /\ Positions'
         /\ \A v \in Worker \ {w} : /\ Searching(v) => Searching(v)'
                                    /\ at'[v] = at[v] /\ victim'[v] = victim[v]
<1> USE Constants DEF TypeInv
<1>1. /\ at' = [at EXCEPT ![w] = PrivateQueue]
      /\ victim' = [victim EXCEPT ![w] = NULL]
      /\ UNCHANGED <<stack, hand>>
  BY DEF NotFound
<1>2. PICK to \in {"rescan", "check", "run"} :
        pc' = [pc EXCEPT ![w] = to] /\ (to # "rescan" => stack[w] # <<>>)
  <2>1. CASE pc[w] = "scan"
    BY <2>1 DEF NotFound, Goto
  <2>2. CASE pc[w] = "rescan"
    BY <2>2 DEF NotFound, Goto
  <2>3. CASE pc[w] = "fetch"
    BY <2>3 DEF NotFound, Goto, Positions
  <2> QED
    BY <2>1, <2>2, <2>3 DEF Searching
<1>3. /\ pc' \in [Worker -> WorkerPC]
      /\ at' \in [Worker -> StealLoop .. PrivateQueue]
      /\ victim' \in [Worker -> Node \cup {NULL}]
  BY <1>1, <1>2 DEF Plain, WorkerPC, StealLoop, PrivateQueue
<1>4. Positions'
  BY <1>1, <1>2 DEF Plain, Positions, Self, StealLoop, PrivateQueue
<1>5. \A v \in Worker \ {w} : /\ Searching(v) => Searching(v)'
                              /\ at'[v] = at[v] /\ victim'[v] = victim[v]
  BY <1>1, <1>2 DEF Plain, Searching
<1> QED
  BY <1>3, <1>4, <1>5

\* A worker that does not own internode_m may move as it likes.
LEMMA OwnersStep ==
  ASSUME TypeInv, NEW w \in Worker, at[w] # StealLoop, UNCHANGED internode_m,
         \A v \in Worker \ {w} : /\ Searching(v) => Searching(v)'
                                 /\ at'[v] = at[v] /\ victim'[v] = victim[v]
  PROVE  Owners'
BY DEF TypeInv, Plain, Owners

LEMMA TakePrivateStep ==
  ASSUME TypeInv, NEW w \in Worker, TakePrivate(w)
  PROVE  TypeInv'
<1> USE Constants DEF TypeInv
<1> DEFINE q == private_grq[node_of[w]]
<1>1. Head(q) \in Live /\ Tail(q) \in Seq(Live)
  BY HeadTailProperties DEF TakePrivate, Held
<1>2. /\ Searching(w) /\ at[w] # StealLoop
      /\ Take(w, Head(q))
      /\ private_grq' = [private_grq EXCEPT ![node_of[w]] = Tail(q)]
      /\ UNCHANGED <<desc, ndep, forked, public_grq, net, nodes>>
  BY DEF TakePrivate, Dequeue, PrivateQueue, StealLoop
<1>3. /\ pc' \in [Worker -> WorkerPC]
      /\ at' \in [Worker -> StealLoop .. PrivateQueue]
      /\ victim' \in [Worker -> Node \cup {NULL}]
      /\ stack' \in [Worker -> Seq(LiveFrame)]
      /\ hand' \in [Worker -> Live \cup {NULL}]
      /\ Positions'
      /\ \A v \in Worker \ {w} : /\ Searching(v) => Searching(v)'
                                 /\ at'[v] = at[v] /\ victim'[v] = victim[v]
  BY <1>1, <1>2, TakeStep
<1>4. Plain'
  BY <1>2, <1>3 DEF Plain, nodes
<1>5. Held'
  BY <1>1, <1>2, <1>3 DEF Held, net, nodes, Live, LiveFrame, LiveMessage
<1>6. Owners'
  BY <1>2, <1>3, OwnersStep DEF nodes
<1> QED
  BY <1>3, <1>4, <1>5, <1>6

LEMMA TakePublicStep ==
  ASSUME TypeInv, NEW w \in Worker, TakePublic(w)
  PROVE  TypeInv'
<1> USE Constants DEF TypeInv
<1> DEFINE q == public_grq[node_of[w]][at[w]]
<1>1. /\ Searching(w) /\ at[w] \in Levels /\ at[w] # StealLoop
      /\ q # <<>>
      /\ Take(w, Head(q))
      /\ public_grq' = [public_grq EXCEPT ![node_of[w]][at[w]] = Dequeue(q)]
      /\ UNCHANGED <<desc, ndep, forked, private_grq, net, nodes>>
  BY DEF TakePublic, Levels, StealLoop
<1>2. /\ Head(q) \in Live
      /\ public_grq' \in [Node -> [Levels -> Seq(Live)]]
  BY <1>1, DequeueType DEF Held
<1>3. /\ pc' \in [Worker -> WorkerPC]
      /\ at' \in [Worker -> StealLoop .. PrivateQueue]
      /\ victim' \in [Worker -> Node \cup {NULL}]
      /\ stack' \in [Worker -> Seq(LiveFrame)]
      /\ hand' \in [Worker -> Live \cup {NULL}]
      /\ Positions'
      /\ \A v \in Worker \ {w} : /\ Searching(v) => Searching(v)'
                                 /\ at'[v] = at[v] /\ victim'[v] = victim[v]
  BY <1>1, <1>2, TakeStep
<1>4. Plain'
  BY <1>1, <1>3 DEF Plain, nodes
<1>5. Held'
  BY <1>1, <1>2, <1>3 DEF Held, net, nodes, Live, LiveFrame, LiveMessage
<1>6. Owners'
  BY <1>1, <1>3, OwnersStep DEF nodes
<1> QED
  BY <1>3, <1>4, <1>5, <1>6

LEMMA NextQueueStep ==
  ASSUME TypeInv, NEW w \in Worker, NextQueue(w)
  PROVE  TypeInv'
<1> USE Constants DEF TypeInv
<1>1. /\ at[w] >= 0 /\ at[w] \in StealLoop .. PrivateQueue
      /\ at' = [at EXCEPT ![w] = @ - 1]
      /\ UNCHANGED <<desc, ndep, forked, queues, net, stack, pc, victim, hand, nodes>>
  BY DEF NextQueue, Plain
<1>2. at' \in [Worker -> StealLoop .. PrivateQueue] /\ at'[w] # StealLoop /\ at[w] # StealLoop
  BY <1>1 DEF Plain, StealLoop, PrivateQueue
<1>3. Plain'
  BY <1>1, <1>2 DEF Plain, nodes
<1>4. Held'
  BY <1>1 DEF Held, queues, net, nodes, Live, LiveFrame, LiveMessage
<1>5. Positions'
  BY <1>1, <1>2 DEF Plain, Positions, Self
<1>6. Owners'
  BY <1>1, <1>2, OwnersStep DEF Plain, nodes, Searching
<1> QED
  BY <1>3, <1>4, <1>5, <1>6

LEMMA TestFlagStep ==
  ASSUME TypeInv, NEW w \in Worker, TestFlag(w)
  PROVE  TypeInv'
<1> USE Constants DEF TypeInv
<1> DEFINE n == node_of[w]
<1>1. /\ Searching(w) /\ at[w] # StealLoop
      /\ UNCHANGED <<desc, ndep, forked, queues, net, nodes, stack, hand>>
  BY DEF TestFlag, NotFound, FlagTest, StealLoop
<1>2. /\ pc' \in [Worker -> WorkerPC]
      /\ at' \in [Worker -> StealLoop .. PrivateQueue]
      /\ victim' \in [Worker -> Node \cup {NULL}]
      /\ Positions'
      /\ \A v \in Worker \ {w} : /\ Searching(v) => Searching(v)'
                                 /\ at'[v] = at[v] /\ victim'[v] = victim[v]
  <2>1. CASE internode_stealing[n]
    <3>1. /\ at' = [at EXCEPT ![w] = StealLoop]
          /\ victim' = [victim EXCEPT ![w] = NextNode(n)]
          /\ UNCHANGED <<stack, pc, hand>>
      BY <2>1 DEF TestFlag
    <3>2. NextNode(n) \in Node
      OBVIOUS
    <3>3. Positions'
      BY <3>1, <3>2 DEF Plain, Positions, Self
    <3> QED
      BY <3>1, <3>2, <3>3 DEF Plain, Searching, StealLoop, PrivateQueue
  <2>2. CASE ~internode_stealing[n]
    BY <1>1, <2>2, NotFoundStep DEF TestFlag
  <2> QED
    BY <2>1, <2>2
<1>3. Plain'
  BY <1>1, <1>2 DEF Plain, nodes
<1>4. Held'
  BY <1>1 DEF Held, queues, net, nodes, Live, LiveFrame, LiveMessage
<1>5. Owners'
  BY <1>1, <1>2, OwnersStep DEF nodes
<1> QED
  BY <1>2, <1>3, <1>4, <1>5

----------------------------------------------------------------------------
(* Stealing.                                                               *)

LEMMA StealRequestStep ==
  ASSUME TypeInv, NEW w \in Worker, StealRequest(w)
  PROVE  TypeInv'
<1> USE Constants DEF TypeInv
<1> DEFINE n == node_of[w]
<1>1. /\ Searching(w) /\ at[w] = StealLoop /\ victim[w] # n
      /\ internode_m' = [internode_m EXCEPT ![n] = w]
      /\ UNCHANGED <<desc, ndep, forked, queues, reply, workers,
                     internode_stealing, serving, scan_at, toggles>>
  BY DEF StealRequest
<1>2. chan' \in [Thread \X Node -> Seq(LiveMessage)]
  <2>1. Msg("STEALING_REQUEST", w) \in LiveMessage
    BY DEF Msg, LiveMessage
  <2> QED
    BY <2>1, SendType DEF StealRequest, Held
<1>3. Plain'
  BY <1>1 DEF Plain, workers
<1>4. Held'
  BY <1>1, <1>2 DEF Held, queues, workers, Live, LiveFrame, LiveMessage
<1>5. Positions'
  BY <1>1 DEF Positions, Self, workers
<1>6. Owners'
  BY <1>1 DEF Plain, Owners, Searching, workers
<1> QED
  BY <1>3, <1>4, <1>5, <1>6

LEMMA StealReplyStep ==
  ASSUME TypeInv, NEW w \in Worker, StealReply(w)
  PROVE  TypeInv'
<1> USE Constants DEF TypeInv
<1> DEFINE n == node_of[w]
<1>1. /\ Searching(w) /\ at[w] = StealLoop /\ victim[w] \in Node
  BY DEF StealReply, Owners, Positions
<1>2. /\ reply' = [reply EXCEPT ![w] = NULL]
      /\ internode_m' = [internode_m EXCEPT ![n] = NULL]
      /\ UNCHANGED <<desc, ndep, forked, queues, chan,
                     internode_stealing, serving, scan_at, toggles>>
  BY DEF StealReply
<1>3. /\ pc' \in [Worker -> WorkerPC]
      /\ at' \in [Worker -> StealLoop .. PrivateQueue]
      /\ victim' \in [Worker -> Node \cup {NULL}]
      /\ stack' \in [Worker -> Seq(LiveFrame)]
      /\ hand' \in [Worker -> Live \cup {NULL}]
      /\ Positions'
      /\ \A v \in Worker \ {w} : /\ Searching(v) => Searching(v)'
                                 /\ at'[v] = at[v] /\ victim'[v] = victim[v]
  <2>1. CASE reply[w] \in Task
    <3>1. reply[w] \in Live
      BY <2>1 DEF Held
    <3> QED
      BY <1>1, <1>2, <2>1, <3>1, TakeStep DEF StealReply
  <2>2. CASE reply[w] \notin Task
    <3>1. /\ victim' = [victim EXCEPT ![w] = NextNode(victim[w])]
          /\ UNCHANGED <<stack, pc, at, hand>>
      BY <2>2 DEF StealReply
    <3>2. NextNode(victim[w]) \in Node
      BY <1>1
    <3>3. Positions'
      BY <3>1, <3>2 DEF Plain, Positions, Self
    <3> QED
      BY <3>1, <3>2, <3>3 DEF Plain, Held, Searching
  <2> QED
    BY <2>1, <2>2
<1>4. Plain'
  BY <1>2, <1>3 DEF Plain
<1>5. Held'
  BY <1>2, <1>3 DEF Held, queues, Live, LiveFrame, LiveMessage
<1>6. Owners'
  <2>1. internode_m'[n] = NULL
    BY <1>2 DEF Plain
  <2>2. ASSUME NEW m \in Node, NEW v \in Worker, m # n, internode_m[m] = v
        PROVE  node_of[v] = m /\ Searching(v)' /\ at'[v] = StealLoop /\ victim'[v] # m
    <3>1. v # w /\ node_of[v] = m /\ Searching(v) /\ at[v] = StealLoop /\ victim[v] # m
      BY <2>2 DEF Owners
    <3> QED
      BY <1>3, <3>1
  <2>3. \A m \in Node \ {n} : internode_m'[m] = internode_m[m]
    BY <1>2 DEF Plain
  <2> QED
    BY <2>1, <2>2, <2>3 DEF Plain, Owners, Searching
<1> QED
  BY <1>3, <1>4, <1>5, <1>6

LEMMA StealNothingStep ==
  ASSUME TypeInv, NEW w \in Worker, StealNothing(w)
  PROVE  TypeInv'
<1> USE Constants DEF TypeInv
<1>1. /\ Searching(w) /\ victim[w] = node_of[w]
      /\ internode_stealing' = [internode_stealing EXCEPT ![node_of[w]] = FALSE]
      /\ NotFound(w)
      /\ UNCHANGED <<desc, ndep, forked, queues, net, internode_m, serving, scan_at, toggles>>
      /\ UNCHANGED <<stack, hand>>
  BY DEF StealNothing, NotFound
<1>2. /\ pc' \in [Worker -> WorkerPC]
      /\ at' \in [Worker -> StealLoop .. PrivateQueue]
      /\ victim' \in [Worker -> Node \cup {NULL}]
      /\ Positions'
      /\ \A v \in Worker \ {w} : /\ Searching(v) => Searching(v)'
                                 /\ at'[v] = at[v] /\ victim'[v] = victim[v]
  BY <1>1, NotFoundStep
<1>3. Plain'
  BY <1>1, <1>2 DEF Plain
<1>4. Held'
  BY <1>1 DEF Held, queues, net, Live, LiveFrame, LiveMessage
<1>5. \A n \in Node : internode_m[n] # w
  BY <1>1 DEF Owners
<1>6. Owners'
  BY <1>1, <1>2, <1>5 DEF Plain, Owners
<1> QED
  BY <1>2, <1>3, <1>4, <1>6

----------------------------------------------------------------------------
(* The server threads.  They do not move the workers.                      *)

LEMMA ServerKeeps ==
  ASSUME TypeInv, UNCHANGED <<workers, internode_m>>
  PROVE  Positions' /\ Owners'
BY DEF TypeInv, Positions, Owners, Self, Searching, workers

\* A message at the head of a channel is well formed.
LEMMA HeadType ==
  ASSUME Held, NEW s \in Thread, NEW n \in Node, chan[<<s, n>>] # <<>>
  PROVE  Head(chan[<<s, n>>]) \in LiveMessage
<1>1. chan[<<s, n>>] \in Seq(LiveMessage)
  BY DEF Held
<1> QED
  BY <1>1, HeadTailProperties

\* What a message of each type carries.
LEMMA Carries ==
  ASSUME NEW m \in LiveMessage
  PROVE  /\ m.type \in {"TORC_NORMAL_ENQUEUE", "TORC_ANSWER"} => m.arg \in Live
         /\ m.type = "STEALING_REQUEST" => m.arg \in Worker
BY DEF LiveMessage

LEMMA RecvEnqueueStep ==
  ASSUME TypeInv, NEW n \in Node, NEW s \in Thread, RecvEnqueue(n, s)
  PROVE  TypeInv'
<1> USE Constants DEF TypeInv
<1> DEFINE t == Head(chan[<<s, n>>]).arg
<1>1. t \in Live
  <2>1. Head(chan[<<s, n>>]) \in LiveMessage /\ Head(chan[<<s, n>>]).type = "TORC_NORMAL_ENQUEUE"
    BY HeadType DEF RecvEnqueue, IsHead
  <2> QED
    BY <2>1, Carries
<1>2. chan' \in [Thread \X Node -> Seq(LiveMessage)]
  <2>1. chan[<<s, n>>] # <<>> /\ Receive(s, n)
    BY DEF RecvEnqueue, IsHead
  <2> QED
    BY <2>1, ReceiveType DEF Held
<1>3. UNCHANGED <<desc, ndep, forked, private_grq, reply, workers,
                  internode_m, internode_stealing, scan_at, toggles>>
  BY DEF RecvEnqueue
<1>4. desc[t].level \in Nat
  BY <1>1 DEF Live, Plain, TaskDesc
<1>5. /\ public_grq' \in [Node -> [Levels -> Seq(Live)]]
      /\ serving' \in [Node -> Live \cup Worker \cup {NULL}]
  <2>1. CASE desc[t].direct
    BY <1>1, <2>1 DEF RecvEnqueue, Held
  <2>2. CASE ~desc[t].direct
    BY <1>1, <1>4, <2>2, ToPublicType DEF RecvEnqueue, Held
  <2> QED
    BY <2>1, <2>2
<1>6. Plain'
  BY <1>3 DEF Plain, workers
<1>7. Held'
  BY <1>2, <1>3, <1>5 DEF Held, workers, Live, LiveFrame, LiveMessage
<1> QED
  BY <1>3, <1>6, <1>7, ServerKeeps

LEMMA DirectDoneStep ==
  ASSUME TypeInv, NEW n \in Node, DirectDone(n)
  PROVE  TypeInv'
<1> USE Constants DEF TypeInv
<1>1. Msg("TORC_ANSWER", serving[n]) \in LiveMessage
  BY DEF DirectDone, Held, Msg, LiveMessage
<1>2. chan' \in [Thread \X Node -> Seq(LiveMessage)]
  BY <1>1, SendType DEF DirectDone, Held
<1>3. /\ serving' = [serving EXCEPT ![n] = NULL]
      /\ UNCHANGED <<desc, ndep, forked, queues, reply, workers,
                     internode_m, internode_stealing, scan_at, toggles>>
  BY DEF DirectDone
<1>4. Plain'
  BY <1>3 DEF Plain, workers
<1>5. Held'
  BY <1>2, <1>3 DEF Held, queues, workers, Live, LiveFrame, LiveMessage
<1> QED
  BY <1>3, <1>4, <1>5, ServerKeeps

LEMMA RecvAnswerStep ==
  ASSUME TypeInv, NEW n \in Node, NEW s \in Thread, RecvAnswer(n, s)
  PROVE  TypeInv'
<1> USE Constants DEF TypeInv
<1>1. chan' \in [Thread \X Node -> Seq(LiveMessage)]
  <2>1. chan[<<s, n>>] # <<>> /\ Receive(s, n)
    BY DEF RecvAnswer, IsHead
  <2> QED
    BY <2>1, ReceiveType DEF Held
<1>2. ndep' \in [Frame -> Int]
  BY DEF RecvAnswer, DepSatisfy, Plain
<1>3. UNCHANGED <<desc, forked, queues, reply, workers, nodes>>
  BY DEF RecvAnswer
<1>4. Plain'
  BY <1>2, <1>3 DEF Plain, workers, nodes
<1>5. Held'
  BY <1>1, <1>3 DEF Held, queues, workers, nodes, Live, LiveFrame, LiveMessage
<1> QED
  BY <1>3, <1>4, <1>5, ServerKeeps DEF nodes

LEMMA RecvStealStep ==
  ASSUME TypeInv, NEW n \in Node, NEW s \in Thread, RecvSteal(n, s)
  PROVE  TypeInv'
<1> USE Constants DEF TypeInv
<1>1. chan[<<s, n>>] # <<>> /\ Receive(s, n) /\ Head(chan[<<s, n>>]).type = "STEALING_REQUEST"
  BY DEF RecvSteal, IsHead
<1>2. chan' \in [Thread \X Node -> Seq(LiveMessage)]
  BY <1>1, ReceiveType DEF Held
<1>3. Head(chan[<<s, n>>]).arg \in Worker
  BY <1>1, HeadType, Carries
<1>4. UNCHANGED <<desc, ndep, forked, queues, reply, workers,
                  internode_m, internode_stealing, toggles>>
  BY DEF RecvSteal
<1>5. serving' \in [Node -> Live \cup Worker \cup {NULL}]
  BY <1>3 DEF RecvSteal, Held
<1>6. Plain'
  BY <1>4 DEF RecvSteal, Plain, workers, Levels
<1>7. Held'
  BY <1>2, <1>4, <1>5 DEF Held, queues, workers, Live, LiveFrame, LiveMessage
<1> QED
  BY <1>4, <1>6, <1>7, ServerKeeps

LEMMA RecvSwitchStep ==
  ASSUME TypeInv, NEW n \in Node, NEW s \in Thread, RecvSwitch(n, s)
  PROVE  TypeInv'
<1> USE Constants DEF TypeInv
<1>1. chan' \in [Thread \X Node -> Seq(LiveMessage)]
  <2>1. chan[<<s, n>>] # <<>> /\ Receive(s, n)
    BY DEF RecvSwitch, IsHead
  <2> QED
    BY <2>1, ReceiveType DEF Held
<1>2. UNCHANGED <<desc, ndep, forked, queues, reply, workers,
                  internode_m, serving, scan_at, toggles>>
  BY DEF RecvSwitch
<1>3. Plain'
  BY <1>2 DEF RecvSwitch, Plain, workers
<1>4. Held'
  BY <1>1, <1>2 DEF Held, queues, workers, Live, LiveFrame, LiveMessage
<1> QED
  BY <1>2, <1>3, <1>4, ServerKeeps

\* The search for a task to give away stays inside the array of queues.
LEMMA StealScanStep ==
  ASSUME TypeInv, NEW n \in Node, StealScan(n)
  PROVE  TypeInv'
<1> USE Constants DEF TypeInv
<1> DEFINE q == public_grq[n][scan_at[n]]
<1>1. scan_at[n] \in Levels
  BY DEF Plain
<1>2. UNCHANGED <<desc, ndep, forked, private_grq, chan, workers,
                  internode_m, internode_stealing, toggles>>
  BY DEF StealScan
<1>3. /\ public_grq' \in [Node -> [Levels -> Seq(Live)]]
      /\ reply' \in [Worker -> Live \cup {NULL, "TORC_NO_WORK"}]
      /\ serving' \in [Node -> Live \cup Worker \cup {NULL}]
      /\ scan_at' \in [Node -> Levels]
  <2>0. 0 \in Levels
    BY DEF Levels
  <2>1. /\ scan_at \in [Node -> Levels]
        /\ public_grq \in [Node -> [Levels -> Seq(Live)]]
        /\ reply \in [Worker -> Live \cup {NULL, "TORC_NO_WORK"}]
        /\ serving \in [Node -> Live \cup Worker \cup {NULL}]
    BY DEF Held, Plain
  <2>2. ASSUME NEW r \in Live \cup {"TORC_NO_WORK"}, Answer(n, r)
        PROVE  /\ reply' \in [Worker -> Live \cup {NULL, "TORC_NO_WORK"}]
               /\ serving' \in [Node -> Live \cup Worker \cup {NULL}]
               /\ scan_at' \in [Node -> Levels]
    <3>1. reply' = [reply EXCEPT ![serving[n]] = r]
      BY <2>2 DEF Answer
    <3>2. serving' = [serving EXCEPT ![n] = NULL] /\ scan_at' = [scan_at EXCEPT ![n] = 0]
      BY <2>2 DEF Answer
    <3>3. reply' \in [Worker -> Live \cup {NULL, "TORC_NO_WORK"}]
      BY <2>1, <2>2, <3>1
    <3> QED
      BY <2>0, <2>1, <3>2, <3>3
  <2>3. CASE /\ q # <<>>
             /\ Answer(n, Head(q))
             /\ public_grq' = [public_grq EXCEPT ![n][scan_at[n]] = Dequeue(q)]
    <3>1. Head(q) \in Live /\ public_grq' \in [Node -> [Levels -> Seq(Live)]]
      BY <1>1, <2>1, <2>3, DequeueType
    <3> QED
      BY <2>2, <2>3, <3>1
  <2>4. CASE /\ scan_at[n] < LastLevel
             /\ scan_at' = [scan_at EXCEPT ![n] = @ + 1]
             /\ UNCHANGED <<reply, serving, public_grq>>
    <3>1. scan_at[n] + 1 \in Levels
      BY <1>1, <2>4 DEF LastLevel, Levels
    <3> QED
      BY <2>1, <2>4, <3>1
  <2>5. CASE Answer(n, "TORC_NO_WORK") /\ UNCHANGED public_grq
    BY <2>1, <2>2, <2>5
  <2> QED
    BY <2>3, <2>4, <2>5 DEF StealScan
<1>4. Plain'
  BY <1>2, <1>3 DEF Plain, workers
<1>5. Held'
  BY <1>2, <1>3 DEF Held, workers, Live, LiveFrame, LiveMessage
<1> QED
  BY <1>2, <1>4, <1>5, ServerKeeps

----------------------------------------------------------------------------
\* Every step of every thread keeps the invariant.
LEMMA TypeStep == TypeInv /\ [Next]_vars => TypeInv'
<1> SUFFICES ASSUME TypeInv, [Next]_vars PROVE TypeInv'
  OBVIOUS
<1>1. ASSUME NEW w \in Worker, Call(w) PROVE TypeInv'
  <2>1. CASE CountChild(w) \/ WaitAll(w) \/ SpinWait(w) \/ FetchWork(w) \/ Return(w)
    BY <2>1, CallStep
  <2>2. ASSUME NEW t \in Task, NEW n \in Node, CreateDetached(w, t, n) PROVE TypeInv'
    <3>1. w \in Thread /\ Here(w) = node_of[w]
      BY DEF Thread, Here
    <3> QED
      BY <2>2, <3>1, DetachedStep DEF CreateDetached
  <2>3. ASSUME NEW on \in BOOLEAN, SwitchStealing(w, on) PROVE TypeInv'
    BY <2>3, SwitchStep
  <2> QED
    BY <1>1, <2>1, <2>2, <2>3 DEF Call
<1>2. ASSUME NEW w \in Worker, Library(w) PROVE TypeInv'
  BY <1>2, EnqueueStep, ReturnStep, StashStep, CleanupStep, TakePrivateStep, TakePublicStep,
     NextQueueStep, TestFlagStep, StealRequestStep, StealReplyStep, StealNothingStep
  DEF Library, Enqueue
<1>3. ASSUME NEW n \in Node, Server(n) PROVE TypeInv'
  BY <1>3, StealScanStep, DirectDoneStep, RecvEnqueueStep, RecvAnswerStep, RecvStealStep,
     RecvSwitchStep
  DEF Server
<1>4. ASSUME NEW n \in Node, NEW t \in Task, NEW to \in Node, DirectCreate(n, t, to)
      PROVE  TypeInv'
  <2>1. n \in Thread /\ Here(n) = n
    BY Constants DEF Thread, Here
  <2> QED
    BY <1>4, <2>1, DetachedStep DEF DirectCreate
<1>5. CASE UNCHANGED vars
  <2>1. UNCHANGED <<desc, ndep, forked, queues, net, workers, nodes>>
    BY <1>5 DEF vars
  <2>2. Plain'
    BY <2>1 DEF TypeInv, Plain, workers, nodes
  <2>3. Held'
    BY <2>1 DEF TypeInv, Held, queues, net, workers, nodes, Live, LiveFrame, LiveMessage
  <2> QED
    BY <2>1, <2>2, <2>3, ServerKeeps DEF TypeInv, nodes
<1> QED
  BY <1>1, <1>2, <1>3, <1>4, <1>5 DEF Next

\* What is held is a task, and what is sent is a message.
LEMMA TypeInvImpliesTypeOK == TypeInv => TypeOK
<1> SUFFICES ASSUME TypeInv PROVE TypeOK
  OBVIOUS
<1>1. Live \subseteq Task /\ LiveFrame \subseteq Frame /\ LiveMessage \subseteq Message
  BY DEF Live, LiveFrame, LiveMessage, Frame, Message
<1>2. /\ Seq(Live) \subseteq Seq(Task)
      /\ Seq(LiveFrame) \subseteq Seq(Frame)
      /\ Seq(LiveMessage) \subseteq Seq(Message)
  BY <1>1, SeqMonotonic
<1> QED
  BY <1>1, <1>2 DEF TypeInv, Plain, Held, TypeOK

\* Type correctness: no search leaves the array of queues, no message
\* carries the wrong thing, and no thread acts for a task it does not have,
\* for any number of nodes, workers, tasks and levels.
THEOREM RuntimeTypes == Spec => []TypeOK
<1>1. TypeInv /\ [Next]_vars => TypeInv'
  BY TypeStep
<1> QED
  BY <1>1, TypeInit, TypeInvImpliesTypeOK, PTL DEF Spec

\* Nothing dangles: whatever a queue, a message, a reply, a stack or a
\* server holds is a task that has been created, so the fields followed in
\* it (its parent, its home node) are those its creator has filled in.
THEOREM NothingDangles == Spec => []Held
<1>1. TypeInv /\ [Next]_vars => TypeInv'
  BY TypeStep
<1>2. TypeInv => Held
  BY DEF TypeInv
<1> QED
  BY <1>1, <1>2, TypeInit, PTL DEF Spec

-----------------------------------------------------------------------------
(***************************************************************************)
(* Where tasks and stealing requests are, for any number of nodes,         *)
(* workers, tasks and levels: a task is in one place at a time             *)
(* (OneHolder), and a thief has one request or one reply in the system     *)
(* exactly while it holds internode_m (StealHandshake).                    *)
(*                                                                         *)
(* The two are proved together.  A token is a task, the main program or a  *)
(* worker that asks for work; Has(k, i, x) says that token x is in place i *)
(* of kind k.  The inductive invariant says that no token is in two places *)
(* (Apart) or twice in one (NoRepeat), and that a worker is somewhere just *)
(* when it owns internode_m (Asking).  For every action there is a lemma   *)
(* that says which token moves and to where, and that all others stay.     *)
(***************************************************************************)

Token == Task \cup {Root} \cup Worker

\* What the messages of a channel carry.
Carried(q) == [i \in DOMAIN q |-> q[i].arg]

\* Token x is in place i of kind k.  A worker's reply holds the task it
\* brings, if any, and is the end of the worker's request.
Has(k, i, x) ==
  \/ k = "private"  /\ i \in Node /\ x \in Range(private_grq[i])
  \/ k = "public"   /\ i \in Node \X Levels /\ x \in Range(public_grq[i[1]][i[2]])
  \/ k = "chan"     /\ i \in Thread \X Node /\ x \in Range(Carried(chan[i]))
  \/ k = "stack"    /\ i \in Worker /\ x \in Range(stack[i])
  \/ k = "reply"    /\ i \in Worker /\ x \in Task /\ x = reply[i]
  \/ k = "answered" /\ i \in Worker /\ x = i /\ reply[i] # NULL
  \/ k = "hand"     /\ i \in Worker /\ x = hand[i]
  \/ k = "serving"  /\ i \in Node /\ x = serving[i]

AtMostOnePlace(x) ==
  \A k1, k2, i1, i2 : Has(k1, i1, x) /\ Has(k2, i2, x) => k1 = k2 /\ i1 = i2

\* No token is in two places.
Apart == \A x \in Token : AtMostOnePlace(x)

\* No element of S occurs twice in q.
Once(q, S) == \A i, j \in DOMAIN q : q[i] = q[j] /\ q[i] \in S => i = j

\* No token is twice in one place.
NoRepeat ==
  /\ \A n \in Node : Once(private_grq[n], Token)
  /\ \A n \in Node, l \in Levels : Once(public_grq[n][l], Token)
  /\ \A c \in Thread \X Node : Once(Carried(chan[c]), Token)
  /\ \A w \in Worker : Once(stack[w], Token)

\* A worker's request, or the reply to it, is somewhere exactly while the
\* worker owns the internode_m of its node.
Asking == \A w \in Worker : (\E k, i : Has(k, i, w)) <=> internode_m[node_of[w]] = w

\* A worker has nothing in hand but between fetching a task and stashing it.
HandsFree == \A w \in Worker : hand[w] # NULL => pc[w] = "stash"

HolderInv == Apart /\ NoRepeat /\ Asking /\ HandsFree

\* The token stays where it is; leaves the system; is in place i of kind k
\* and nowhere else.
Stays(x)      == \A k, i : Has(k, i, x)' <=> Has(k, i, x)
Leaves(x)     == \A k, i : ~Has(k, i, x)'
Goes(x, k, i) == \A l, j : Has(l, j, x)' <=> l = k /\ j = i

\* How the places change: t is taken from one and put into another; is put
\* into one; is taken from one.
Moves(t, k1, i1, k2, i2) ==
  \A k, i : \A x \in Token :
    Has(k, i, x)' <=> \/ Has(k, i, x) /\ ~(k = k1 /\ i = i1 /\ x = t)
                      \/ k = k2 /\ i = i2 /\ x = t
Puts(t, k2, i2) ==
  \A k, i : \A x \in Token : Has(k, i, x)' <=> Has(k, i, x) \/ (k = k2 /\ i = i2 /\ x = t)
Takes(t, k1, i1) ==
  \A k, i : \A x \in Token : Has(k, i, x)' <=> Has(k, i, x) /\ ~(k = k1 /\ i = i1 /\ x = t)

----------------------------------------------------------------------------
(* Sequences.                                                              *)

\* The range of a sequence to which an element has been added.
LEMMA AppendRange ==
  ASSUME NEW S, NEW q \in Seq(S), NEW e \in S
  PROVE  Range(Append(q, e)) = Range(q) \cup {e}
<1> DEFINE r == Append(q, e)
<1>1. /\ r \in Seq(S) /\ Len(r) = Len(q) + 1
      /\ \A i \in 1 .. Len(q) : r[i] = q[i]
      /\ r[Len(q) + 1] = e
  BY AppendProperties
<1>2. DOMAIN r = 1 .. Len(r) /\ DOMAIN q = 1 .. Len(q) /\ Len(q) \in Nat
  BY <1>1, LenProperties
<1> HIDE DEF r
<1>3. ASSUME NEW x \in Range(r) PROVE x \in Range(q) \cup {e}
  <2>1. PICK i \in 1 .. Len(q) + 1 : x = r[i]
    BY <1>1, <1>2 DEF Range
  <2> QED
    BY <1>1, <1>2, <2>1 DEF Range
<1>4. ASSUME NEW i \in 1 .. Len(q) PROVE q[i] \in Range(r)
  <2>1. i \in 1 .. Len(r) /\ r[i] = q[i]
    BY <1>1, <1>2
  <2> QED
    BY <1>2, <2>1 DEF Range
<1>5. Range(q) \subseteq Range(r)
  BY <1>2, <1>4 DEF Range
<1>6. e \in Range(r)
  <2>1. Len(q) + 1 \in 1 .. Len(r)
    BY <1>1, <1>2
  <2> QED
    BY <1>1, <1>2, <2>1 DEF Range
<1> QED
  BY <1>3, <1>5, <1>6 DEF r

LEMMA AppendOnce ==
  ASSUME NEW S, NEW q \in Seq(S), NEW e \in S, NEW T, Once(q, T), e \notin Range(q) \/ e \notin T
  PROVE  Once(Append(q, e), T)
<1> DEFINE r == Append(q, e)
<1>1. /\ r \in Seq(S) /\ Len(r) = Len(q) + 1
      /\ \A i \in 1 .. Len(q) : r[i] = q[i]
      /\ r[Len(q) + 1] = e
  BY AppendProperties
<1>2. DOMAIN r = 1 .. Len(r) /\ DOMAIN q = 1 .. Len(q) /\ Len(q) \in Nat
  BY <1>1, LenProperties
<1>3. e \notin T \/ \A i \in 1 .. Len(q) : q[i] # e
  BY <1>2 DEF Range
<1> HIDE DEF r
<1>4. ASSUME NEW i \in 1 .. Len(r), NEW j \in 1 .. Len(r), r[i] = r[j], r[i] \in T
      PROVE  i = j
  <2>1. CASE i \in 1 .. Len(q) /\ j \in 1 .. Len(q)
    BY <1>1, <1>2, <1>4, <2>1 DEF Once
  <2>2. CASE i = Len(q) + 1 \/ j = Len(q) + 1
    BY <1>1, <1>2, <1>3, <1>4, <2>2
  <2> QED
    BY <1>1, <1>2, <2>1, <2>2
<1> QED
  BY <1>2, <1>4 DEF Once, r

\* The range of a sequence whose head has been taken.
LEMMA TailRange ==
  ASSUME NEW S, NEW q \in Seq(S), q # <<>>
  PROVE  /\ Head(q) \in Range(q)
         /\ Range(q) = Range(Tail(q)) \cup {Head(q)}
<1>1. /\ Tail(q) \in Seq(S) /\ Len(Tail(q)) = Len(q) - 1
      /\ \A i \in 1 .. Len(Tail(q)) : Tail(q)[i] = q[i + 1]
      /\ Head(q) = q[1]
  BY HeadTailProperties
<1>2. /\ DOMAIN Tail(q) = 1 .. Len(Tail(q)) /\ DOMAIN q = 1 .. Len(q)
      /\ Len(q) \in Nat \ {0}
  BY <1>1, LenProperties, EmptySeq
<1>3. ASSUME NEW x \in Range(q) PROVE x \in Range(Tail(q)) \cup {Head(q)}
  <2>1. PICK i \in 1 .. Len(q) : x = q[i]
    BY <1>2 DEF Range
  <2>2. CASE i = 1
    BY <1>1, <2>1, <2>2
  <2>3. CASE i # 1
    <3>1. i - 1 \in 1 .. Len(Tail(q)) /\ (i - 1) + 1 = i
      BY <1>1, <1>2, <2>3
    <3>2. Tail(q)[i - 1] = x
      BY <1>1, <2>1, <3>1
    <3> QED
      BY <1>2, <3>1, <3>2 DEF Range
  <2> QED
    BY <2>2, <2>3
<1>4. ASSUME NEW i \in 1 .. Len(Tail(q)) PROVE Tail(q)[i] \in Range(q)
  <2>1. i + 1 \in 1 .. Len(q)
    BY <1>1, <1>2
  <2> QED
    BY <1>1, <1>2, <2>1 DEF Range
<1>5. 1 \in 1 .. Len(q)
  BY <1>2
<1> QED
  BY <1>1, <1>2, <1>3, <1>4, <1>5 DEF Range

LEMMA TailOnce ==
  ASSUME NEW S, NEW q \in Seq(S), q # <<>>, NEW T, Once(q, T)
  PROVE  /\ Once(Tail(q), T)
         /\ Head(q) \in T => Head(q) \notin Range(Tail(q))
<1>1. /\ Tail(q) \in Seq(S) /\ Len(Tail(q)) = Len(q) - 1
      /\ \A i \in 1 .. Len(Tail(q)) : Tail(q)[i] = q[i + 1]
      /\ Head(q) = q[1]
  BY HeadTailProperties
<1>2. /\ DOMAIN Tail(q) = 1 .. Len(Tail(q)) /\ DOMAIN q = 1 .. Len(q)
      /\ Len(q) \in Nat \ {0}
  BY <1>1, LenProperties, EmptySeq
<1>3. \A i \in 1 .. Len(Tail(q)) : i \in Int /\ i + 1 \in 1 .. Len(q) /\ i + 1 # 1
  BY <1>1, <1>2
<1>4. ASSUME NEW i \in 1 .. Len(Tail(q)), NEW j \in 1 .. Len(Tail(q)),
             Tail(q)[i] = Tail(q)[j], Tail(q)[i] \in T
      PROVE  i = j
  <2>1. i + 1 = j + 1
    BY <1>1, <1>2, <1>3, <1>4 DEF Once
  <2> QED
    BY <1>3, <2>1
<1>5. 1 \in 1 .. Len(q)
  BY <1>2
<1>6. ASSUME Head(q) \in T, NEW i \in 1 .. Len(Tail(q)), Tail(q)[i] = Head(q) PROVE FALSE
  BY <1>1, <1>2, <1>3, <1>5, <1>6 DEF Once
<1> QED
  BY <1>2, <1>4, <1>6 DEF Once, Range

\* The same of a sequence whose last element has been taken.
LEMMA FrontRange ==
  ASSUME NEW S, NEW q \in Seq(S), q # <<>>
  PROVE  /\ Front(q) \in Seq(S) /\ Last(q) \in S
         /\ Len(Front(q)) = Len(q) - 1
         /\ \A i \in 1 .. Len(q) - 1 : Front(q)[i] = q[i]
         /\ Last(q) \in Range(q)
         /\ Range(q) = Range(Front(q)) \cup {Last(q)}
<1>1. /\ DOMAIN q = 1 .. Len(q) /\ Len(q) \in Nat \ {0} /\ Len(q) \in 1 .. Len(q)
      /\ q \in [1 .. Len(q) -> S]
  BY LenProperties, EmptySeq
<1>2. \A i \in 1 .. Len(q) - 1 : q[i] \in S
  BY <1>1
<1>3. /\ Front(q) \in Seq(S)
      /\ Len(Front(q)) = IF 1 <= Len(q) - 1 THEN (Len(q) - 1) - 1 + 1 ELSE 0
      /\ \A i \in 1 .. (Len(q) - 1) - 1 + 1 : Front(q)[i] = q[1 + i - 1]
  <2>1. 1 \in Int /\ Len(q) - 1 \in Int
    BY <1>1
  <2> QED
    BY <1>2, <2>1, SubSeqProperties DEF Front
<1>4. /\ Len(Front(q)) = Len(q) - 1
      /\ \A i \in 1 .. Len(q) - 1 : Front(q)[i] = q[i]
  <2>1. (Len(q) - 1) - 1 + 1 = Len(q) - 1
    BY <1>1
  <2>2. \A i \in 1 .. Len(q) - 1 : 1 + i - 1 = i
    BY <1>1
  <2>3. \A i \in 1 .. Len(q) - 1 : Front(q)[i] = q[i]
    BY <1>3, <2>1, <2>2
  <2>4. Len(q) - 1 = IF 1 <= Len(q) - 1 THEN (Len(q) - 1) - 1 + 1 ELSE 0
    BY <1>1
  <2> QED
    BY <1>3, <2>3, <2>4
<1>5. DOMAIN Front(q) = 1 .. Len(q) - 1
  BY <1>3, <1>4, LenProperties
<1>6. Last(q) = q[Len(q)]
  BY DEF Last
<1>7. Range(q) = Range(Front(q)) \cup {Last(q)}
  BY <1>1, <1>4, <1>5, <1>6 DEF Range
<1> QED
  BY <1>1, <1>3, <1>4, <1>6, <1>7

LEMMA FrontOnce ==
  ASSUME NEW S, NEW q \in Seq(S), q # <<>>, NEW T, Once(q, T)
  PROVE  /\ Once(Front(q), T)
         /\ Last(q) \in T => Last(q) \notin Range(Front(q))
<1>1. /\ DOMAIN q = 1 .. Len(q) /\ Len(q) \in Nat \ {0}
      /\ Front(q) \in Seq(S) /\ Len(Front(q)) = Len(q) - 1
      /\ \A i \in 1 .. Len(q) - 1 : Front(q)[i] = q[i]
  BY LenProperties, EmptySeq, FrontRange
<1>2. DOMAIN Front(q) = 1 .. Len(q) - 1
  BY <1>1, LenProperties
<1>3. Last(q) = q[Len(q)]
  BY DEF Last
<1> QED
  BY <1>1, <1>2, <1>3 DEF Once, Range

\* Messages sent and received, seen as what they carry.
LEMMA CarriedAppend ==
  ASSUME NEW S, NEW q \in Seq(S), NEW m \in S, NEW T, \A x \in S : x.arg \in T
  PROVE  /\ Carried(q) \in Seq(T)
         /\ Carried(Append(q, m)) = Append(Carried(q), m.arg)
<1>1. /\ Append(q, m) \in Seq(S) /\ Len(Append(q, m)) = Len(q) + 1
      /\ \A i \in 1 .. Len(q) : Append(q, m)[i] = q[i]
      /\ Append(q, m)[Len(q) + 1] = m
  BY AppendProperties
<1>2. /\ DOMAIN q = 1 .. Len(q) /\ Len(q) \in Nat /\ q \in [1 .. Len(q) -> S]
      /\ DOMAIN Append(q, m) = 1 .. Len(q) + 1
  BY <1>1, LenProperties
<1>3. Carried(q) = [i \in 1 .. Len(q) |-> q[i].arg]
  BY <1>2 DEF Carried
<1>4. Carried(q) \in [1 .. Len(q) -> T]
  BY <1>2, <1>3
<1>5. Carried(q) \in Seq(T) /\ Len(Carried(q)) = Len(q)
  BY <1>2, <1>3, <1>4
<1>6. /\ Append(Carried(q), m.arg) \in Seq(T)
      /\ Len(Append(Carried(q), m.arg)) = Len(q) + 1
      /\ \A i \in 1 .. Len(q) : Append(Carried(q), m.arg)[i] = q[i].arg
      /\ Append(Carried(q), m.arg)[Len(q) + 1] = m.arg
  BY <1>2, <1>3, <1>5, AppendProperties
<1>7. Append(Carried(q), m.arg) \in [1 .. Len(q) + 1 -> T]
  BY <1>6, LenProperties
<1>8. Carried(Append(q, m)) = [i \in 1 .. Len(q) + 1 |-> Append(q, m)[i].arg]
  BY <1>2 DEF Carried
<1>9. \A i \in 1 .. Len(q) + 1 : Append(q, m)[i].arg = Append(Carried(q), m.arg)[i]
  BY <1>1, <1>2, <1>6
<1> QED
  BY <1>5, <1>7, <1>8, <1>9

LEMMA CarriedTail ==
  ASSUME NEW S, NEW q \in Seq(S), q # <<>>, NEW T, \A x \in S : x.arg \in T
  PROVE  /\ Carried(q) \in Seq(T) /\ Carried(q) # <<>>
         /\ Head(Carried(q)) = Head(q).arg
         /\ Carried(Tail(q)) = Tail(Carried(q))
<1>1. /\ Tail(q) \in Seq(S) /\ Len(Tail(q)) = Len(q) - 1
      /\ \A i \in 1 .. Len(Tail(q)) : Tail(q)[i] = q[i + 1]
      /\ Head(q) = q[1]
  BY HeadTailProperties
<1>2. /\ DOMAIN q = 1 .. Len(q) /\ Len(q) \in Nat \ {0} /\ q \in [1 .. Len(q) -> S]
      /\ DOMAIN Tail(q) = 1 .. Len(q) - 1
  BY <1>1, LenProperties, EmptySeq
<1>3. Carried(q) = [i \in 1 .. Len(q) |-> q[i].arg]
  BY <1>2 DEF Carried
<1>4. Carried(q) \in [1 .. Len(q) -> T]
  BY <1>2, <1>3
<1>5. Carried(q) \in Seq(T) /\ Len(Carried(q)) = Len(q) /\ Carried(q) # <<>>
  BY <1>2, <1>3, <1>4, EmptySeq
<1>6. /\ Tail(Carried(q)) \in Seq(T)
      /\ Len(Tail(Carried(q))) = Len(q) - 1
      /\ \A i \in 1 .. Len(q) - 1 : Tail(Carried(q))[i] = Carried(q)[i + 1]
      /\ Head(Carried(q)) = Carried(q)[1]
  BY <1>5, HeadTailProperties
<1>7. Tail(Carried(q)) \in [1 .. Len(q) - 1 -> T]
  BY <1>6, LenProperties
<1>8. Carried(Tail(q)) = [i \in 1 .. Len(q) - 1 |-> Tail(q)[i].arg]
  BY <1>2 DEF Carried
<1>9. \A i \in 1 .. Len(q) - 1 : i + 1 \in 1 .. Len(q) /\ Tail(q)[i].arg = Tail(Carried(q))[i]
  BY <1>1, <1>2, <1>3, <1>6
<1>10. Head(Carried(q)) = Head(q).arg
  BY <1>1, <1>2, <1>3, <1>6
<1> QED
  BY <1>5, <1>7, <1>8, <1>9, <1>10


----------------------------------------------------------------------------
(* Queues and channels: what one more or one less changes in the places.   *)

\* A message is sent.
LEMMA SendPlaces ==
  ASSUME NEW S, chan \in [Thread \X Node -> Seq(S)],
         NEW s \in Thread, NEW n \in Node, NEW m \in S, Send(s, n, m)
  PROVE  /\ \A c \in Thread \X Node :
              Range(Carried(chan'[c])) =
                Range(Carried(chan[c])) \cup (IF c = <<s, n>> THEN {m.arg} ELSE {})
         /\ /\ \A c \in Thread \X Node : Once(Carried(chan[c]), Token)
            /\ m.arg \notin Range(Carried(chan[<<s, n>>])) \/ m.arg \notin Token
            => \A c \in Thread \X Node : Once(Carried(chan'[c]), Token)
<1> DEFINE q == chan[<<s, n>>]
           A == {x.arg : x \in S}
<1>1. q \in Seq(S) /\ chan' = [chan EXCEPT ![<<s, n>>] = Append(q, m)]
  BY DEF Send
<1>0. \A x \in S : x.arg \in A
  OBVIOUS
<1> HIDE DEF A
<1>2. /\ Carried(q) \in Seq(A) /\ m.arg \in A
      /\ Carried(Append(q, m)) = Append(Carried(q), m.arg)
  BY <1>0, <1>1, CarriedAppend
<1>3. \A c \in Thread \X Node : chan'[c] = IF c = <<s, n>> THEN Append(q, m) ELSE chan[c]
  BY <1>1
<1>4. Range(Carried(chan'[<<s, n>>])) = Range(Carried(q)) \cup {m.arg}
  <2>1. Range(Append(Carried(q), m.arg)) = Range(Carried(q)) \cup {m.arg}
    BY <1>2, AppendRange
  <2> QED
    BY <1>2, <1>3, <2>1
<1>5. ASSUME Once(Carried(q), Token), m.arg \notin Range(Carried(q)) \/ m.arg \notin Token
      PROVE  Once(Carried(chan'[<<s, n>>]), Token)
  BY <1>2, <1>3, <1>5, AppendOnce
<1> QED
  BY <1>3, <1>4, <1>5

\* A message is received.
LEMMA ReceivePlaces ==
  ASSUME NEW S, chan \in [Thread \X Node -> Seq(S)],
         NEW s \in Thread, NEW n \in Node, chan[<<s, n>>] # <<>>, Receive(s, n)
  PROVE  LET arg == Head(chan[<<s, n>>]).arg
         IN  /\ arg \in Range(Carried(chan[<<s, n>>]))
             /\ \A c \in Thread \X Node :
                  Range(Carried(chan[c])) =
                    Range(Carried(chan'[c])) \cup (IF c = <<s, n>> THEN {arg} ELSE {})
             /\ (\A c \in Thread \X Node : Once(Carried(chan[c]), Token)) =>
                  /\ \A c \in Thread \X Node : Once(Carried(chan'[c]), Token)
                  /\ arg \in Token => arg \notin Range(Carried(chan'[<<s, n>>]))
<1> DEFINE q == chan[<<s, n>>]
           A == {x.arg : x \in S}
           arg == Head(q).arg
<1>1. q \in Seq(S) /\ chan' = [chan EXCEPT ![<<s, n>>] = Tail(q)]
  BY DEF Receive
<1>0. \A x \in S : x.arg \in A
  OBVIOUS
<1> HIDE DEF A
<1>2. /\ Carried(q) \in Seq(A) /\ Carried(q) # <<>>
      /\ Head(Carried(q)) = arg
      /\ Carried(Tail(q)) = Tail(Carried(q))
  BY <1>0, <1>1, CarriedTail
<1>3. \A c \in Thread \X Node : chan'[c] = IF c = <<s, n>> THEN Tail(q) ELSE chan[c]
  BY <1>1
<1>4. /\ arg \in Range(Carried(q))
      /\ Range(Carried(q)) = Range(Carried(chan'[<<s, n>>])) \cup {arg}
  BY <1>2, <1>3, TailRange
<1>5. ASSUME Once(Carried(q), Token)
      PROVE  /\ Once(Carried(chan'[<<s, n>>]), Token)
             /\ arg \in Token => arg \notin Range(Carried(chan'[<<s, n>>]))
  BY <1>2, <1>3, <1>5, TailOnce
<1> QED
  BY <1>3, <1>4, <1>5

\* A private queue grows at its end or loses its head; a stack grows.
LEMMA PrivatePush ==
  ASSUME private_grq \in [Node -> Seq(Task)], NEW a \in Node, NEW e \in Task,
         private_grq' = [private_grq EXCEPT ![a] = Append(private_grq[a], e)]
  PROVE  /\ \A b \in Node :
              Range(private_grq'[b]) = Range(private_grq[b]) \cup (IF b = a THEN {e} ELSE {})
         /\ /\ \A b \in Node : Once(private_grq[b], Token)
            /\ e \notin Range(private_grq[a]) \/ e \notin Token
            => \A b \in Node : Once(private_grq'[b], Token)
<1>1. \A b \in Node : private_grq'[b] = IF b = a THEN Append(private_grq[a], e) ELSE private_grq[b]
  OBVIOUS
<1>2. Range(private_grq'[a]) = Range(private_grq[a]) \cup {e}
  BY <1>1, AppendRange
<1>3. ASSUME Once(private_grq[a], Token), e \notin Range(private_grq[a]) \/ e \notin Token
      PROVE  Once(private_grq'[a], Token)
  BY <1>1, <1>3, AppendOnce
<1> QED
  BY <1>1, <1>2, <1>3

LEMMA PrivatePop ==
  ASSUME private_grq \in [Node -> Seq(Task)], NEW a \in Node, private_grq[a] # <<>>,
         private_grq' = [private_grq EXCEPT ![a] = Dequeue(private_grq[a])]
  PROVE  LET t == Head(private_grq[a])
         IN  /\ t \in Range(private_grq[a])
             /\ \A b \in Node :
                  Range(private_grq[b]) = Range(private_grq'[b]) \cup (IF b = a THEN {t} ELSE {})
             /\ (\A b \in Node : Once(private_grq[b], Token)) =>
                  /\ \A b \in Node : Once(private_grq'[b], Token)
                  /\ t \in Token => t \notin Range(private_grq'[a])
<1> DEFINE t == Head(private_grq[a])
<1>1. \A b \in Node : private_grq'[b] = IF b = a THEN Tail(private_grq[a]) ELSE private_grq[b]
  BY DEF Dequeue
<1>2. t \in Range(private_grq[a]) /\ Range(private_grq[a]) = Range(private_grq'[a]) \cup {t}
  BY <1>1, TailRange
<1>3. ASSUME Once(private_grq[a], Token)
      PROVE  Once(private_grq'[a], Token) /\ (t \in Token => t \notin Range(private_grq'[a]))
  BY <1>1, <1>3, TailOnce
<1> QED
  BY <1>1, <1>2, <1>3

LEMMA StackPush ==
  ASSUME stack \in [Worker -> Seq(Frame)], NEW a \in Worker, NEW e \in Frame,
         stack' = [stack EXCEPT ![a] = Append(stack[a], e)]
  PROVE  /\ \A b \in Worker :
              Range(stack'[b]) = Range(stack[b]) \cup (IF b = a THEN {e} ELSE {})
         /\ /\ \A b \in Worker : Once(stack[b], Token)
            /\ e \notin Range(stack[a]) \/ e \notin Token
            => \A b \in Worker : Once(stack'[b], Token)
<1>1. \A b \in Worker : stack'[b] = IF b = a THEN Append(stack[a], e) ELSE stack[b]
  OBVIOUS
<1>2. Range(stack'[a]) = Range(stack[a]) \cup {e}
  BY <1>1, AppendRange
<1>3. ASSUME Once(stack[a], Token), e \notin Range(stack[a]) \/ e \notin Token
      PROVE  Once(stack'[a], Token)
  BY <1>1, <1>3, AppendOnce
<1> QED
  BY <1>1, <1>2, <1>3

\* The public queues, which are indexed by node and level.
LEMMA PublicPush ==
  ASSUME NEW S, public_grq \in [Node -> [Levels -> Seq(S)]],
         NEW n \in Node, NEW t \in S, NEW level \in Nat, ToPublic(n, t, level)
  PROVE  LET l == PublicLevel(level)
         IN  /\ l \in Levels
             /\ \A m \in Node, k \in Levels :
                  Range(public_grq'[m][k]) =
                    Range(public_grq[m][k]) \cup (IF m = n /\ k = l THEN {t} ELSE {})
             /\ /\ \A m \in Node, k \in Levels : Once(public_grq[m][k], Token)
                /\ t \notin Range(public_grq[n][l]) \/ t \notin Token
                => \A m \in Node, k \in Levels : Once(public_grq'[m][k], Token)
<1> DEFINE l == PublicLevel(level)
<1>1. l \in Levels
  BY Constants
<1>2. \A m \in Node, k \in Levels :
        public_grq'[m][k] = IF m = n /\ k = l THEN Append(public_grq[n][l], t)
                                              ELSE public_grq[m][k]
  BY <1>1 DEF ToPublic
<1>3. Range(public_grq'[n][l]) = Range(public_grq[n][l]) \cup {t}
  BY <1>1, <1>2, AppendRange
<1>4. ASSUME Once(public_grq[n][l], Token), t \notin Range(public_grq[n][l]) \/ t \notin Token
      PROVE  Once(public_grq'[n][l], Token)
  BY <1>1, <1>2, <1>4, AppendOnce
<1> QED
  BY <1>1, <1>2, <1>3, <1>4

LEMMA PublicPop ==
  ASSUME NEW S, public_grq \in [Node -> [Levels -> Seq(S)]],
         NEW n \in Node, NEW l \in Levels, public_grq[n][l] # <<>>,
         public_grq' = [public_grq EXCEPT ![n][l] = Dequeue(public_grq[n][l])]
  PROVE  LET t == Head(public_grq[n][l])
         IN  /\ t \in Range(public_grq[n][l])
             /\ \A m \in Node, k \in Levels :
                  Range(public_grq[m][k]) =
                    Range(public_grq'[m][k]) \cup (IF m = n /\ k = l THEN {t} ELSE {})
             /\ (\A m \in Node, k \in Levels : Once(public_grq[m][k], Token)) =>
                  /\ \A m \in Node, k \in Levels : Once(public_grq'[m][k], Token)
                  /\ t \in Token => t \notin Range(public_grq'[n][l])
<1> DEFINE t == Head(public_grq[n][l])
<1>1. \A m \in Node, k \in Levels :
        public_grq'[m][k] = IF m = n /\ k = l THEN Tail(public_grq[n][l]) ELSE public_grq[m][k]
  BY DEF Dequeue
<1>2. t \in Range(public_grq[n][l]) /\ Range(public_grq[n][l]) = Range(public_grq'[n][l]) \cup {t}
  BY <1>1, TailRange
<1>3. ASSUME Once(public_grq[n][l], Token)
      PROVE  Once(public_grq'[n][l], Token) /\ (t \in Token => t \notin Range(public_grq'[n][l]))
  BY <1>1, <1>3, TailOnce
<1> QED
  BY <1>1, <1>2, <1>3

----------------------------------------------------------------------------
(* How the invariant follows from what an action does to the tokens.       *)

\* Tokens that stay, leave or go to one place are in one place at most.
LEMMA ApartStep ==
  ASSUME Apart, \A x \in Token : Stays(x) \/ Leaves(x) \/ \E k, i : Goes(x, k, i)
  PROVE  Apart'
<1> SUFFICES ASSUME NEW x \in Token PROVE AtMostOnePlace(x)'
  BY DEF Apart, Token
<1>1. CASE Stays(x)
  BY <1>1 DEF Apart, Stays, AtMostOnePlace
<1>2. CASE Leaves(x)
  BY <1>2 DEF Leaves, AtMostOnePlace
<1>3. ASSUME NEW k, NEW i, Goes(x, k, i) PROVE AtMostOnePlace(x)'
  BY <1>3 DEF Goes, AtMostOnePlace
<1> QED
  BY <1>1, <1>2, <1>3

\* A token taken from one place and put in another one.
LEMMA Transfer ==
  ASSUME Apart, NEW t \in Token, NEW k1, NEW i1, NEW k2, NEW i2, Has(k1, i1, t),
         Moves(t, k1, i1, k2, i2)
  PROVE  Goes(t, k2, i2) /\ \A x \in Token \ {t} : Stays(x)
<1>1. \A k, i : Has(k, i, t) => k = k1 /\ i = i1
  BY DEF Apart, AtMostOnePlace
<1>2. Goes(t, k2, i2)
  BY <1>1 DEF Goes, Moves
<1> QED
  BY <1>2 DEF Stays, Moves

\* A token taken away.
LEMMA Removal ==
  ASSUME Apart, NEW t \in Token, NEW k1, NEW i1, Has(k1, i1, t), Takes(t, k1, i1)
  PROVE  Leaves(t) /\ \A x \in Token \ {t} : Stays(x)
<1>1. \A k, i : Has(k, i, t) => k = k1 /\ i = i1
  BY DEF Apart, AtMostOnePlace
<1>2. Leaves(t)
  BY <1>1 DEF Leaves, Takes
<1> QED
  BY <1>2 DEF Stays, Takes

\* A token that was nowhere.
LEMMA Arrival ==
  ASSUME NEW t \in Token, NEW k2, NEW i2, \A k, i : ~Has(k, i, t), Puts(t, k2, i2)
  PROVE  Goes(t, k2, i2) /\ \A x \in Token \ {t} : Stays(x)
BY DEF Goes, Stays, Puts

\* The places do not change.
LEMMA Unmoved ==
  ASSUME UNCHANGED <<queues, net, stack, hand, serving>>
  PROVE  /\ \A x : Stays(x)
         /\ NoRepeat => NoRepeat'
BY DEF queues, net, Stays, Has, NoRepeat, Once, Carried

\* A task that nobody has created is nowhere.
LEMMA UnbornNowhere ==
  ASSUME Held, NEW t \in Task, desc[t] = NULL
  PROVE  \A k, i : ~Has(k, i, t)
<1> USE Constants
<1>0. t \notin Live /\ t \notin LiveFrame /\ t \notin Worker /\ t # NULL /\ t # "TORC_NO_WORK"
  BY DEF Live, LiveFrame
<1>1. \A n \in Node : t \notin Range(private_grq[n])
  <2>1. \A n \in Node : Range(private_grq[n]) \in SUBSET Live
    BY RangeOfSeq DEF Held
  <2> QED
    BY <1>0, <2>1
<1>2. \A n \in Node, l \in Levels : t \notin Range(public_grq[n][l])
  <2>1. \A n \in Node, l \in Levels : Range(public_grq[n][l]) \in SUBSET Live
    BY RangeOfSeq DEF Held
  <2> QED
    BY <1>0, <2>1
<1>3. \A c \in Thread \X Node : t \notin Range(Carried(chan[c]))
  <2> SUFFICES ASSUME NEW c \in Thread \X Node, NEW j \in DOMAIN chan[c], chan[c][j].arg = t
               PROVE  FALSE
    BY DEF Range, Carried
  <2>1. chan[c] \in Seq(LiveMessage)
    BY DEF Held
  <2>2. chan[c][j] \in LiveMessage
    BY <2>1, LenProperties
  <2>3. chan[c][j].arg \in Live \cup Worker \cup {NULL}
    BY <2>2 DEF LiveMessage
  <2> QED
    BY <1>0, <2>3
<1>4. \A w \in Worker : t \notin Range(stack[w])
  <2>1. \A w \in Worker : Range(stack[w]) \in SUBSET LiveFrame
    BY RangeOfSeq DEF Held
  <2> QED
    BY <1>0, <2>1
<1>5. \A w \in Worker : t # w /\ t # reply[w] /\ t # hand[w]
  BY <1>0 DEF Held
<1>6. \A n \in Node : t # serving[n]
  BY <1>0 DEF Held
<1> QED
  BY <1>1, <1>2, <1>3, <1>4, <1>5, <1>6 DEF Has

\* A task in one place is not in another.
LEMMA Elsewhere ==
  ASSUME HolderInv, NEW x \in Token, NEW k1, NEW i1, NEW k2, NEW i2,
         Has(k1, i1, x), k1 # k2
  PROVE  ~Has(k2, i2, x)
BY DEF HolderInv, Apart, AtMostOnePlace

----------------------------------------------------------------------------
(* One message or one queued task more or less, by token.                  *)

\* A message that carries a token.
LEMMA SendWhere ==
  ASSUME TypeInv, HolderInv, NEW s \in Thread, NEW n \in Node, NEW m \in Message,
         NEW t \in Token, m.arg = t, Send(s, n, m), ~Has("chan", <<s, n>>, t)
  PROVE  /\ <<s, n>> \in Thread \X Node
         /\ \A c \in Thread \X Node, x \in Token :
              x \in Range(Carried(chan'[c])) <=>
                x \in Range(Carried(chan[c])) \/ (c = <<s, n>> /\ x = t)
         /\ \A c \in Thread \X Node : Once(Carried(chan'[c]), Token)
<1>1. chan \in [Thread \X Node -> Seq(Message)] /\ <<s, n>> \in Thread \X Node
  BY TypeInvImpliesTypeOK DEF TypeOK
<1>2. /\ \A c \in Thread \X Node :
           Range(Carried(chan'[c])) =
             Range(Carried(chan[c])) \cup (IF c = <<s, n>> THEN {m.arg} ELSE {})
      /\ /\ \A c \in Thread \X Node : Once(Carried(chan[c]), Token)
         /\ m.arg \notin Range(Carried(chan[<<s, n>>])) \/ m.arg \notin Token
         => \A c \in Thread \X Node : Once(Carried(chan'[c]), Token)
  BY <1>1, SendPlaces
<1>3. t \notin Range(Carried(chan[<<s, n>>]))
  BY <1>1 DEF Has
<1> QED
  BY <1>1, <1>2, <1>3 DEF HolderInv, NoRepeat

LEMMA ReceiveWhere ==
  ASSUME TypeInv, HolderInv, NEW s \in Thread, NEW n \in Node,
         NEW t \in Token, Head(chan[<<s, n>>]).arg = t, chan[<<s, n>>] # <<>>, Receive(s, n)
  PROVE  /\ Has("chan", <<s, n>>, t)
         /\ \A c \in Thread \X Node, x \in Token :
              x \in Range(Carried(chan'[c])) <=>
                x \in Range(Carried(chan[c])) /\ ~(c = <<s, n>> /\ x = t)
         /\ \A c \in Thread \X Node : Once(Carried(chan'[c]), Token)
<1>1. chan \in [Thread \X Node -> Seq(Message)] /\ <<s, n>> \in Thread \X Node
  BY TypeInvImpliesTypeOK DEF TypeOK
<1>2. LET arg == Head(chan[<<s, n>>]).arg
      IN  /\ arg \in Range(Carried(chan[<<s, n>>]))
          /\ \A c \in Thread \X Node :
               Range(Carried(chan[c])) =
                 Range(Carried(chan'[c])) \cup (IF c = <<s, n>> THEN {arg} ELSE {})
          /\ (\A c \in Thread \X Node : Once(Carried(chan[c]), Token)) =>
               /\ \A c \in Thread \X Node : Once(Carried(chan'[c]), Token)
               /\ arg \in Token => arg \notin Range(Carried(chan'[<<s, n>>]))
  BY <1>1, ReceivePlaces
<1> QED
  BY <1>1, <1>2 DEF HolderInv, NoRepeat, Has

\* A task that enters or leaves a public queue.
LEMMA PublicIn ==
  ASSUME TypeInv, HolderInv, NEW n \in Node, NEW t \in Task, NEW level \in Nat,
         ToPublic(n, t, level), \A i : ~Has("public", i, t)
  PROVE  /\ <<n, PublicLevel(level)>> \in Node \X Levels
         /\ \A i \in Node \X Levels, x \in Token :
              x \in Range(public_grq'[i[1]][i[2]]) <=>
                \/ x \in Range(public_grq[i[1]][i[2]])
                \/ i = <<n, PublicLevel(level)>> /\ x = t
         /\ \A m \in Node, k \in Levels : Once(public_grq'[m][k], Token)
<1> DEFINE l == PublicLevel(level)
<1>1. public_grq \in [Node -> [Levels -> Seq(Task)]] /\ t \in Token
  BY TypeInvImpliesTypeOK DEF TypeOK, Token
<1>2. /\ l \in Levels
      /\ \A m \in Node, k \in Levels :
           Range(public_grq'[m][k]) =
             Range(public_grq[m][k]) \cup (IF m = n /\ k = l THEN {t} ELSE {})
      /\ /\ \A m \in Node, k \in Levels : Once(public_grq[m][k], Token)
         /\ t \notin Range(public_grq[n][l]) \/ t \notin Token
         => \A m \in Node, k \in Levels : Once(public_grq'[m][k], Token)
  BY <1>1, PublicPush
<1> HIDE DEF l
<1>3. <<n, l>> \in Node \X Levels /\ <<n, l>>[1] = n /\ <<n, l>>[2] = l
  BY <1>2
<1>4. \A i \in Node \X Levels : i[1] \in Node /\ i[2] \in Levels /\ (i = <<n, l>> <=> i[1] = n /\ i[2] = l)
  OBVIOUS
<1>5. t \notin Range(public_grq[n][l])
  BY <1>3 DEF Has
<1>6. \A m \in Node, k \in Levels, x \in Token :
        x \in Range(public_grq'[m][k]) <=>
          x \in Range(public_grq[m][k]) \/ (m = n /\ k = l /\ x = t)
  BY <1>2
<1>7. \A i \in Node \X Levels, x \in Token :
        x \in Range(public_grq'[i[1]][i[2]]) <=>
          x \in Range(public_grq[i[1]][i[2]]) \/ (i = <<n, l>> /\ x = t)
  BY <1>4, <1>6
<1> QED
  BY <1>2, <1>3, <1>5, <1>7 DEF HolderInv, NoRepeat, l

LEMMA PublicOut ==
  ASSUME TypeInv, HolderInv, NEW n \in Node, NEW l \in Levels, public_grq[n][l] # <<>>,
         public_grq' = [public_grq EXCEPT ![n][l] = Dequeue(public_grq[n][l])]
  PROVE  LET t == Head(public_grq[n][l])
         IN  /\ t \in Task
             /\ Has("public", <<n, l>>, t)
             /\ \A i \in Node \X Levels, x \in Token :
                  x \in Range(public_grq'[i[1]][i[2]]) <=>
                    x \in Range(public_grq[i[1]][i[2]]) /\ ~(i = <<n, l>> /\ x = t)
             /\ \A m \in Node, k \in Levels : Once(public_grq'[m][k], Token)
<1> DEFINE t == Head(public_grq[n][l])
<1>1. public_grq \in [Node -> [Levels -> Seq(Task)]]
  BY TypeInvImpliesTypeOK DEF TypeOK
<1>2. t \in Task
  <2>1. public_grq[n][l] \in Seq(Task)
    BY <1>1
  <2> QED
    BY <2>1, HeadTailProperties
<1>3. /\ t \in Range(public_grq[n][l])
      /\ \A m \in Node, j \in Levels :
           Range(public_grq[m][j]) =
             Range(public_grq'[m][j]) \cup (IF m = n /\ j = l THEN {t} ELSE {})
      /\ (\A m \in Node, j \in Levels : Once(public_grq[m][j], Token)) =>
           /\ \A m \in Node, j \in Levels : Once(public_grq'[m][j], Token)
           /\ t \in Token => t \notin Range(public_grq'[n][l])
  BY <1>1, PublicPop
<1> HIDE DEF t
<1>4. <<n, l>> \in Node \X Levels /\ <<n, l>>[1] = n /\ <<n, l>>[2] = l
  OBVIOUS
<1>5. \A i \in Node \X Levels : i[1] \in Node /\ i[2] \in Levels /\ (i = <<n, l>> <=> i[1] = n /\ i[2] = l)
  OBVIOUS
<1>6. Has("public", <<n, l>>, t)
  BY <1>3, <1>4 DEF Has
<1>7. \A m \in Node, k \in Levels : Once(public_grq'[m][k], Token)
  BY <1>3 DEF HolderInv, NoRepeat
<1>8. \A m \in Node, j \in Levels, x \in Token :
        x \in Range(public_grq'[m][j]) <=>
          x \in Range(public_grq[m][j]) /\ ~(m = n /\ j = l /\ x = t)
  BY <1>2, <1>3 DEF HolderInv, NoRepeat, Token
<1>9. \A i \in Node \X Levels, x \in Token :
        x \in Range(public_grq'[i[1]][i[2]]) <=>
          x \in Range(public_grq[i[1]][i[2]]) /\ ~(i = <<n, l>> /\ x = t)
  BY <1>5, <1>8
<1> QED
  BY <1>2, <1>6, <1>7, <1>9 DEF t

----------------------------------------------------------------------------
(* What each action does to the tokens: creation and the calls of a task.  *)

\* A task that is created goes to a public queue or into a message.
LEMMA PlaceWhere ==
  ASSUME TypeInv, HolderInv, NEW s \in Thread, NEW t \in Task, NEW to \in Node,
         NEW p \in Frame \cup {NULL}, NEW level \in Nat, NEW direct \in BOOLEAN,
         NewDesc(t, p, Here(s), level, direct), Place(s, t, to),
         UNCHANGED <<private_grq, reply, stack, hand, serving>>
  PROVE  /\ \E k, i : Goes(t, k, i)
         /\ \A x \in Token \ {t} : Stays(x)
         /\ \A k, i : ~Has(k, i, t)
         /\ NoRepeat'
<1> USE Constants
<1>1. t \in Token
  BY DEF Token
<1>2. \A k, i : ~Has(k, i, t)
  BY UnbornNowhere DEF NewDesc, TypeInv
<1>3. Here(s) \in Node
  BY DEF Here, Thread
<1>4. desc'[t].level \in Nat
  BY DEF NewDesc, Plain, TypeInv
<1>5. CASE to = Here(s)
  <2> DEFINE i1 == <<to, PublicLevel(desc'[t].level)>>
  <2>1. ToPublic(to, t, desc'[t].level) /\ UNCHANGED chan
    BY <1>5 DEF Place
  <2>2. /\ i1 \in Node \X Levels
        /\ \A i \in Node \X Levels, x \in Token :
             x \in Range(public_grq'[i[1]][i[2]]) <=>
               x \in Range(public_grq[i[1]][i[2]]) \/ (i = i1 /\ x = t)
        /\ \A m \in Node, k \in Levels : Once(public_grq'[m][k], Token)
    BY <1>2, <1>4, <2>1, PublicIn
  <2> HIDE DEF i1
  <2>3. NoRepeat'
    BY <2>1, <2>2 DEF HolderInv, NoRepeat
  <2>4. Puts(t, "public", i1)
    BY <2>1, <2>2 DEF Has, Puts
  <2> QED
    BY <1>1, <1>2, <2>3, <2>4, Arrival
<1>6. CASE to # Here(s)
  <2> DEFINE m == Msg("TORC_NORMAL_ENQUEUE", t)
  <2>1. Send(s, to, m) /\ UNCHANGED public_grq
    BY <1>6 DEF Place
  <2>2. m \in Message /\ m.arg = t
    BY DEF Message, Msg
  <2> HIDE DEF m
  <2>3. /\ <<s, to>> \in Thread \X Node
        /\ \A c \in Thread \X Node, x \in Token :
             x \in Range(Carried(chan'[c])) <=>
               x \in Range(Carried(chan[c])) \/ (c = <<s, to>> /\ x = t)
        /\ \A c \in Thread \X Node : Once(Carried(chan'[c]), Token)
    BY <1>1, <1>2, <2>1, <2>2, SendWhere
  <2>4. NoRepeat'
    BY <2>1, <2>3 DEF HolderInv, NoRepeat
  <2>5. Puts(t, "chan", <<s, to>>)
    BY <2>1, <2>3 DEF Has, Puts
  <2> QED
    BY <1>1, <1>2, <2>4, <2>5, Arrival
<1> QED
  BY <1>5, <1>6


\* A fetched task goes from the hand to the private queue.
LEMMA StashWhere ==
  ASSUME TypeInv, HolderInv, NEW w \in Worker, Stash(w), NEW t, t = hand[w]
  PROVE  /\ t \in Task
         /\ Goes(t, "private", node_of[w])
         /\ \A x \in Token \ {t} : Stays(x)
         /\ NoRepeat'
<1> USE Constants DEF TypeInv
<1> DEFINE n == node_of[w]
<1>1. t \in Task /\ t \in Token
  BY DEF Stash, Positions, Held, Live, Token
<1>2. Has("hand", w, t)
  BY DEF Has
<1>3. private_grq \in [Node -> Seq(Task)]
  BY TypeInvImpliesTypeOK DEF TypeOK
<1>4. private_grq' = [private_grq EXCEPT ![n] = Append(private_grq[n], t)] /\ n \in Node
  BY DEF Stash
<1>5. /\ \A b \in Node : Range(private_grq'[b]) =
                           Range(private_grq[b]) \cup (IF b = n THEN {t} ELSE {})
      /\ /\ \A b \in Node : Once(private_grq[b], Token)
         /\ t \notin Range(private_grq[n]) \/ t \notin Token
         => \A b \in Node : Once(private_grq'[b], Token)
  <2> HIDE DEF n
  <2> QED
    BY <1>1, <1>3, <1>4, PrivatePush
<1>6. t \notin Range(private_grq[n])
  BY <1>1, <1>2 DEF HolderInv, Apart, AtMostOnePlace, Has
<1>7. NoRepeat'
  BY <1>5, <1>6 DEF HolderInv, NoRepeat, Stash, net
<1>8. Moves(t, "hand", w, "private", n)
  <2>1. hand' = [hand EXCEPT ![w] = NULL] /\ hand \in [Worker -> Live \cup {NULL}]
    BY DEF Stash, Held
  <2>2. UNCHANGED <<public_grq, chan, reply, stack, serving>>
    BY DEF Stash, net, nodes
  <2>3. \A i \in Worker, x \in Token : x = hand'[i] <=> x = hand[i] /\ ~(i = w /\ x = t)
    BY <2>1 DEF Token
  <2> QED
    BY <1>5, <2>2, <2>3 DEF Has, Moves
<1>9. Goes(t, "private", n) /\ \A x \in Token \ {t} : Stays(x)
  BY <1>1, <1>2, <1>8, Transfer DEF HolderInv
<1> QED
  BY <1>1, <1>7, <1>9

\* Messages that switch stealing carry no token.
LEMMA SwitchWhere ==
  ASSUME TypeInv, HolderInv, NEW w \in Worker, NEW on \in BOOLEAN, SwitchStealing(w, on)
  PROVE  NoRepeat' /\ \A x \in Token : Stays(x)
<1> USE Constants DEF TypeInv
<1> DEFINE m == Msg(IF on THEN "ENABLE_STEALING" ELSE "DISABLE_STEALING", NULL)
<1>1. chan \in [Thread \X Node -> Seq(Message)] /\ m \in Message /\ m.arg = NULL
  BY TypeInvImpliesTypeOK DEF TypeOK, Message, Msg
<1>2. \A c \in Thread \X Node : chan'[c] = chan[c] \/ chan'[c] = Append(chan[c], m)
  BY DEF SwitchStealing
<1>3. ASSUME NEW c \in Thread \X Node
      PROVE  /\ \A x \in Token : x \in Range(Carried(chan'[c])) <=> x \in Range(Carried(chan[c]))
             /\ Once(Carried(chan[c]), Token) => Once(Carried(chan'[c]), Token)
  <2> DEFINE A == Message
             T == {x.arg : x \in Message}
  <2>1. NULL \notin Token
    BY DEF Token
  <2>2. CASE chan'[c] = chan[c]
    BY <2>2
  <2>3. CASE chan'[c] = Append(chan[c], m)
    <3> DEFINE q == chan[c]
    <3>0. \A x \in Message : x.arg \in T
      OBVIOUS
    <3>1. q \in Seq(Message) /\ chan'[c] = Append(q, m)
      BY <1>1, <2>3
    <3>2. m.arg \in T /\ m \in Message
      BY <1>1, <3>0
    <3> HIDE DEF T, m, q
    <3>3. Carried(q) \in Seq(T) /\ Carried(Append(q, m)) = Append(Carried(q), m.arg)
      BY <3>0, <3>1, <3>2, CarriedAppend
    <3>4. Range(Carried(chan'[c])) = Range(Carried(q)) \cup {m.arg}
      BY <3>1, <3>2, <3>3, AppendRange
    <3>5. m.arg \notin Token
      BY <1>1, <2>1
    <3>6. Once(Carried(q), Token) => Once(Carried(chan'[c]), Token)
      BY <3>1, <3>2, <3>3, <3>5, AppendOnce
    <3> QED
      BY <3>4, <3>5, <3>6 DEF q
  <2> QED
    BY <1>2, <2>2, <2>3
<1>4. UNCHANGED <<private_grq, public_grq, reply, stack, hand, serving>>
  BY DEF SwitchStealing, queues, workers
<1>5. NoRepeat'
  BY <1>3, <1>4 DEF HolderInv, NoRepeat
<1>6. \A x \in Token : Stays(x)
  BY <1>3, <1>4 DEF Stays, Has
<1> QED
  BY <1>5, <1>6

\* A task that has returned leaves the stack; its answer, if its home is on
\* another node, is a message.
LEMMA CleanupWhere ==
  ASSUME TypeInv, HolderInv, NEW w \in Worker, Cleanup(w), NEW t, t = Self(w)
  PROVE  /\ t \in Live /\ Has("stack", w, t)
         /\ IF desc[t].homenode = node_of[w]
              THEN Leaves(t) ELSE Goes(t, "chan", <<w, desc[t].homenode>>)
         /\ \A x \in Token \ {t} : Stays(x)
         /\ NoRepeat'
<1> USE Constants
<1> DEFINE h == desc[t].homenode
<1>1. stack[w] # <<>> /\ t \in Live /\ t \in Task /\ t \in Token
  BY SelfLive DEF Cleanup, Positions, LiveFrame, Live, Token, TypeInv
<1>2. stack \in [Worker -> Seq(Frame)]
  BY TypeInvImpliesTypeOK DEF TypeOK
<1>3. /\ Range(stack[w]) = Range(Front(stack[w])) \cup {t}
      /\ t \in Range(stack[w])
      /\ t \notin Range(Front(stack[w]))
      /\ Once(Front(stack[w]), Token)
  BY <1>1, <1>2, FrontRange, FrontOnce DEF Self, HolderInv, NoRepeat
<1>4. Has("stack", w, t)
  BY <1>3 DEF Has
<1>5. stack' = [stack EXCEPT ![w] = Front(stack[w])]
  BY DEF Cleanup
<1>6. \A i \in Worker, x \in Token :
        /\ x \in Range(stack'[i]) <=> x \in Range(stack[i]) /\ ~(i = w /\ x = t)
        /\ Once(stack'[i], Token)
  BY <1>2, <1>3, <1>5 DEF HolderInv, NoRepeat
<1>7. UNCHANGED <<private_grq, public_grq, reply, hand, serving>>
  BY DEF Cleanup, queues, nodes
<1>8. w \in Thread /\ h \in Node
  BY <1>1 DEF Thread, Live, Plain, TaskDesc, TypeInv
<1>9. CASE h = node_of[w]
  <2>1. UNCHANGED chan
    BY <1>9 DEF Cleanup
  <2>2. NoRepeat'
    BY <1>1, <1>6, <1>7, <2>1 DEF HolderInv, NoRepeat
  <2>3. Takes(t, "stack", w)
    BY <1>6, <1>7, <2>1 DEF Has, Takes
  <2>4. Leaves(t) /\ \A x \in Token \ {t} : Stays(x)
    BY <1>1, <1>4, <2>3, Removal DEF HolderInv
  <2> QED
    BY <1>1, <1>4, <1>9, <2>2, <2>4
<1>10. CASE h # node_of[w]
  <2> DEFINE m == Msg("TORC_ANSWER", t)
  <2>1. Send(w, h, m)
    BY <1>10 DEF Cleanup
  <2>2. m \in Message /\ m.arg = t
    BY <1>1 DEF Message, Msg
  <2>3. ~Has("chan", <<w, h>>, t)
    BY <1>1, <1>4, Elsewhere
  <2> HIDE DEF m, h
  <2>4. /\ <<w, h>> \in Thread \X Node
        /\ \A c \in Thread \X Node, x \in Token :
             x \in Range(Carried(chan'[c])) <=>
               x \in Range(Carried(chan[c])) \/ (c = <<w, h>> /\ x = t)
        /\ \A c \in Thread \X Node : Once(Carried(chan'[c]), Token)
    BY <1>1, <1>8, <2>1, <2>2, <2>3, SendWhere
  <2>5. NoRepeat'
    BY <1>1, <1>6, <1>7, <2>4 DEF HolderInv, NoRepeat
  <2>6. Moves(t, "stack", w, "chan", <<w, h>>)
    BY <1>6, <1>7, <2>4 DEF Has, Moves
  <2>7. Goes(t, "chan", <<w, h>>) /\ \A x \in Token \ {t} : Stays(x)
    BY <1>1, <1>4, <2>6, Transfer DEF HolderInv
  <2> QED
    BY <1>1, <1>4, <1>10, <2>5, <2>7 DEF h
<1> QED
  BY <1>9, <1>10

----------------------------------------------------------------------------
(* What each action does to the tokens: the scheduling loop.               *)

\* Where a searching worker puts the task it has found.
Destination(w) == IF pc[w] = "fetch" THEN "hand" ELSE "stack"

\* The stacks and the hands after a worker has found t, which was on no stack.
LEMMA TakePlaces ==
  ASSUME TypeInv, HolderInv, NEW w \in Worker, NEW t \in Task, Searching(w), Take(w, t),
         t \notin Range(stack[w])
  PROVE  /\ \A i \in Worker, x \in Token :
              x \in Range(stack'[i]) <=>
                x \in Range(stack[i]) \/ (Destination(w) = "stack" /\ i = w /\ x = t)
         /\ \A i \in Worker, x \in Token :
              x = hand'[i] <=> x = hand[i] \/ (Destination(w) = "hand" /\ i = w /\ x = t)
         /\ \A i \in Worker : Once(stack'[i], Token)
<1> USE Constants
<1>1. /\ stack \in [Worker -> Seq(Frame)] /\ hand \in [Worker -> Task \cup {NULL}]
      /\ t \in Frame /\ t \in Token /\ NULL \notin Token
  BY TypeInvImpliesTypeOK DEF TypeOK, Frame, Token
<1>2. \A i \in Worker : Once(stack[i], Token)
  BY DEF HolderInv, NoRepeat
<1>3. hand[w] = NULL
  BY DEF HolderInv, HandsFree, Searching
<1>4. CASE pc[w] = "fetch"
  <2>1. stack' = stack /\ hand' = [hand EXCEPT ![w] = t] /\ Destination(w) = "hand"
    BY <1>4 DEF Take, Destination
  <2>2. \A i \in Worker, x \in Token : x = hand'[i] <=> x = hand[i] \/ (i = w /\ x = t)
    BY <1>1, <1>3, <2>1
  <2> QED
    BY <1>2, <2>1, <2>2
<1>5. CASE pc[w] # "fetch"
  <2>1. /\ stack' = [stack EXCEPT ![w] = Append(stack[w], t)]
        /\ hand' = hand /\ Destination(w) = "stack"
    BY <1>5 DEF Take, Destination
  <2>2. /\ \A b \in Worker : Range(stack'[b]) =
                               Range(stack[b]) \cup (IF b = w THEN {t} ELSE {})
        /\ /\ \A b \in Worker : Once(stack[b], Token)
           /\ t \notin Range(stack[w]) \/ t \notin Token
           => \A b \in Worker : Once(stack'[b], Token)
    BY <1>1, <2>1, StackPush
  <2> QED
    BY <1>2, <2>1, <2>2
<1> QED
  BY <1>4, <1>5

\* A worker takes the first task of the private queue.
LEMMA TakePrivateWhere ==
  ASSUME TypeInv, HolderInv, NEW w \in Worker, TakePrivate(w),
         NEW t, t = Head(private_grq[node_of[w]])
  PROVE  /\ t \in Task /\ Has("private", node_of[w], t)
         /\ Goes(t, Destination(w), w)
         /\ \A x \in Token \ {t} : Stays(x)
         /\ NoRepeat'
<1> USE Constants
<1> DEFINE n == node_of[w]
           k == Destination(w)
<1>1. /\ Searching(w) /\ private_grq[n] # <<>> /\ Take(w, t)
      /\ private_grq' = [private_grq EXCEPT ![n] = Dequeue(private_grq[n])]
      /\ UNCHANGED <<public_grq, chan, reply, serving>>
  BY DEF TakePrivate, net, nodes
<1>2. private_grq \in [Node -> Seq(Task)] /\ n \in Node
  BY TypeInvImpliesTypeOK DEF TypeOK
<1>3. t \in Task /\ t \in Token
  <2>1. t \in Task
    BY <1>1, <1>2, HeadTailProperties
  <2> QED
    BY <2>1 DEF Token
<1>4. /\ t \in Range(private_grq[n])
      /\ \A b \in Node :
           Range(private_grq[b]) = Range(private_grq'[b]) \cup (IF b = n THEN {t} ELSE {})
      /\ (\A b \in Node : Once(private_grq[b], Token)) =>
           /\ \A b \in Node : Once(private_grq'[b], Token)
           /\ t \in Token => t \notin Range(private_grq'[n])
  BY <1>1, <1>2, PrivatePop
<1>5. Has("private", n, t)
  BY <1>2, <1>4 DEF Has
<1> HIDE DEF n
<1>6. t \notin Range(stack[w])
  <2>1. ~Has("stack", w, t)
    BY <1>3, <1>5, Elsewhere
  <2> QED
    BY <2>1 DEF Has
<1>7. /\ \A i \in Worker, x \in Token :
           x \in Range(stack'[i]) <=> x \in Range(stack[i]) \/ (k = "stack" /\ i = w /\ x = t)
      /\ \A i \in Worker, x \in Token :
           x = hand'[i] <=> x = hand[i] \/ (k = "hand" /\ i = w /\ x = t)
      /\ \A i \in Worker : Once(stack'[i], Token)
  BY <1>1, <1>3, <1>6, TakePlaces
<1>8. \A i \in Node, x \in Token :
        x \in Range(private_grq'[i]) <=> x \in Range(private_grq[i]) /\ ~(i = n /\ x = t)
  BY <1>3, <1>4 DEF HolderInv, NoRepeat
<1>9. NoRepeat'
  BY <1>1, <1>4, <1>7 DEF HolderInv, NoRepeat
<1>10. k \in {"hand", "stack"}
  BY DEF Destination
<1> HIDE DEF k
<1>11. Moves(t, "private", n, k, w)
  BY <1>1, <1>7, <1>8, <1>10 DEF Has, Moves
<1>12. Goes(t, k, w) /\ \A x \in Token \ {t} : Stays(x)
  BY <1>3, <1>5, <1>11, Transfer DEF HolderInv
<1> QED
  BY <1>3, <1>5, <1>9, <1>12 DEF n, k

\* A worker takes the first task of a public queue.
LEMMA TakePublicWhere ==
  ASSUME TypeInv, HolderInv, NEW w \in Worker, TakePublic(w),
         NEW t, t = Head(public_grq[node_of[w]][at[w]])
  PROVE  /\ t \in Task /\ Has("public", <<node_of[w], at[w]>>, t)
         /\ Goes(t, Destination(w), w)
         /\ \A x \in Token \ {t} : Stays(x)
         /\ NoRepeat'
<1> USE Constants
<1> DEFINE n == node_of[w]
           l == at[w]
           k == Destination(w)
<1>1. /\ Searching(w) /\ n \in Node /\ l \in Levels /\ public_grq[n][l] # <<>>
      /\ Take(w, t)
      /\ public_grq' = [public_grq EXCEPT ![n][l] = Dequeue(public_grq[n][l])]
      /\ UNCHANGED <<private_grq, chan, reply, serving>>
  BY DEF TakePublic, net, nodes, Levels
<1>2. /\ t \in Task
      /\ Has("public", <<n, l>>, t)
      /\ \A i \in Node \X Levels, x \in Token :
           x \in Range(public_grq'[i[1]][i[2]]) <=>
             x \in Range(public_grq[i[1]][i[2]]) /\ ~(i = <<n, l>> /\ x = t)
      /\ \A m \in Node, j \in Levels : Once(public_grq'[m][j], Token)
  BY <1>1, PublicOut
<1> HIDE DEF n, l
<1>3. t \in Token
  BY <1>2 DEF Token
<1>4. t \notin Range(stack[w])
  <2>1. ~Has("stack", w, t)
    BY <1>2, <1>3, Elsewhere
  <2> QED
    BY <2>1 DEF Has
<1>5. /\ \A i \in Worker, x \in Token :
           x \in Range(stack'[i]) <=> x \in Range(stack[i]) \/ (k = "stack" /\ i = w /\ x = t)
      /\ \A i \in Worker, x \in Token :
           x = hand'[i] <=> x = hand[i] \/ (k = "hand" /\ i = w /\ x = t)
      /\ \A i \in Worker : Once(stack'[i], Token)
  BY <1>1, <1>2, <1>4, TakePlaces
<1>6. NoRepeat'
  BY <1>1, <1>2, <1>5 DEF HolderInv, NoRepeat
<1>7. k \in {"hand", "stack"}
  BY DEF Destination
<1> HIDE DEF k
<1>8. Moves(t, "public", <<n, l>>, k, w)
  BY <1>1, <1>2, <1>5, <1>7 DEF Has, Moves
<1>9. Goes(t, k, w) /\ \A x \in Token \ {t} : Stays(x)
  BY <1>2, <1>3, <1>8, Transfer DEF HolderInv
<1> QED
  BY <1>2, <1>6, <1>9 DEF n, k, l

----------------------------------------------------------------------------
(* What each action does to the tokens: stealing and the server threads.   *)

\* A thief that owns internode_m is nowhere else than where it is.
LEMMA StealRequestWhere ==
  ASSUME TypeInv, HolderInv, NEW w \in Worker, StealRequest(w)
  PROVE  /\ Goes(w, "chan", <<w, victim[w]>>)
         /\ \A x \in Token \ {w} : Stays(x)
         /\ NoRepeat'
<1> USE Constants
<1> DEFINE m == Msg("STEALING_REQUEST", w)
           v == victim[w]
<1>1. w \in Token /\ w \in Thread /\ v \in Node /\ m \in Message /\ m.arg = w
  BY DEF StealRequest, TypeInv, Positions, Token, Thread, Msg, Message
<1>2. \A k, i : ~Has(k, i, w)
  BY DEF StealRequest, LockFree, HolderInv, Asking
<1>3. Send(w, v, m) /\ UNCHANGED <<private_grq, public_grq, reply, stack, hand, serving>>
  BY DEF StealRequest, queues, workers
<1> HIDE DEF m, v
<1>4. /\ <<w, v>> \in Thread \X Node
      /\ \A c \in Thread \X Node, x \in Token :
           x \in Range(Carried(chan'[c])) <=>
             x \in Range(Carried(chan[c])) \/ (c = <<w, v>> /\ x = w)
      /\ \A c \in Thread \X Node : Once(Carried(chan'[c]), Token)
  BY <1>1, <1>2, <1>3, SendWhere
<1>5. NoRepeat'
  BY <1>3, <1>4 DEF HolderInv, NoRepeat
<1>6. Puts(w, "chan", <<w, v>>)
  BY <1>3, <1>4 DEF Has, Puts
<1> QED
  BY <1>1, <1>2, <1>5, <1>6, Arrival DEF v

\* The reply to a thief ends its request; the task in it, if any, is taken.
LEMMA StealReplyWhere ==
  ASSUME TypeInv, HolderInv, NEW w \in Worker, StealReply(w), NEW t, t = reply[w]
  PROVE  /\ Leaves(w)
         /\ t \in Task => /\ Has("reply", w, t)
                         /\ Goes(t, Destination(w), w)
         /\ \A x \in Token \ {w} : (x = t /\ x \in Task) \/ Stays(x)
         /\ NoRepeat'
<1> USE Constants
<1> DEFINE k == Destination(w)
<1>1. w \in Token /\ Has("answered", w, w)
  BY DEF StealReply, Token, Has
<1>2. \A l, i : Has(l, i, w) <=> l = "answered" /\ i = w
  BY <1>1 DEF HolderInv, Apart, AtMostOnePlace
<1>3. /\ \A i \in Worker : reply'[i] = IF i = w THEN NULL ELSE reply[i]
      /\ UNCHANGED <<private_grq, public_grq, chan, serving>>
  BY TypeInvImpliesTypeOK DEF StealReply, queues, TypeOK
<1>6. \A i \in Worker : \A x : /\ x \in Task /\ x = reply'[i] <=> x \in Task /\ x = reply[i] /\ i # w
                               /\ reply'[i] # NULL <=> reply[i] # NULL /\ i # w
  BY <1>3
<1>4. CASE t \in Task
  <2>1. t \in Token /\ Has("reply", w, t) /\ t # w
    BY <1>4 DEF Token, Has
  <2>2. \A l, i : Has(l, i, t) <=> l = "reply" /\ i = w
    BY <2>1 DEF HolderInv, Apart, AtMostOnePlace
  <2>3. Searching(w) /\ Take(w, t)
    BY <1>4 DEF StealReply, TypeInv, Owners
  <2>4. t \notin Range(stack[w])
    <3>1. ~Has("stack", w, t)
      BY <2>2
    <3> QED
      BY <3>1 DEF Has
  <2>5. /\ \A i \in Worker, x \in Token :
             x \in Range(stack'[i]) <=> x \in Range(stack[i]) \/ (k = "stack" /\ i = w /\ x = t)
        /\ \A i \in Worker, x \in Token :
             x = hand'[i] <=> x = hand[i] \/ (k = "hand" /\ i = w /\ x = t)
        /\ \A i \in Worker : Once(stack'[i], Token)
    BY <1>4, <2>3, <2>4, TakePlaces
  <2>6. k \in {"hand", "stack"}
    BY DEF Destination
  <2> HIDE DEF k
  <2>7. \A l, i : \A x \in Token :
          Has(l, i, x)' <=> \/ Has(l, i, x) /\ ~(l = "reply" /\ i = w) /\ ~(l = "answered" /\ i = w)
                            \/ l = k /\ i = w /\ x = t
    <3> SUFFICES ASSUME NEW l, NEW i, NEW x \in Token
                 PROVE  Has(l, i, x)' <=>
                          \/ Has(l, i, x) /\ ~(l = "reply" /\ i = w) /\ ~(l = "answered" /\ i = w)
                          \/ l = k /\ i = w /\ x = t
      OBVIOUS
    <3>1. CASE l \in {"reply", "answered"}
      BY <1>6, <2>6, <3>1 DEF Has
    <3>2. CASE l \in {"stack", "hand"}
      BY <2>5, <2>6, <3>2 DEF Has
    <3>3. CASE l \notin {"reply", "answered", "stack", "hand"}
      BY <1>3, <2>6, <3>3 DEF Has
    <3> QED
      BY <3>1, <3>2, <3>3
  <2>8. Leaves(w)
    BY <1>1, <1>2, <2>1, <2>7 DEF Leaves
  <2>9. Goes(t, k, w)
    BY <2>1, <2>2, <2>7 DEF Goes
  <2>10. ASSUME NEW x \in Token \ {w}, x # t PROVE Stays(x)
    <3>1. \A i : Has("reply", i, x) => x = reply[i]
      BY DEF Has
    <3>2. \A i : Has("answered", i, x) => x = i
      BY DEF Has
    <3> QED
      BY <2>7, <2>10, <3>1, <3>2 DEF Stays
  <2>11. NoRepeat'
    BY <1>3, <2>5 DEF HolderInv, NoRepeat
  <2> QED
    BY <1>4, <2>1, <2>8, <2>9, <2>10, <2>11 DEF k
<1>5. CASE t \notin Task
  <2>1. UNCHANGED <<stack, hand>>
    BY <1>5 DEF StealReply
  <2>2. \A l, i : \A x \in Token :
          Has(l, i, x)' <=> Has(l, i, x) /\ ~(l = "answered" /\ i = w)
    BY <1>3, <1>5, <2>1 DEF Has
  <2>3. Leaves(w)
    BY <1>1, <1>2, <2>2 DEF Leaves
  <2>4. \A x \in Token \ {w} : Stays(x)
    <3>1. \A i, x : Has("answered", i, x) => x = i
      BY DEF Has
    <3> QED
      BY <2>2, <3>1 DEF Stays
  <2>5. NoRepeat'
    BY <1>3, <2>1 DEF HolderInv, NoRepeat
  <2> QED
    BY <1>5, <2>3, <2>4, <2>5
<1> QED
  BY <1>4, <1>5

\* Work from another node goes to a public queue or to the server itself.
LEMMA RecvEnqueueWhere ==
  ASSUME TypeInv, HolderInv, NEW n \in Node, NEW s \in Thread, RecvEnqueue(n, s),
         NEW t, t = Head(chan[<<s, n>>]).arg
  PROVE  /\ t \in Task /\ Has("chan", <<s, n>>, t)
         /\ \E k, i : k \in {"public", "serving"} /\ Goes(t, k, i)
         /\ \A x \in Token \ {t} : Stays(x)
         /\ NoRepeat'
<1> USE Constants
<1>1. /\ t \in Live /\ t \in Task /\ t \in Token /\ desc[t].level \in Nat
      /\ chan[<<s, n>>] # <<>> /\ Receive(s, n)
      /\ UNCHANGED <<private_grq, reply, stack, hand>>
  BY HeadType, Carries DEF RecvEnqueue, TypeInv, IsHead, workers, Token, Live, Plain, TaskDesc
<1>2. /\ Has("chan", <<s, n>>, t)
      /\ \A c \in Thread \X Node, x \in Token :
           x \in Range(Carried(chan'[c])) <=>
             x \in Range(Carried(chan[c])) /\ ~(c = <<s, n>> /\ x = t)
      /\ \A c \in Thread \X Node : Once(Carried(chan'[c]), Token)
  BY <1>1, ReceiveWhere
<1>3. CASE desc[t].direct
  <2>1. serving[n] = NULL /\ serving' = [serving EXCEPT ![n] = t] /\ UNCHANGED public_grq
    BY <1>3 DEF RecvEnqueue
  <2>2. \A i \in Node, x \in Token : x = serving'[i] <=> x = serving[i] \/ (i = n /\ x = t)
    BY <2>1, TypeInvImpliesTypeOK DEF TypeOK, Token
  <2>3. Moves(t, "chan", <<s, n>>, "serving", n)
    BY <1>1, <1>2, <2>1, <2>2 DEF Has, Moves
  <2>4. Goes(t, "serving", n) /\ \A x \in Token \ {t} : Stays(x)
    BY <1>1, <1>2, <2>3, Transfer DEF HolderInv
  <2>5. NoRepeat'
    BY <1>1, <1>2, <2>1 DEF HolderInv, NoRepeat
  <2> QED
    BY <1>1, <1>2, <2>4, <2>5
<1>4. CASE ~desc[t].direct
  <2> DEFINE i1 == <<n, PublicLevel(desc[t].level)>>
  <2>1. ToPublic(n, t, desc[t].level) /\ UNCHANGED serving
    BY <1>4 DEF RecvEnqueue
  <2>2. \A i : ~Has("public", i, t)
    BY <1>1, <1>2, Elsewhere
  <2>3. /\ i1 \in Node \X Levels
        /\ \A i \in Node \X Levels, x \in Token :
             x \in Range(public_grq'[i[1]][i[2]]) <=>
               x \in Range(public_grq[i[1]][i[2]]) \/ (i = i1 /\ x = t)
        /\ \A m \in Node, k \in Levels : Once(public_grq'[m][k], Token)
    BY <1>1, <2>1, <2>2, PublicIn
  <2> HIDE DEF i1
  <2>4. Moves(t, "chan", <<s, n>>, "public", i1)
    BY <1>1, <1>2, <2>1, <2>3 DEF Has, Moves
  <2>5. Goes(t, "public", i1) /\ \A x \in Token \ {t} : Stays(x)
    BY <1>1, <1>2, <2>4, Transfer DEF HolderInv
  <2>6. NoRepeat'
    BY <1>1, <1>2, <2>3 DEF HolderInv, NoRepeat
  <2> QED
    BY <1>1, <1>2, <2>5, <2>6
<1> QED
  BY <1>3, <1>4

\* The answer of a task that the server has executed.
LEMMA DirectDoneWhere ==
  ASSUME TypeInv, HolderInv, NEW n \in Node, DirectDone(n), NEW t, t = serving[n]
  PROVE  /\ t \in Live /\ Has("serving", n, t)
         /\ Goes(t, "chan", <<n, desc[t].homenode>>)
         /\ \A x \in Token \ {t} : Stays(x)
         /\ NoRepeat'
<1> USE Constants
<1> DEFINE h == desc[t].homenode
           m == Msg("TORC_ANSWER", t)
<1>1. /\ t \in Live /\ t \in Task /\ t \in Token /\ h \in Node /\ n \in Thread
      /\ m \in Message /\ m.arg = t
  BY DEF DirectDone, TypeInv, Held, Live, Token, Thread, Plain, TaskDesc, Msg, Message
<1>2. /\ Send(n, h, m)
      /\ UNCHANGED <<private_grq, public_grq, reply, stack, hand>>
      /\ serving' = [serving EXCEPT ![n] = NULL]
  BY DEF DirectDone, queues, workers
<1>3. Has("serving", n, t)
  BY DEF Has
<1>4. ~Has("chan", <<n, h>>, t)
  BY <1>1, <1>3, Elsewhere
<1>5. \A i \in Node, x \in Token : x = serving'[i] <=> x = serving[i] /\ ~(i = n /\ x = t)
  BY <1>2, TypeInvImpliesTypeOK DEF TypeOK, Token
<1> HIDE DEF m, h
<1>6. /\ <<n, h>> \in Thread \X Node
      /\ \A c \in Thread \X Node, x \in Token :
           x \in Range(Carried(chan'[c])) <=>
             x \in Range(Carried(chan[c])) \/ (c = <<n, h>> /\ x = t)
      /\ \A c \in Thread \X Node : Once(Carried(chan'[c]), Token)
  BY <1>1, <1>2, <1>4, SendWhere
<1>7. NoRepeat'
  BY <1>2, <1>6 DEF HolderInv, NoRepeat
<1>8. Moves(t, "serving", n, "chan", <<n, h>>)
  BY <1>2, <1>5, <1>6 DEF Has, Moves
<1>9. Goes(t, "chan", <<n, h>>) /\ \A x \in Token \ {t} : Stays(x)
  BY <1>1, <1>3, <1>8, Transfer DEF HolderInv
<1> QED
  BY <1>1, <1>3, <1>7, <1>9 DEF h

\* An answer is the end of a task.
LEMMA RecvAnswerWhere ==
  ASSUME TypeInv, HolderInv, NEW n \in Node, NEW s \in Thread, RecvAnswer(n, s),
         NEW t, t = Head(chan[<<s, n>>]).arg
  PROVE  /\ t \in Live /\ Has("chan", <<s, n>>, t)
         /\ Leaves(t)
         /\ \A x \in Token \ {t} : Stays(x)
         /\ NoRepeat'
<1> USE Constants
<1>1. /\ t \in Live /\ t \in Task /\ t \in Token
      /\ chan[<<s, n>>] # <<>> /\ Receive(s, n)
      /\ UNCHANGED <<private_grq, public_grq, reply, stack, hand, serving>>
  BY HeadType, Carries DEF RecvAnswer, TypeInv, IsHead, workers, nodes, queues, Token, Live
<1>2. /\ Has("chan", <<s, n>>, t)
      /\ \A c \in Thread \X Node, x \in Token :
           x \in Range(Carried(chan'[c])) <=>
             x \in Range(Carried(chan[c])) /\ ~(c = <<s, n>> /\ x = t)
      /\ \A c \in Thread \X Node : Once(Carried(chan'[c]), Token)
  BY <1>1, ReceiveWhere
<1>3. Takes(t, "chan", <<s, n>>)
  BY <1>1, <1>2 DEF Has, Takes
<1>4. Leaves(t) /\ \A x \in Token \ {t} : Stays(x)
  BY <1>1, <1>2, <1>3, Removal DEF HolderInv
<1>5. NoRepeat'
  BY <1>1, <1>2 DEF HolderInv, NoRepeat
<1> QED
  BY <1>1, <1>2, <1>4, <1>5

\* A request reaches the server of the victim.
LEMMA RecvStealWhere ==
  ASSUME TypeInv, HolderInv, NEW n \in Node, NEW s \in Thread, RecvSteal(n, s),
         NEW v, v = Head(chan[<<s, n>>]).arg
  PROVE  /\ v \in Worker /\ Has("chan", <<s, n>>, v)
         /\ Goes(v, "serving", n)
         /\ \A x \in Token \ {v} : Stays(x)
         /\ NoRepeat'
<1> USE Constants
<1>1. /\ v \in Worker /\ v \in Token
      /\ chan[<<s, n>>] # <<>> /\ Receive(s, n)
      /\ serving[n] = NULL /\ serving' = [serving EXCEPT ![n] = v]
      /\ UNCHANGED <<private_grq, public_grq, reply, stack, hand>>
  BY HeadType, Carries DEF RecvSteal, TypeInv, IsHead, workers, queues, Token
<1>2. /\ Has("chan", <<s, n>>, v)
      /\ \A c \in Thread \X Node, x \in Token :
           x \in Range(Carried(chan'[c])) <=>
             x \in Range(Carried(chan[c])) /\ ~(c = <<s, n>> /\ x = v)
      /\ \A c \in Thread \X Node : Once(Carried(chan'[c]), Token)
  BY <1>1, ReceiveWhere
<1>3. \A i \in Node, x \in Token : x = serving'[i] <=> x = serving[i] \/ (i = n /\ x = v)
  BY <1>1, TypeInvImpliesTypeOK DEF TypeOK, Token
<1>4. Moves(v, "chan", <<s, n>>, "serving", n)
  BY <1>1, <1>2, <1>3 DEF Has, Moves
<1>5. Goes(v, "serving", n) /\ \A x \in Token \ {v} : Stays(x)
  BY <1>1, <1>2, <1>4, Transfer DEF HolderInv
<1>6. NoRepeat'
  BY <1>1, <1>2 DEF HolderInv, NoRepeat
<1> QED
  BY <1>1, <1>2, <1>5, <1>6

\* Messages that switch stealing carry no token.
LEMMA RecvSwitchWhere ==
  ASSUME TypeInv, HolderInv, NEW n \in Node, NEW s \in Thread, RecvSwitch(n, s)
  PROVE  NoRepeat' /\ \A x \in Token : Stays(x)
<1> USE Constants
<1> DEFINE m == Head(chan[<<s, n>>])
<1>1. /\ chan[<<s, n>>] # <<>> /\ Receive(s, n)
      /\ m.arg = NULL /\ NULL \notin Token
      /\ UNCHANGED <<private_grq, public_grq, reply, stack, hand, serving>>
  <2>1. chan[<<s, n>>] # <<>> /\ m.type \in {"ENABLE_STEALING", "DISABLE_STEALING"}
    BY DEF RecvSwitch, IsHead
  <2>2. m \in LiveMessage
    BY <2>1, HeadType DEF TypeInv
  <2>3. m.arg = NULL
    BY <2>1, <2>2 DEF LiveMessage
  <2> QED
    BY <2>1, <2>3 DEF RecvSwitch, workers, queues, Token
<1>2. chan \in [Thread \X Node -> Seq(Message)]
  BY TypeInvImpliesTypeOK DEF TypeOK
<1>3. /\ \A c \in Thread \X Node :
           Range(Carried(chan[c])) =
             Range(Carried(chan'[c])) \cup (IF c = <<s, n>> THEN {m.arg} ELSE {})
      /\ (\A c \in Thread \X Node : Once(Carried(chan[c]), Token)) =>
           \A c \in Thread \X Node : Once(Carried(chan'[c]), Token)
  BY <1>1, <1>2, ReceivePlaces
<1> HIDE DEF m
<1>4. \A c \in Thread \X Node, x \in Token :
        x \in Range(Carried(chan'[c])) <=> x \in Range(Carried(chan[c]))
  BY <1>1, <1>3
<1>5. NoRepeat'
  BY <1>1, <1>3 DEF HolderInv, NoRepeat
<1>6. \A x \in Token : Stays(x)
  BY <1>1, <1>4 DEF Stays, Has
<1> QED
  BY <1>5, <1>6

\* The server gives a thief v a task, or tells it that there is none, and the
\* request has become a reply.
LEMMA StealScanWhere ==
  ASSUME TypeInv, HolderInv, NEW n \in Node, StealScan(n), NEW v, v = serving[n],
         NEW t, t = Head(public_grq[n][scan_at[n]])
  PROVE  /\ v \in Worker /\ Has("serving", n, v) /\ NoRepeat'
         /\ \/ \A x \in Token : Stays(x)
            \/ Goes(v, "answered", v) /\ \A x \in Token \ {v} : Stays(x)
            \/ /\ t \in Task /\ Has("public", <<n, scan_at[n]>>, t)
               /\ Goes(v, "answered", v) /\ Goes(t, "reply", v)
               /\ \A x \in Token \ {v, t} : Stays(x)
<1> USE Constants
<1> DEFINE l == scan_at[n]
<1>1. /\ v \in Worker /\ v \in Token /\ l \in Levels
      /\ UNCHANGED <<private_grq, chan, stack, hand>>
  BY TypeInvImpliesTypeOK DEF StealScan, workers, Token, TypeOK
<1>2. Has("serving", n, v)
  BY DEF Has
<1>3. \A k, i : Has(k, i, v) <=> k = "serving" /\ i = n
  BY <1>1, <1>2 DEF HolderInv, Apart, AtMostOnePlace
<1>4. reply[v] = NULL
  BY <1>1, <1>3 DEF Has
<1>5. ASSUME NEW r, r # NULL, Answer(n, r)
      PROVE  /\ \A i \in Worker : \A x : /\ x \in Task /\ x = reply'[i] <=>
                                              (x \in Task /\ x = reply[i]) \/ (x \in Task /\ i = v /\ x = r)
                                         /\ reply'[i] # NULL <=> reply[i] # NULL \/ i = v
             /\ \A i \in Node, x \in Token : x = serving'[i] <=> x = serving[i] /\ ~(i = n /\ x = v)
  <2>1. reply' = [reply EXCEPT ![v] = r] /\ serving' = [serving EXCEPT ![n] = NULL]
    BY <1>5 DEF Answer
  <2>2. /\ \A i \in Worker : reply'[i] = IF i = v THEN r ELSE reply[i]
        /\ \A i \in Node : serving'[i] = IF i = n THEN NULL ELSE serving[i]
    BY <2>1, TypeInvImpliesTypeOK DEF TypeOK
  <2> QED
    BY <1>4, <1>5, <2>2 DEF Token
<1>6. CASE public_grq[n][l] # <<>>
  <2>1. /\ Answer(n, t)
        /\ public_grq' = [public_grq EXCEPT ![n][l] = Dequeue(public_grq[n][l])]
    BY <1>6 DEF StealScan
  <2>2. /\ t \in Task
        /\ Has("public", <<n, l>>, t)
        /\ \A i \in Node \X Levels, x \in Token :
             x \in Range(public_grq'[i[1]][i[2]]) <=>
               x \in Range(public_grq[i[1]][i[2]]) /\ ~(i = <<n, l>> /\ x = t)
        /\ \A m \in Node, k \in Levels : Once(public_grq'[m][k], Token)
    BY <1>1, <1>6, <2>1, PublicOut
  <2>3. t \in Token /\ t # v /\ t # NULL
    BY <1>1, <2>2 DEF Token
  <2>4. \A k, i : Has(k, i, t) <=> k = "public" /\ i = <<n, l>>
    BY <2>2, <2>3 DEF HolderInv, Apart, AtMostOnePlace
  <2>5. NoRepeat'
    BY <1>1, <2>2 DEF HolderInv, NoRepeat
  <2>6. /\ \A i \in Worker : \A x : /\ x \in Task /\ x = reply'[i] <=>
                                         (x \in Task /\ x = reply[i]) \/ (x \in Task /\ i = v /\ x = t)
                                    /\ reply'[i] # NULL <=> reply[i] # NULL \/ i = v
        /\ \A i \in Node, x \in Token : x = serving'[i] <=> x = serving[i] /\ ~(i = n /\ x = v)
    BY <1>5, <2>1, <2>3
  <2> HIDE DEF l
  <2>7. ASSUME NEW k, NEW i, NEW x \in Token
        PROVE  Has(k, i, x)' <=>
                 \/ Has(k, i, x) /\ ~(k = "public" /\ i = <<n, l>> /\ x = t)
                                 /\ ~(k = "serving" /\ i = n /\ x = v)
                 \/ k = "reply" /\ i = v /\ x = t
                 \/ k = "answered" /\ i = v /\ x = v
    <3>1. CASE k \in {"reply", "answered"}
      BY <1>1, <2>2, <2>6, <3>1 DEF Has
    <3>2. CASE k \in {"public", "serving"}
      BY <2>2, <2>6, <3>2 DEF Has
    <3>3. CASE k \notin {"reply", "answered", "public", "serving"}
      BY <1>1, <3>3 DEF Has
    <3> QED
      BY <3>1, <3>2, <3>3
  <2>8. Goes(v, "answered", v)
    BY <1>1, <1>3, <2>3, <2>7 DEF Goes
  <2>9. Goes(t, "reply", v)
    BY <2>3, <2>4, <2>7 DEF Goes
  <2>10. \A x \in Token \ {v, t} : Stays(x)
    BY <2>7 DEF Stays
  <2> QED
    BY <1>1, <1>2, <2>2, <2>5, <2>8, <2>9, <2>10 DEF l
<1>7. CASE public_grq[n][l] = <<>> /\ l < LastLevel
  <2>1. UNCHANGED <<reply, serving, public_grq>>
    BY <1>1, <1>7 DEF StealScan, LastLevel, Levels
  <2>2. NoRepeat' /\ \A x : Stays(x)
    BY <1>1, <2>1, Unmoved DEF queues, net, HolderInv
  <2> QED
    BY <1>1, <1>2, <2>2
<1>8. CASE public_grq[n][l] = <<>> /\ ~(l < LastLevel)
  <2>1. UNCHANGED public_grq /\ Answer(n, "TORC_NO_WORK")
    BY <1>8 DEF StealScan
  <2>2. "TORC_NO_WORK" # NULL /\ "TORC_NO_WORK" \notin Task
    BY NamesAssumption
  <2>3. /\ \A i \in Worker : \A x : /\ x \in Task /\ x = reply'[i] <=> x \in Task /\ x = reply[i]
                                    /\ reply'[i] # NULL <=> reply[i] # NULL \/ i = v
        /\ \A i \in Node, x \in Token : x = serving'[i] <=> x = serving[i] /\ ~(i = n /\ x = v)
    BY <1>5, <2>1, <2>2
  <2>4. ASSUME NEW k, NEW i, NEW x \in Token
        PROVE  Has(k, i, x)' <=> \/ Has(k, i, x) /\ ~(k = "serving" /\ i = n /\ x = v)
                                 \/ k = "answered" /\ i = v /\ x = v
    <3>1. CASE k \in {"reply", "answered"}
      BY <1>1, <2>3, <3>1 DEF Has
    <3>2. CASE k = "serving"
      BY <2>3, <3>2 DEF Has
    <3>3. CASE k \notin {"reply", "answered", "serving"}
      BY <1>1, <2>1, <3>3 DEF Has
    <3> QED
      BY <3>1, <3>2, <3>3
  <2>5. Moves(v, "serving", n, "answered", v)
    BY <2>4 DEF Moves
  <2>6. Goes(v, "answered", v) /\ \A x \in Token \ {v} : Stays(x)
    BY <1>1, <1>2, <2>5, Transfer DEF HolderInv
  <2>7. NoRepeat'
    BY <1>1, <2>1 DEF HolderInv, NoRepeat
  <2> QED
    BY <1>1, <1>2, <2>6, <2>7
<1> QED
  BY <1>6, <1>7, <1>8

----------------------------------------------------------------------------
(* The invariant.                                                          *)

\* Nobody asks and nobody holds anything.
LEMMA HolderInit == Init => HolderInv
<1> SUFFICES ASSUME Init PROVE HolderInv
  OBVIOUS
<1> USE Constants
<1>1. /\ \A n \in Node : private_grq[n] = <<>> /\ serving[n] = NULL /\ internode_m[n] = NULL
      /\ \A n \in Node, l \in Levels : public_grq[n][l] = <<>>
      /\ \A c \in Thread \X Node : chan[c] = <<>>
      /\ \A w \in Worker : /\ reply[w] = NULL /\ hand[w] = NULL
                           /\ stack[w] = IF w = Main THEN <<Root>> ELSE <<>>
  BY DEF Init, Levels
<1>2. \A x : x \notin Range(<<>>) /\ x \notin Range(Carried(<<>>))
  BY DEF Range, Carried
<1>3. \A x : x \in Range(<<Root>>) <=> x = Root
  BY DEF Range
<1>4. \A T : Once(<<>>, T) /\ Once(Carried(<<>>), T) /\ Once(<<Root>>, T)
  BY DEF Once, Carried
<1>5. NULL \notin Token
  BY DEF Token
<1>6. ASSUME NEW x \in Token, NEW k, NEW i, Has(k, i, x)
      PROVE  k = "stack" /\ i = Main /\ x = Root
  <2>1. k # "public"
    <3>1. \A j \in Node \X Levels : j[1] \in Node /\ j[2] \in Levels
      OBVIOUS
    <3> QED
      BY <1>1, <1>2, <1>6, <3>1 DEF Has
  <2> QED
    BY <1>1, <1>2, <1>3, <1>5, <1>6, <2>1 DEF Has
<1>7. Apart
  BY <1>6 DEF Apart, AtMostOnePlace
<1>8. NoRepeat
  BY <1>1, <1>4 DEF NoRepeat
<1>9. Asking
  <2>1. \A w \in Worker : w \in Token /\ w # Root
    BY NamesAssumption DEF Token
  <2> QED
    BY <1>1, <1>6, <2>1 DEF Asking
<1>10. HandsFree
  BY <1>1 DEF HandsFree
<1> QED
  BY <1>7, <1>8, <1>9, <1>10 DEF HolderInv

\* The owners of internode_m after an action that moves no thief.
LEMMA AskingStep ==
  ASSUME HolderInv, UNCHANGED internode_m, \A w \in Worker : Stays(w)
  PROVE  Asking'
BY DEF HolderInv, Asking, Stays

\* Hands are filled by a worker that goes on to stash, and emptied when it does.
LEMMA HandsStep ==
  ASSUME TypeInv, HolderInv, Next
  PROVE  HandsFree'
<1> USE Constants DEF TypeInv, HolderInv
<1>1. pc \in [Worker -> WorkerPC] /\ hand \in [Worker -> Task \cup {NULL}]
  BY TypeInvImpliesTypeOK DEF TypeOK
<1>2. ASSUME UNCHANGED <<pc, hand>> PROVE HandsFree'
  BY <1>2 DEF HandsFree
<1>3. ASSUME NEW w \in Worker, NEW to, pc[w] # "stash", Goto(w, to), UNCHANGED hand
      PROVE  HandsFree'
  BY <1>1, <1>3 DEF HandsFree, Goto
<1>4. ASSUME NEW w \in Worker, NEW t, Searching(w), Take(w, t) PROVE HandsFree'
  <2>1. CASE pc[w] = "fetch"
    BY <1>1, <1>4, <2>1 DEF HandsFree, Take, Goto
  <2>2. CASE pc[w] # "fetch"
    BY <1>1, <1>4, <2>2 DEF HandsFree, Take, Goto, Searching
  <2> QED
    BY <2>1, <2>2
<1>5. ASSUME NEW w \in Worker, Searching(w), NotFound(w) PROVE HandsFree'
  BY <1>1, <1>3, <1>5 DEF NotFound, Searching
<1>6. ASSUME NEW w \in Worker, Call(w) PROVE HandsFree'
  <2>1. CASE CountChild(w) \/ WaitAll(w) \/ SpinWait(w) \/ FetchWork(w) \/ Return(w)
    BY <1>3, <2>1 DEF CountChild, WaitAll, SpinWait, FetchWork, Return
  <2>2. CASE \E t \in Task, n \in Node : CreateDetached(w, t, n)
    BY <1>2, <2>2 DEF CreateDetached, workers
  <2>3. CASE \E on \in BOOLEAN : SwitchStealing(w, on)
    BY <1>2, <2>3 DEF SwitchStealing, workers
  <2> QED
    BY <1>6, <2>1, <2>2, <2>3 DEF Call
<1>7. ASSUME NEW w \in Worker, Library(w) PROVE HandsFree'
  <2>1. CASE Enqueue(w)
    BY <1>3, <2>1 DEF Enqueue, EnqueueChild
  <2>2. CASE CheckDeps(w) \/ SpinReturn(w)
    BY <1>3, <2>2 DEF CheckDeps, SpinReturn
  <2>3. CASE Stash(w)
    BY <1>1, <2>3 DEF Stash, Goto, HandsFree
  <2>4. CASE Cleanup(w)
    BY <1>3, <2>4 DEF Cleanup, Resume
  <2>5. CASE TakePrivate(w)
    BY <1>4, <2>5 DEF TakePrivate
  <2>6. CASE TakePublic(w)
    BY <1>4, <2>6 DEF TakePublic
  <2>7. CASE NextQueue(w) \/ StealRequest(w)
    BY <1>2, <2>7 DEF NextQueue, StealRequest, workers
  <2>8. CASE TestFlag(w)
    BY <1>2, <1>5, <2>8 DEF TestFlag
  <2>9. CASE StealReply(w)
    <3>1. Searching(w)
      BY <2>9 DEF StealReply, Owners
    <3> QED
      BY <1>2, <1>4, <2>9, <3>1 DEF StealReply
  <2>10. CASE StealNothing(w)
    BY <1>5, <2>10 DEF StealNothing
  <2> QED
    BY <1>7, <2>1, <2>2, <2>3, <2>4, <2>5, <2>6, <2>7, <2>8, <2>9, <2>10 DEF Library
<1>8. ASSUME NEW n \in Node, Server(n) PROVE HandsFree'
  BY <1>2, <1>8 DEF Server, StealScan, DirectDone, RecvEnqueue, RecvAnswer, RecvSteal,
                    RecvSwitch, workers
<1>9. ASSUME NEW n \in Node, NEW t \in Task, NEW to \in Node, DirectCreate(n, t, to)
      PROVE  HandsFree'
  BY <1>2, <1>9 DEF DirectCreate, workers
<1> QED
  BY <1>6, <1>7, <1>8, <1>9 DEF Next

\* One task moves, and the thieves stay.
OneMoves(t) ==
  /\ t \in Task
  /\ Leaves(t) \/ \E k, i : Goes(t, k, i)
  /\ \A x \in Token \ {t} : Stays(x)

LEMMA OneMovesStep ==
  ASSUME TypeInv, HolderInv, Next, NoRepeat', UNCHANGED internode_m,
         NEW t, OneMoves(t) \/ \A x \in Token : Stays(x)
  PROVE  HolderInv'
<1> USE Constants
<1>1. \A w \in Worker : Stays(w)
  BY DEF OneMoves, Token
<1>2. \A x \in Token : Stays(x) \/ Leaves(x) \/ \E k, i : Goes(x, k, i)
  BY DEF OneMoves
<1> QED
  BY <1>1, <1>2, ApartStep, AskingStep, HandsStep DEF HolderInv

\* What a worker does.
LEMMA HolderWorkerStep ==
  ASSUME TypeInv, HolderInv, Next, NEW w \in Worker, Call(w) \/ Library(w)
  PROVE  HolderInv'
<1> USE Constants
<1>1. ASSUME UNCHANGED <<queues, net, stack, hand, serving, internode_m>> PROVE HolderInv'
  BY <1>1, Unmoved, OneMovesStep DEF HolderInv
<1>2. ASSUME NEW p \in Frame \cup {NULL}, NEW level \in Nat, NEW direct \in BOOLEAN,
             NEW t \in Task, NEW to \in Node,
             NewDesc(t, p, node_of[w], level, direct), Place(w, t, to),
             UNCHANGED <<private_grq, reply, stack, hand, nodes>>
      PROVE  HolderInv'
  <2>1. w \in Thread /\ Here(w) = node_of[w]
    BY DEF Thread, Here
  <2>2. OneMoves(t) /\ NoRepeat'
    BY <1>2, <2>1, PlaceWhere DEF nodes, OneMoves
  <2> QED
    BY <1>2, <2>2, OneMovesStep DEF nodes
<1>3. CASE Call(w)
  <2>1. CASE CountChild(w) \/ WaitAll(w) \/ SpinWait(w) \/ FetchWork(w) \/ Return(w)
    BY <1>1, <2>1 DEF CountChild, WaitAll, SpinWait, FetchWork, Return, nodes
  <2>2. ASSUME NEW t \in Task, NEW n \in Node, CreateDetached(w, t, n) PROVE HolderInv'
    BY <1>2, <2>2 DEF CreateDetached, workers
  <2>3. ASSUME NEW on \in BOOLEAN, SwitchStealing(w, on) PROVE HolderInv'
    <3>1. UNCHANGED internode_m
      BY <2>3 DEF SwitchStealing
    <3> QED
      BY <2>3, <3>1, SwitchWhere, OneMovesStep
  <2> QED
    BY <1>3, <2>1, <2>2, <2>3 DEF Call
<1>4. CASE Library(w)
  <2>1. ASSUME NEW t \in Task, NEW n \in Node, NEW direct \in BOOLEAN, EnqueueChild(w, t, n, direct)
        PROVE  HolderInv'
    <3>1. stack[w] # <<>>
      BY <2>1 DEF EnqueueChild, TypeInv, Positions
    <3>2. Self(w) \in Frame
      BY <3>1, SelfLive DEF TypeInv, LiveFrame, Live, Frame
    <3>3. LevelOf(Self(w)) + 1 \in Nat
      <4>1. Self(w) \in LiveFrame
        BY <3>1, SelfLive DEF TypeInv
      <4>2. \A f \in Live : desc[f].level \in Nat
        BY DEF TypeInv, Live, Plain, TaskDesc
      <4> QED
        BY <4>1, <4>2 DEF LevelOf, LiveFrame
    <3> QED
      BY <1>2, <2>1, <3>2, <3>3 DEF EnqueueChild
  <2>2. CASE CheckDeps(w) \/ SpinReturn(w) \/ NextQueue(w)
    BY <1>1, <2>2 DEF CheckDeps, SpinReturn, NextQueue, nodes
  <2>3. CASE TestFlag(w)
    BY <1>1, <2>3 DEF TestFlag, NotFound, nodes
  <2>4. CASE StealNothing(w)
    BY <1>1, <2>4 DEF StealNothing, NotFound
  <2>5. CASE Stash(w)
    <3>1. PICK t : t = hand[w]
      OBVIOUS
    <3>2. OneMoves(t) /\ NoRepeat'
      BY <2>5, <3>1, StashWhere DEF OneMoves
    <3>3. UNCHANGED internode_m
      BY <2>5 DEF Stash, nodes
    <3> QED
      BY <3>2, <3>3, OneMovesStep
  <2>6. CASE Cleanup(w)
    <3>1. PICK t : t = Self(w)
      OBVIOUS
    <3>2. OneMoves(t) /\ NoRepeat'
      BY <2>6, <3>1, CleanupWhere DEF OneMoves, Live
    <3>3. UNCHANGED internode_m
      BY <2>6 DEF Cleanup, nodes
    <3> QED
      BY <3>2, <3>3, OneMovesStep
  <2>7. CASE TakePrivate(w)
    <3>1. PICK t : t = Head(private_grq[node_of[w]])
      OBVIOUS
    <3>2. OneMoves(t) /\ NoRepeat'
      BY <2>7, <3>1, TakePrivateWhere DEF OneMoves
    <3>3. UNCHANGED internode_m
      BY <2>7 DEF TakePrivate, nodes
    <3> QED
      BY <3>2, <3>3, OneMovesStep
  <2>8. CASE TakePublic(w)
    <3>1. PICK t : t = Head(public_grq[node_of[w]][at[w]])
      OBVIOUS
    <3>2. OneMoves(t) /\ NoRepeat'
      BY <2>8, <3>1, TakePublicWhere DEF OneMoves
    <3>3. UNCHANGED internode_m
      BY <2>8 DEF TakePublic, nodes
    <3> QED
      BY <3>2, <3>3, OneMovesStep
  <2>9. CASE StealRequest(w)
    <3>1. Goes(w, "chan", <<w, victim[w]>>) /\ (\A x \in Token \ {w} : Stays(x)) /\ NoRepeat'
      BY <2>9, StealRequestWhere
    <3>2. Apart'
      BY <3>1, ApartStep DEF HolderInv
    <3>3. internode_m' = [internode_m EXCEPT ![node_of[w]] = w] /\ internode_m[node_of[w]] = NULL
          /\ internode_m \in [Node -> Worker \cup {NULL}]
      BY <2>9, TypeInvImpliesTypeOK DEF StealRequest, LockFree, TypeOK
    <3>4. ASSUME NEW v \in Worker \ {w}
          PROVE  (\E k, i : Has(k, i, v))' <=> internode_m'[node_of[v]] = v
      <4>1. Stays(v)
        BY <3>1 DEF Token
      <4>2. (\E k, i : Has(k, i, v))' <=> (\E k, i : Has(k, i, v))
        BY <4>1 DEF Stays
      <4>3. internode_m'[node_of[v]] = v <=> internode_m[node_of[v]] = v
        BY <3>3
      <4> QED
        BY <4>2, <4>3 DEF HolderInv, Asking
    <3>5. (\E k, i : Has(k, i, w))' /\ internode_m'[node_of[w]] = w
      BY <3>1, <3>3 DEF Goes
    <3>6. Asking'
      BY <3>4, <3>5 DEF Asking
    <3> QED
      BY <3>1, <3>2, <3>6, HandsStep DEF HolderInv
  <2>10. CASE StealReply(w)
    <3>1. PICK t : t = reply[w]
      OBVIOUS
    <3>2. /\ Leaves(w) /\ NoRepeat'
          /\ t \in Task => Goes(t, Destination(w), w)
          /\ \A x \in Token \ {w} : (x = t /\ x \in Task) \/ Stays(x)
      BY <2>10, <3>1, StealReplyWhere
    <3>3. \A x \in Token : Stays(x) \/ Leaves(x) \/ \E k, i : Goes(x, k, i)
      BY <3>2
    <3>4. /\ internode_m[node_of[w]] = w
          /\ internode_m' = [internode_m EXCEPT ![node_of[w]] = NULL]
          /\ internode_m \in [Node -> Worker \cup {NULL}]
      BY <2>10, TypeInvImpliesTypeOK DEF StealReply, TypeOK
    <3>5. ASSUME NEW v \in Worker \ {w}
          PROVE  (\E k, i : Has(k, i, v))' <=> internode_m'[node_of[v]] = v
      <4>1. Stays(v)
        BY <3>2 DEF Token
      <4>2. (\E k, i : Has(k, i, v))' <=> (\E k, i : Has(k, i, v))
        BY <4>1 DEF Stays
      <4>3. internode_m'[node_of[v]] = v <=> internode_m[node_of[v]] = v
        BY <3>4
      <4> QED
        BY <4>2, <4>3 DEF HolderInv, Asking
    <3>6. ~(\E k, i : Has(k, i, w))' /\ internode_m'[node_of[w]] # w
      BY <3>2, <3>4 DEF Leaves
    <3>7. Asking'
      BY <3>5, <3>6 DEF Asking
    <3> QED
      BY <3>2, <3>3, <3>7, ApartStep, HandsStep DEF HolderInv
  <2> QED
    BY <1>4, <2>1, <2>2, <2>3, <2>4, <2>5, <2>6, <2>7, <2>8, <2>9, <2>10 DEF Library, Enqueue
<1> QED
  BY <1>3, <1>4

\* What a server does.
LEMMA HolderServerStep ==
  ASSUME TypeInv, HolderInv, Next, NEW n \in Node, Server(n)
  PROVE  HolderInv'
<1> USE Constants
<1>1. CASE StealScan(n)
  <2>1. PICK v, t : v = serving[n] /\ t = Head(public_grq[n][scan_at[n]])
    OBVIOUS
  <2>2. /\ v \in Worker /\ Has("serving", n, v) /\ NoRepeat'
        /\ \/ \A x \in Token : Stays(x)
           \/ Goes(v, "answered", v) /\ \A x \in Token \ {v} : Stays(x)
           \/ /\ t \in Task /\ Has("public", <<n, scan_at[n]>>, t)
              /\ Goes(v, "answered", v) /\ Goes(t, "reply", v)
              /\ \A x \in Token \ {v, t} : Stays(x)
    BY <1>1, <2>1, StealScanWhere
  <2>3. \A x \in Token : Stays(x) \/ \E k, i : Goes(x, k, i)
    BY <2>2
  <2>4. \A w \in Worker \ {v} : Stays(w)
    BY <2>2 DEF Token
  <2>5. Stays(v) \/ \E k, i : Goes(v, k, i)
    BY <2>2, <2>3 DEF Token
  <2>6. (\E k, i : Has(k, i, v))'
    BY <2>2, <2>5 DEF Stays, Goes
  <2>7. UNCHANGED internode_m
    BY <1>1 DEF StealScan
  <2>8. ASSUME NEW w \in Worker PROVE (\E k, i : Has(k, i, w))' <=> (\E k, i : Has(k, i, w))
    BY <2>2, <2>4, <2>6 DEF Stays
  <2>9. Asking'
    BY <2>7, <2>8 DEF HolderInv, Asking
  <2> QED
    BY <2>2, <2>3, <2>9, ApartStep, HandsStep DEF HolderInv
<1>2. CASE DirectDone(n)
  <2>1. PICK t : t = serving[n]
    OBVIOUS
  <2>2. OneMoves(t) /\ NoRepeat'
    BY <1>2, <2>1, DirectDoneWhere DEF OneMoves, Live
  <2>3. UNCHANGED internode_m
    BY <1>2 DEF DirectDone
  <2> QED
    BY <2>2, <2>3, OneMovesStep
<1>3. ASSUME NEW s \in Thread, RecvEnqueue(n, s) PROVE HolderInv'
  <2>1. PICK t : t = Head(chan[<<s, n>>]).arg
    OBVIOUS
  <2>2. OneMoves(t) /\ NoRepeat'
    BY <1>3, <2>1, RecvEnqueueWhere DEF OneMoves
  <2>3. UNCHANGED internode_m
    BY <1>3 DEF RecvEnqueue
  <2> QED
    BY <2>2, <2>3, OneMovesStep
<1>4. ASSUME NEW s \in Thread, RecvAnswer(n, s) PROVE HolderInv'
  <2>1. PICK t : t = Head(chan[<<s, n>>]).arg
    OBVIOUS
  <2>2. OneMoves(t) /\ NoRepeat'
    BY <1>4, <2>1, RecvAnswerWhere DEF OneMoves, Live
  <2>3. UNCHANGED internode_m
    BY <1>4 DEF RecvAnswer, nodes
  <2> QED
    BY <2>2, <2>3, OneMovesStep
<1>5. ASSUME NEW s \in Thread, RecvSteal(n, s) PROVE HolderInv'
  <2>1. PICK v : v = Head(chan[<<s, n>>]).arg
    OBVIOUS
  <2>2. /\ v \in Worker /\ Has("chan", <<s, n>>, v)
        /\ Goes(v, "serving", n)
        /\ \A x \in Token \ {v} : Stays(x)
        /\ NoRepeat'
    BY <1>5, <2>1, RecvStealWhere
  <2>3. \A x \in Token : Stays(x) \/ \E k, i : Goes(x, k, i)
    BY <2>2
  <2>4. \A w \in Worker \ {v} : Stays(w)
    BY <2>2 DEF Token
  <2>5. (\E k, i : Has(k, i, v))'
    BY <2>2 DEF Goes
  <2>6. UNCHANGED internode_m
    BY <1>5 DEF RecvSteal
  <2>7. ASSUME NEW w \in Worker PROVE (\E k, i : Has(k, i, w))' <=> (\E k, i : Has(k, i, w))
    BY <2>2, <2>4, <2>5 DEF Stays
  <2>8. Asking'
    BY <2>6, <2>7 DEF HolderInv, Asking
  <2> QED
    BY <2>2, <2>3, <2>8, ApartStep, HandsStep DEF HolderInv
<1>6. ASSUME NEW s \in Thread, RecvSwitch(n, s) PROVE HolderInv'
  <2>1. UNCHANGED internode_m
    BY <1>6 DEF RecvSwitch
  <2> QED
    BY <1>6, <2>1, RecvSwitchWhere, OneMovesStep
<1> QED
  BY <1>1, <1>2, <1>3, <1>4, <1>5, <1>6 DEF Server

\* Every step keeps the invariant.
LEMMA HolderStep == TypeInv /\ HolderInv /\ [Next]_vars => HolderInv'
<1> SUFFICES ASSUME TypeInv, HolderInv, [Next]_vars PROVE HolderInv'
  OBVIOUS
<1> USE Constants
<1>1. CASE UNCHANGED vars
  <2>1. UNCHANGED <<queues, net, stack, hand, serving, internode_m, pc>>
    BY <1>1 DEF vars, workers, nodes
  <2>2. NoRepeat' /\ \A x : Stays(x)
    BY <2>1, Unmoved DEF HolderInv
  <2>3. Apart'
    BY <2>2, ApartStep DEF HolderInv
  <2>4. Asking'
    BY <2>1, <2>2, AskingStep
  <2>5. HandsFree'
    BY <2>1 DEF HolderInv, HandsFree
  <2> QED
    BY <2>2, <2>3, <2>4, <2>5 DEF HolderInv
<1>2. CASE Next
  <2>1. ASSUME NEW w \in Worker, Call(w) \/ Library(w) PROVE HolderInv'
    BY <1>2, <2>1, HolderWorkerStep
  <2>2. ASSUME NEW n \in Node, Server(n) PROVE HolderInv'
    BY <1>2, <2>2, HolderServerStep
  <2>3. ASSUME NEW n \in Node, NEW t \in Task, NEW to \in Node, DirectCreate(n, t, to)
        PROVE  HolderInv'
    <3>1. n \in Thread /\ Here(n) = n
      BY DEF Thread, Here
    <3>2. /\ NewDesc(t, NULL, Here(n), 0, FALSE) /\ Place(n, t, to)
          /\ UNCHANGED <<private_grq, reply, stack, hand, serving, internode_m>>
      BY <2>3, <3>1 DEF DirectCreate, workers, nodes
    <3>3. OneMoves(t) /\ NoRepeat'
      BY <3>1, <3>2, PlaceWhere DEF OneMoves
    <3> QED
      BY <1>2, <3>2, <3>3, OneMovesStep
  <2> QED
    BY <1>2, <2>1, <2>2, <2>3 DEF Next
<1> QED
  BY <1>1, <1>2

----------------------------------------------------------------------------
(* What the runs check follows.                                            *)

\* Holder e of task t is in place i of kind k.
HolderAt(k, i, e, t) ==
  \/ k = "private" /\ i \in Node /\ e \in Slots(<<"private", i>>, private_grq[i], t)
  \/ /\ k = "public" /\ i \in Node \X Levels
     /\ e \in Slots(<<"public", i[1], i[2]>>, public_grq[i[1]][i[2]], t)
  \/ k = "chan" /\ i \in Thread \X Node /\ e \in Slots(<<"chan", i>>, Carried(chan[i]), t)
  \/ k = "stack" /\ i \in Worker /\ e \in Slots(<<"stack", i>>, stack[i], t)
  \/ k = "reply" /\ i \in Worker /\ e = <<"reply", i>> /\ reply[i] = t
  \/ k = "hand" /\ i \in Worker /\ e = <<"hand", i>> /\ hand[i] = t
  \/ k = "serving" /\ i \in Node /\ e = <<"serving", i>> /\ serving[i] = t

\* The slots of a sequence are its occurrences.
LEMMA SlotsOnce ==
  ASSUME NEW name, NEW q, NEW t, NEW e \in Slots(name, q, t)
  PROVE  /\ t \in Range(q)
         /\ t \in Token /\ Once(q, Token) => \A f \in Slots(name, q, t) : e = f
BY DEF Slots, Range, Once

LEMMA HolderSomewhere ==
  ASSUME NEW t \in Task, NEW e \in Holders(t)
  PROVE  \E k, i : HolderAt(k, i, e, t)
<1> DEFINE A == UNION {Slots(<<"private", n>>, private_grq[n], t) : n \in Node}
           B == UNION {Slots(<<"public", n, l>>, public_grq[n][l], t) : n \in Node, l \in Levels}
           C == UNION {Slots(<<"chan", c>>, [i \in DOMAIN chan[c] |-> chan[c][i].arg], t)
                         : c \in Thread \X Node}
           D == UNION {Slots(<<"stack", w>>, stack[w], t) : w \in Worker}
           E == {<<"reply", w>> : w \in {v \in Worker : reply[v] = t}}
           F == {<<"hand", w>> : w \in {v \in Worker : hand[v] = t}}
           G == {<<"serving", n>> : n \in {m \in Node : serving[m] = t}}
<1>0. Holders(t) = A \cup B \cup C \cup D \cup E \cup F \cup G
  BY DEF Holders
<1>1. CASE e \in A
  <2>1. PICK n \in Node : e \in Slots(<<"private", n>>, private_grq[n], t)
    BY <1>1
  <2> QED
    BY <2>1 DEF HolderAt
<1>2. CASE e \in B
  <2>1. PICK n \in Node, l \in Levels : e \in Slots(<<"public", n, l>>, public_grq[n][l], t)
    BY <1>2
  <2>2. <<n, l>> \in Node \X Levels /\ <<n, l>>[1] = n /\ <<n, l>>[2] = l
    OBVIOUS
  <2>3. HolderAt("public", <<n, l>>, e, t)
    BY <2>1, <2>2 DEF HolderAt
  <2> QED
    BY <2>3
<1>3. CASE e \in C
  <2>1. PICK c \in Thread \X Node : e \in Slots(<<"chan", c>>, Carried(chan[c]), t)
    BY <1>3 DEF Carried
  <2> QED
    BY <2>1 DEF HolderAt
<1>4. CASE e \in D
  <2>1. PICK w \in Worker : e \in Slots(<<"stack", w>>, stack[w], t)
    BY <1>4
  <2> QED
    BY <2>1 DEF HolderAt
<1>5. CASE e \in E \/ e \in F \/ e \in G
  BY <1>5 DEF HolderAt
<1> HIDE DEF A, B, C, D, E, F, G
<1> QED
  BY <1>0, <1>1, <1>2, <1>3, <1>4, <1>5

LEMMA HolderHas ==
  ASSUME HolderInv, NEW t \in Task, NEW k, NEW i, NEW e, HolderAt(k, i, e, t)
  PROVE  /\ Has(k, i, t)
         /\ \A f : HolderAt(k, i, f, t) => e = f
<1>1. t \in Token
  BY DEF Token
<1>2. CASE k = "private"
  BY <1>1, <1>2, SlotsOnce DEF HolderAt, Has, HolderInv, NoRepeat
<1>3. CASE k = "public"
  <2>1. i[1] \in Node /\ i[2] \in Levels
    BY <1>3 DEF HolderAt
  <2> QED
    BY <1>1, <1>3, <2>1, SlotsOnce DEF HolderAt, Has, HolderInv, NoRepeat
<1>4. CASE k = "chan"
  BY <1>1, <1>4, SlotsOnce DEF HolderAt, Has, HolderInv, NoRepeat
<1>5. CASE k = "stack"
  BY <1>1, <1>5, SlotsOnce DEF HolderAt, Has, HolderInv, NoRepeat
<1>6. CASE k \in {"reply", "hand", "serving"}
  BY <1>6 DEF HolderAt, Has
<1> QED
  BY <1>2, <1>3, <1>4, <1>5, <1>6 DEF HolderAt

\* A set whose elements are all equal.
LEMMA AtMostOneElement ==
  ASSUME NEW S, \A e, f \in S : e = f
  PROVE  IsFiniteSet(S) /\ Cardinality(S) = IF S = {} THEN 0 ELSE 1
<1>1. CASE S = {}
  BY <1>1, FS_EmptySet
<1>2. CASE S # {}
  <2>1. PICK e : S = {e}
    BY <1>2
  <2> QED
    BY <2>1, FS_Singleton
<1> QED
  BY <1>1, <1>2

LEMMA HolderInvImpliesOneHolder == HolderInv => OneHolder
<1> SUFFICES ASSUME HolderInv, NEW t \in Task PROVE Cardinality(Holders(t)) <= 1
  BY DEF OneHolder
<1>1. ASSUME NEW e \in Holders(t), NEW f \in Holders(t) PROVE e = f
  <2>1. PICK k1, i1 : HolderAt(k1, i1, e, t)
    BY HolderSomewhere
  <2>2. PICK k2, i2 : HolderAt(k2, i2, f, t)
    BY HolderSomewhere
  <2>3. Has(k1, i1, t) /\ Has(k2, i2, t) /\ t \in Token
    BY <2>1, <2>2, HolderHas DEF Token
  <2>4. k1 = k2 /\ i1 = i2
    BY <2>3 DEF HolderInv, Apart, AtMostOnePlace
  <2> QED
    BY <2>1, <2>2, <2>4, HolderHas
<1> QED
  BY <1>1, AtMostOneElement

\* A request on its way is in one channel, at one position.
LEMMA RequestPlace ==
  ASSUME HolderInv, NEW w \in Worker, NEW e \in RequestsOf(w)
  PROVE  \E c \in Thread \X Node :
           /\ Has("chan", c, w)
           /\ \A f \in Slots(c, chan[c], Msg("STEALING_REQUEST", w)) : e = f
<1> DEFINE m == Msg("STEALING_REQUEST", w)
<1>1. PICK c \in Thread \X Node : e \in Slots(c, chan[c], m)
  BY DEF RequestsOf
<1>2. Slots(c, chan[c], m) \subseteq Slots(c, Carried(chan[c]), w)
  BY DEF Slots, Carried, Msg
<1>3. /\ w \in Range(Carried(chan[c]))
      /\ \A f \in Slots(c, Carried(chan[c]), w) : e = f
  <2>1. w \in Token /\ Once(Carried(chan[c]), Token)
    BY DEF Token, HolderInv, NoRepeat
  <2> QED
    BY <1>1, <1>2, <2>1, SlotsOnce
<1> QED
  BY <1>2, <1>3 DEF Has

\* A request in a channel is a request.
LEMMA RequestOnly ==
  ASSUME TypeInv, NEW w \in Worker, NEW c \in Thread \X Node, Has("chan", c, w)
  PROVE  RequestsOf(w) # {}
<1> USE Constants
<1>1. PICK j \in DOMAIN chan[c] : chan[c][j].arg = w
  BY DEF Has, Carried, Range
<1>2. chan[c][j] \in LiveMessage
  <2>1. chan[c] \in Seq(LiveMessage)
    BY DEF TypeInv, Held
  <2> QED
    BY <2>1, LenProperties
<1>3. chan[c][j] = Msg("STEALING_REQUEST", w)
  BY <1>1, <1>2 DEF LiveMessage, Live, Msg
<1>4. <<c, j>> \in Slots(c, chan[c], Msg("STEALING_REQUEST", w))
  BY <1>3 DEF Slots
<1> QED
  BY <1>4 DEF RequestsOf

LEMMA HolderInvImpliesStealHandshake == TypeInv /\ HolderInv => StealHandshake
<1> SUFFICES ASSUME TypeInv, HolderInv, NEW w \in Worker
             PROVE  Cardinality(RequestsOf(w)) + Cardinality(ServedFor(w))
                      + (IF reply[w] = NULL THEN 0 ELSE 1)
                      = (IF internode_m[node_of[w]] = w THEN 1 ELSE 0)
  BY DEF StealHandshake
<1> USE Constants
<1>1. w \in Token /\ AtMostOnePlace(w)
  BY DEF Token, HolderInv, Apart
<1>2. \A e, f \in RequestsOf(w) : e = f
  <2> SUFFICES ASSUME NEW e \in RequestsOf(w), NEW f \in RequestsOf(w) PROVE e = f
    OBVIOUS
  <2>1. PICK c \in Thread \X Node :
          /\ Has("chan", c, w)
          /\ \A g \in Slots(c, chan[c], Msg("STEALING_REQUEST", w)) : e = g
    BY RequestPlace
  <2>2. PICK d \in Thread \X Node : f \in Slots(d, chan[d], Msg("STEALING_REQUEST", w))
    BY DEF RequestsOf
  <2>3. Has("chan", d, w)
    BY <2>2 DEF Slots, Msg, Has, Carried, Range
  <2> QED
    BY <1>1, <2>1, <2>2, <2>3 DEF AtMostOnePlace
<1>3. \A n, m \in ServedFor(w) : n = m
  BY <1>1 DEF ServedFor, Has, AtMostOnePlace
<1>4. Has("answered", w, w) <=> reply[w] # NULL
  BY DEF Has
<1>5. (\E i : Has("serving", i, w)) <=> ServedFor(w) # {}
  BY DEF Has, ServedFor
<1>6. (\E i : Has("chan", i, w)) <=> RequestsOf(w) # {}
  <2>1. \A i : Has("chan", i, w) => i \in Thread \X Node
    BY DEF Has
  <2> QED
    BY <2>1, RequestPlace, RequestOnly
<1>7. \A k, i : Has(k, i, w) => \/ k = "chan" \/ k = "serving"
                                \/ k = "answered" /\ i = w
  <2>1. \A n \in Node : w \notin Range(private_grq[n])
    <3>1. \A n \in Node : Range(private_grq[n]) \in SUBSET Task
      BY RangeOfSeq, TypeInvImpliesTypeOK DEF TypeOK
    <3> QED
      BY <3>1
  <2>2. \A i \in Node \X Levels : w \notin Range(public_grq[i[1]][i[2]])
    <3>1. \A n \in Node, l \in Levels : Range(public_grq[n][l]) \in SUBSET Task
      BY RangeOfSeq, TypeInvImpliesTypeOK DEF TypeOK
    <3>2. \A i \in Node \X Levels : i[1] \in Node /\ i[2] \in Levels
      OBVIOUS
    <3> QED
      BY <3>1, <3>2
  <2>3. \A v \in Worker : w \notin Range(stack[v])
    <3>1. \A v \in Worker : Range(stack[v]) \in SUBSET Frame
      BY RangeOfSeq, TypeInvImpliesTypeOK DEF TypeOK
    <3> QED
      BY <3>1, NamesAssumption DEF Frame
  <2>4. \A v \in Worker : w # hand[v]
    BY TypeInvImpliesTypeOK DEF TypeOK
  <2> QED
    BY <2>1, <2>2, <2>3, <2>4 DEF Has
<1>8. (\E k, i : Has(k, i, w)) <=> internode_m[node_of[w]] = w
  BY DEF HolderInv, Asking
<1>9. /\ Cardinality(RequestsOf(w)) = IF RequestsOf(w) = {} THEN 0 ELSE 1
      /\ Cardinality(ServedFor(w)) = IF ServedFor(w) = {} THEN 0 ELSE 1
  BY <1>2, <1>3, AtMostOneElement
<1>10. CASE internode_m[node_of[w]] = w
  <2>1. PICK k, i : Has(k, i, w)
    BY <1>8, <1>10
  <2>2. \A l, j : Has(l, j, w) => l = k
    BY <1>1, <2>1 DEF AtMostOnePlace
  <2> QED
    BY <1>4, <1>5, <1>6, <1>7, <1>9, <1>10, <2>1, <2>2
<1>11. CASE internode_m[node_of[w]] # w
  BY <1>4, <1>5, <1>6, <1>8, <1>9, <1>11
<1> QED
  BY <1>10, <1>11

----------------------------------------------------------------------------
\* The invariant of the places of tasks and requests.
THEOREM HoldersSpec == Spec => [](TypeInv /\ HolderInv)
<1>1. Init => TypeInv /\ HolderInv
  BY TypeInit, HolderInit
<1>2. TypeInv /\ HolderInv /\ [Next]_vars => (TypeInv /\ HolderInv)'
  BY TypeStep, HolderStep
<1> QED
  BY <1>1, <1>2, PTL DEF Spec

\* A task is in one place at a time, over all queues, messages and threads of
\* all nodes, however many there are: no task can be run twice.
THEOREM OneHolderCorrect == Spec => []OneHolder
BY HoldersSpec, HolderInvImpliesOneHolder, PTL

\* Whatever the number of thieves, the one that owns internode_m has exactly
\* one request or reply in the system, and the others have none.
THEOREM StealHandshakeCorrect == Spec => []StealHandshake
BY HoldersSpec, HolderInvImpliesStealHandshake, PTL

=============================================================================
