----------------------- MODULE MessagingTrafficProofs -----------------------
(***************************************************************************)
(* What the messages promise, for any number of nodes, workers, tasks and  *)
(* arguments: inputs and results arrive (InputsArrive, ResultsArrive), no  *)
(* buffer is freed twice (FreedOnce), a broadcast is everywhere before the *)
(* tasks created after it (BroadcastFirst), and every message is taken     *)
(* (NothingLeftOver).                                                      *)
(*                                                                         *)
(* First Inv: each lane of a channel is a chain (WorkChain, ReplyChain),   *)
(* which rests on how a message fits its channel (Messages), how a thread  *)
(* fits its task (Activities), one request or reply per asking node        *)
(* (Asking), and one place per task (Apart, NoRepeat): two threads of a    *)
(* node never fill or free the same buffers.  For each action one lemma    *)
(* per conjunct says that the conjunct is kept.                            *)
(*                                                                         *)
(* On top of it Values says what the buffers of a task hold as long as     *)
(* somebody has to do with it, at home and elsewhere, and Broadcasting     *)
(* where a broadcast is: a task that was created after it is still behind  *)
(* it on the channel to its node, or the node has the buffer.              *)
(*                                                                         *)
(* All but the types needs QuietServers.                                   *)
(***************************************************************************)
EXTENDS MessagingProofs

----------------------------------------------------------------------------
(* The messages a step leaves on the channels.                             *)

LEMMA OldMessage ==
  ASSUME Inv, HomeKept(homenode, homenode'), NEW x \in Thread, NEW y \in Node, NEW r \in DOMAIN chan[<<x, y>>]
  PROVE  MessageOK(chan[<<x, y>>][r], x, y, homenode')
BY InvFacts, SameMessageOK

LEMMA KeptMessages == ASSUME Inv, HomeKept(homenode, homenode'), chan' = chan PROVE Messages'
BY OldMessage DEF Messages

LEMMA TakenMessages ==
  ASSUME Inv, homenode' = homenode, NEW s \in Thread, NEW n \in Node, NEW tag, Receive(s, n, tag)
  PROVE  Messages'
<1>1. ASSUME NEW x \in Thread, NEW y \in Node, NEW p \in DOMAIN chan'[<<x, y>>]
      PROVE  MessageOK(chan'[<<x, y>>][p], x, y, homenode')
  <2>1. PICK r \in DOMAIN chan[<<x, y>>] : chan'[<<x, y>>][p] = chan[<<x, y>>][r]
    BY TakenIsOld DEF Inv, Types
  <2>2. HomeKept(homenode, homenode')
    BY SameHome
  <2> QED
    BY <2>1, <2>2, OldMessage
<1> QED
  BY <1>1 DEF Messages

LEMMA SentMessages ==
  ASSUME Inv, HomeKept(homenode, homenode'), NEW s \in Thread, NEW n, NEW m, Send(s, n, m),
         n \in Node => MessageOK(m, s, n, homenode')
  PROVE  Messages'
<1>1. ASSUME NEW x \in Thread, NEW y \in Node, NEW p \in DOMAIN chan'[<<x, y>>]
      PROVE  MessageOK(chan'[<<x, y>>][p], x, y, homenode')
  <2>1. \/ p \in DOMAIN chan[<<x, y>>] /\ chan'[<<x, y>>][p] = chan[<<x, y>>][p]
        \/ x = s /\ y = n /\ chan'[<<x, y>>][p] = m
    BY SentOrOld DEF Inv, Types
  <2> QED
    BY <2>1, OldMessage
<1> QED
  BY <1>1 DEF Messages

LEMMA DescriptorOK ==
  ASSUME Types, NEW s \in Thread, NEW n \in Node, NEW t \in Task, NEW home, home[t] # NULL,
         NEW type \in {"TORC_NORMAL_ENQUEUE", "TORC_ANSWER"},
         IF type = "TORC_ANSWER" THEN home[t] = n /\ Here(s) # n /\ (s \in Node => SentResults(t) = {})
         ELSE /\ target[t] = n /\ home[t] = Here(s) /\ home[t] # n
              /\ s \in Node => SentArgs(t) = {}
  PROVE  MessageOK(Descriptor(MAX_NVPS, type, t), s, n, home)
<1> DEFINE m == Descriptor(MAX_NVPS, type, t)
<1>1. m.tag = MAX_NVPS /\ m.type = type /\ m.task = t /\ ~ (m.tag >= 100)
  BY Fields, Tags
<1> HIDE DEF m
<1>2. MessageOK(m, s, n, home)
  BY <1>1 DEF MessageOK
<1> QED
  BY <1>2 DEF m

\* What a task that a server executes may do, with quiet servers.
LEMMA QuietFacts ==
  ASSUME Inv, QuietServers, NEW s \in Node, doing[s].op = "run"
  PROVE  /\ doing[s].task \in Direct /\ doing[s].task \in Task /\ target[doing[s].task] = s
         /\ homenode[doing[s].task] # s /\ SentResults(doing[s].task) = {}
         /\ \A c \in Task : creator[c] = doing[s].task => SentArgs(c) = {} \/ target[c] = s
<1>1. ActivityOK(doing[s], s, homenode)
  BY Threads, InvFacts
<1>2. doing[s].task \in Direct /\ target[doing[s].task] = s /\ homenode[doing[s].task] # s
  BY <1>1 DEF ActivityOK
<1> QED
  BY <1>2, TasksAssumption DEF QuietServers, Outputs, SentArgs, SentResults

LEMMA CreateSends ==
  ASSUME Inv, QuietServers, NEW s \in Thread, NEW t \in Task, Create(s, t), target[t] # Here(s), s \in Node
  PROVE  SentArgs(t) = {}
<1>1. doing[s].op = "run" /\ creator[t] = doing[s].task
  BY CallerIs DEF Inv
<1>2. Here(s) = s
  BY Threads
<1> QED
  BY <1>1, <1>2, QuietFacts

LEMMA CreateMessages ==
  ASSUME Inv, QuietServers, NEW s \in Thread, NEW t \in Task, Create(s, t) PROVE Messages'
<1>1. /\ HomeKept(homenode, homenode') /\ homenode'[t] = Here(s) /\ Here(s) # NULL /\ target[t] \in Node
      /\ Types
  BY CreateHome DEF Inv
<1>2. CASE target[t] = Here(s)
  <2>1. chan' = chan
    BY <1>2 DEF Create
  <2> QED
    BY <1>1, <2>1, KeptMessages
<1>3. CASE target[t] # Here(s)
  <2>1. Send(s, target[t], Descriptor(MAX_NVPS, "TORC_NORMAL_ENQUEUE", t))
    BY <1>3 DEF Create
  <2>2. s \in Node => SentArgs(t) = {}
    BY <1>3, CreateSends
  <2>3. MessageOK(Descriptor(MAX_NVPS, "TORC_NORMAL_ENQUEUE", t), s, target[t], homenode')
    BY <1>1, <1>3, <2>2, DescriptorOK
  <2> QED
    BY <1>1, <2>1, <2>3, SentMessages
<1> QED
  BY <1>2, <1>3

LEMMA FinishAwayMessages ==
  ASSUME Inv, QuietServers, NEW s \in Thread, FinishAway(s) PROVE Messages'
<1> DEFINE t == doing[s].task
<1>1. t \in Task /\ homenode[t] \in Node /\ homenode[t] # Here(s) /\ doing[s].op = "run"
  BY AwayFacts
<1>2. Send(s, homenode[t], Descriptor(MAX_NVPS, "TORC_ANSWER", t)) /\ homenode' = homenode
  BY DEF FinishAway, tasks
<1>3. s \in Node => SentResults(t) = {}
  BY <1>1, QuietFacts
<1>4. homenode[t] # NULL /\ HomeKept(homenode, homenode') /\ Types
  BY <1>1, <1>2, DistinctAssumption, SameHome DEF Inv
<1> HIDE DEF t
<1>5. MessageOK(Descriptor(MAX_NVPS, "TORC_ANSWER", t), s, homenode[t], homenode)
  BY <1>1, <1>3, <1>4, DescriptorOK
<1>6. MessageOK(Descriptor(MAX_NVPS, "TORC_ANSWER", t), s, homenode[t], homenode')
  BY <1>2, <1>5
<1> QED
  BY <1>2, <1>4, <1>6, SentMessages

\* Arguments and results go out under the tag of a worker or that of a thief.
LEMMA DataMessages ==
  ASSUME Inv, NEW s \in Thread, doing[s].op \in {"send", "result"}, homenode' = homenode, NEW v,
         Send(s, doing[s].peer, Data(doing[s].tag, doing[s].task, NextArg(s), v))
  PROVE  Messages'
<1> DEFINE d == doing[s]
           m == Data(d.tag, d.task, NextArg(s), v)
<1>0. Here(s) \in Node
  BY Threads
<1>1. Busy(d, s) /\ ActivityOK(d, s, homenode) /\ d \in Activity
  BY <1>0, InvFacts
<1>2. m.tag = d.tag /\ m.type = "data" /\ m.task = d.task
  BY Fields
<1>3. s \in Worker => d.tag = Tag(s) /\ Tag(s) < 100 /\ ~ (d.tag >= 100)
  <2>1. s \in Worker => d.tag = Tag(s)
    BY <1>1 DEF Busy
  <2>2. s \in Worker => Tag(s) \in Nat /\ Tag(s) < 100
    BY Tags
  <2> QED
    BY <2>1, <2>2
<1>4. s \notin Worker => s \in Node /\ d.tag >= 100 /\ ~ (d.tag < 100)
  <2>1. s \notin Worker => s \in Node /\ d.tag >= 100
    BY <1>1, Threads DEF ActivityOK
  <2>2. d.tag \in Int
    BY <1>1, Tags DEF Activity
  <2> QED
    BY <2>1, <2>2
<1>5. d.task # NULL => homenode[d.task] # NULL
  BY <1>1 DEF ActivityOK
<1> HIDE DEF m, d
<1>6. MessageOK(m, s, d.peer, homenode)
  BY <1>2, <1>3, <1>4, <1>5 DEF MessageOK
<1>7. Send(s, d.peer, m) /\ HomeKept(homenode, homenode')
  BY SameHome DEF m, d
<1> QED
  BY <1>6, <1>7, SentMessages

LEMMA SendArgumentMessages == ASSUME Inv, NEW s \in Thread, SendArgument(s) PROVE Messages'
<1>1. PICK v : Send(s, doing[s].peer, Data(doing[s].tag, doing[s].task, NextArg(s), v))
  BY DEF SendArgument
<1>2. doing[s].op = "send" /\ homenode' = homenode
  BY DEF SendArgument, tasks
<1> QED
  BY <1>1, <1>2, DataMessages

LEMMA SendResultMessages == ASSUME Inv, NEW s \in Thread, SendResult(s) PROVE Messages'
<1>1. PICK v : Send(s, doing[s].peer, Data(doing[s].tag, doing[s].task, NextArg(s), v))
  BY DEF SendResult
<1>2. doing[s].op = "result" /\ homenode' = homenode
  BY DEF SendResult, tasks
<1> QED
  BY <1>1, <1>2, DataMessages

LEMMA AskForWorkMessages == ASSUME Inv, NEW w \in Worker, AskForWork(w) PROVE Messages'
<1> DEFINE m == Descriptor(MAX_NVPS, "STEALING_REQUEST", NULL)
<1>1. PICK n : Send(w, n, m)
  BY DEF AskForWork
<1>2. w \in Thread /\ HomeKept(homenode, homenode') /\ homenode' = homenode
  BY Threads, SameHome DEF AskForWork, tasks
<1>3. m.tag = MAX_NVPS /\ m.type = "STEALING_REQUEST" /\ m.task = NULL /\ ~ (m.tag >= 100)
  BY Fields, Tags
<1> HIDE DEF m
<1>4. \A y \in Node : MessageOK(m, w, y, homenode')
  BY <1>3 DEF MessageOK
<1> QED
  BY <1>1, <1>2, <1>4, SentMessages

LEMMA BroadcastMessages == ASSUME Inv, NEW w \in Worker, Broadcast(w) PROVE Messages'
<1> DEFINE m == Descriptor(MAX_NVPS, "TORC_BCAST", NULL)
           n == Min(Others(w) \ told)
<1>1. Send(w, n, m) /\ n # Here(w)
  BY NextToTell DEF Broadcast
<1>2. w \in Thread /\ HomeKept(homenode, homenode') /\ homenode' = homenode
  BY Threads, SameHome DEF Broadcast, tasks
<1>3. m.tag = MAX_NVPS /\ m.type = "TORC_BCAST" /\ m.task = NULL /\ ~ (m.tag >= 100)
  BY Fields, Tags
<1> HIDE DEF m, n
<1>4. MessageOK(m, w, n, homenode')
  BY <1>1, <1>3 DEF MessageOK
<1> QED
  BY <1>1, <1>2, <1>4, SentMessages

LEMMA SsendMessages == ASSUME Inv, NEW w \in Worker, Ssend(w) PROVE Messages'
<1> DEFINE m == Data(doing[w].tag, NULL, 0, buffer[Here(w)])
           n == doing[w].peer
<1>1. Send(w, n, m) /\ doing[w].op = "bcast"
  BY DEF Ssend
<1>2. w \in Thread /\ HomeKept(homenode, homenode') /\ homenode' = homenode /\ Here(w) \in Node
  BY Threads, SameHome DEF Ssend, tasks
<1>3. doing[w].tag = Tag(w) /\ Tag(w) < 100 /\ ~ (Tag(w) >= 100)
  <2>1. doing[w].tag = Tag(w)
    BY <1>1, <1>2, InvFacts DEF Busy
  <2>2. Tag(w) \in Nat /\ Tag(w) < 100
    BY Tags
  <2> QED
    BY <2>1, <2>2
<1>4. m.tag = Tag(w) /\ m.type = "data" /\ m.task = NULL
  BY <1>3, Fields
<1> HIDE DEF m, n
<1>5. MessageOK(m, w, n, homenode')
  BY <1>3, <1>4 DEF MessageOK
<1> QED
  BY <1>1, <1>2, <1>5, SentMessages

LEMMA ServeThiefMessages ==
  ASSUME Inv, NEW n \in Node, NEW s \in Thread, ServeThief(n, s) PROVE Messages'
<1>0. s \in Worker /\ First(s, n, MAX_NVPS) # 0 /\ homenode' = homenode /\ HomeKept(homenode, homenode')
      /\ ChanType
  <2>1. s \in Worker /\ homenode' = homenode
    BY ThiefFacts
  <2>2. First(s, n, MAX_NVPS) # 0
    BY DEF ServeThief, Accepts
  <2> QED
    BY <2>1, <2>2, SameHome DEF Inv, Types
<1>1. PICK m \in Letter :
           /\ Replies(n, s, m) /\ m.tag = ReplyTag(s)
           /\ \/ m.type = "stolen" /\ m.task \in ready[n] /\ m.task \in Task
              \/ m.type = "TORC_NO_WORK" /\ m.task = NULL
  BY ReplyFacts
<1>2. m.task # NULL => homenode[m.task] # NULL
  <2>1. ASSUME m.task # NULL PROVE At("ready", n, m.task) /\ m.task \in Task
    BY <1>1, <2>1 DEF At
  <2> QED
    BY <2>1 DEF Inv, Traffic, Apart
<1>3. ReplyTag(s) >= 100 /\ ~ (ReplyTag(s) < 100)
  BY <1>0, Tags
<1>4. MessageOK(m, n, Here(s), homenode')
  BY <1>0, <1>1, <1>2, <1>3 DEF MessageOK
<1>5. ASSUME NEW x \in Thread, NEW y \in Node, NEW p \in DOMAIN chan'[<<x, y>>]
      PROVE  MessageOK(chan'[<<x, y>>][p], x, y, homenode')
  <2>1. \/ \E r \in DOMAIN chan[<<x, y>>] : chan'[<<x, y>>][p] = chan[<<x, y>>][r]
        \/ x = n /\ y = Here(s) /\ chan'[<<x, y>>][p] = m
    BY <1>0, <1>1, RepliesOrOld
  <2> QED
    BY <1>0, <1>4, <2>1, OldMessage
<1> QED
  BY <1>5 DEF Messages

----------------------------------------------------------------------------
(* What the threads are busy with after a step.                            *)

LEMMA StepActivities ==
  ASSUME Inv, HomeKept(homenode, homenode'), NEW s \in Thread,
         \A x \in Thread : x # s => doing'[x] = doing[x],
         ActivityOK(doing'[s], s, homenode')
  PROVE  Activities'
<1>1. ASSUME NEW x \in Thread, x # s PROVE ActivityOK(doing'[x], x, homenode')
  <2>1. Busy(doing[x], x) /\ ActivityOK(doing[x], x, homenode)
    BY InvFacts, Threads
  <2> QED
    BY <1>1, <2>1, SameActivityOK
<1> QED
  BY <1>1 DEF Activities

LEMMA DoActivities ==
  ASSUME Inv, HomeKept(homenode, homenode'), NEW s \in Thread, NEW d, Do(s, d), ActivityOK(d, s, homenode')
  PROVE  Activities'
<1>1. doing'[s] = d /\ \A x \in Thread : x # s => doing'[x] = doing[x]
  BY DoFacts DEF Inv, Types
<1> QED
  BY <1>1, StepActivities

LEMMA SameActivities ==
  ASSUME Inv, HomeKept(homenode, homenode'), doing' = doing PROVE Activities'
<1>1. ASSUME NEW x \in Thread PROVE ActivityOK(doing[x], x, homenode')
  <2>1. Busy(doing[x], x) /\ ActivityOK(doing[x], x, homenode)
    BY InvFacts, Threads
  <2> QED
    BY <2>1, SameActivityOK
<1> QED
  BY <1>1 DEF Activities

LEMMA IdleOK == \A s, home : ActivityOK(Idle, s, home)
BY IdleRun DEF ActivityOK

LEMMA RunOK ==
  ASSUME NEW t \in Task, NEW s, NEW home, home[t] # NULL,
         s \in Node => t \in Direct /\ target[t] = s /\ home[t] # s
  PROVE  ActivityOK(Run(t), s, home)
BY IdleRun, DistinctAssumption DEF ActivityOK

\* The activity of a thread, and its task.
LEMMA ThreadFacts ==
  ASSUME Inv, NEW s \in Thread
  PROVE  /\ Busy(doing[s], s) /\ ActivityOK(doing[s], s, homenode) /\ doing[s] \in Activity
         /\ DoingType /\ Here(s) \in Node
         /\ doing[s].task \in Task \cup {NULL} /\ doing[s].inside \in Task \cup {NULL}
         /\ doing[s].task # NULL => homenode[doing[s].task] # NULL
         /\ doing[s].inside # NULL => homenode[doing[s].inside] # NULL
<1>1. Here(s) \in Node
  BY Threads
<1>2. Busy(doing[s], s) /\ ActivityOK(doing[s], s, homenode) /\ doing[s] \in Activity /\ DoingType
  BY <1>1, InvFacts
<1> QED
  BY <1>1, <1>2 DEF Activity, ActivityOK

LEMMA CreateActivities ==
  ASSUME Inv, QuietServers, NEW s \in Thread, NEW t \in Task, Create(s, t) PROVE Activities'
<1>1. /\ HomeKept(homenode, homenode') /\ homenode'[t] = Here(s) /\ Here(s) # NULL /\ target[t] \in Node
  BY CreateHome DEF Inv
<1>2. CASE target[t] = Here(s)
  <2>1. doing' = doing
    BY <1>2 DEF Create
  <2> QED
    BY <1>1, <2>1, SameActivities
<1>3. CASE target[t] # Here(s)
  <2> DEFINE u == doing[s].task
             A == SentArgs(t)
             d == Act("send", t, A, target[t], Tag(s), u)
             e == Settle(d)
  <2>1. Do(s, e) /\ (s \in Node => A = {})
    BY <1>3, CreateSends DEF Create
  <2>2. /\ A = {} => e = IF u = NULL THEN Idle ELSE Run(u)
        /\ A # {} => e = d
    BY SettleFacts
  <2>3. /\ u \in Task \cup {NULL}
        /\ u # NULL => homenode'[u] # NULL /\ doing[s].op = "run"
    <3>1. u # NULL => homenode[u] # NULL
      BY ThreadFacts
    <3>2. doing[s].op = "idle" => u = NULL
      BY CallerIs DEF Inv
    <3>3. doing[s].op \in {"idle", "run"} /\ u \in Task \cup {NULL}
      BY CallerIs, ThreadFacts DEF Inv
    <3> QED
      BY <1>1, <3>1, <3>2, <3>3 DEF HomeKept
  <2>4. /\ d.op = "send" /\ d.task = t /\ d.peer = target[t] /\ d.inside = u
    BY ActIs
  <2>5. ActivityOK(e, s, homenode')
    <3>1. CASE A # {}
      <4>1. s \notin Node
        BY <2>1, <3>1
      <4> HIDE DEF d, u
      <4>2. ActivityOK(d, s, homenode')
        BY <1>1, <1>3, <2>3, <2>4, <4>1 DEF ActivityOK
      <4> QED
        BY <2>2, <3>1, <4>2
    <3>2. CASE A = {} /\ u = NULL
      BY <2>2, <3>2, IdleOK
    <3>3. CASE A = {} /\ u # NULL
      <4>1. s \in Node => u \in Direct /\ target[u] = s /\ homenode'[u] # s
        BY <1>1, <2>3, <3>3, QuietFacts, ThreadFacts DEF HomeKept
      <4>2. ActivityOK(Run(u), s, homenode')
        BY <2>3, <3>3, <4>1, RunOK
      <4> QED
        BY <2>2, <3>3, <4>2
    <3> QED
      BY <3>1, <3>2, <3>3
  <2> QED
    BY <1>1, <2>1, <2>5, DoActivities
<1> QED
  BY <1>2, <1>3

\* A sender with one argument less to send.
LEMMA DataActivities ==
  ASSUME Inv, NEW s \in Thread, doing[s].op \in {"send", "result"}, homenode' = homenode,
         Do(s, Settle(OneLess(s)))
  PROVE  Activities'
<1> DEFINE d == doing[s]
           A == d.left \ {NextArg(s)}
           e == Settle(OneLess(s))
<1>1. /\ Busy(d, s) /\ ActivityOK(d, s, homenode) /\ DoingType
      /\ d.inside \in Task \cup {NULL} /\ (d.inside # NULL => homenode[d.inside] # NULL)
  BY ThreadFacts
<1>2. /\ A = {} => e = IF d.inside = NULL THEN Idle ELSE Run(d.inside)
      /\ A # {} => e = OneLess(s)
  <2>1. OneLess(s).left = A /\ OneLess(s).inside = d.inside
    BY <1>1, OneLessIs
  <2> QED
    BY <2>1 DEF Settle
<1>3. s \in Node => d.inside = NULL
  BY <1>1 DEF ActivityOK, Busy
<1>4. ActivityOK(OneLess(s), s, homenode)
  <2>1. /\ OneLess(s).op = d.op /\ OneLess(s).task = d.task /\ OneLess(s).peer = d.peer
        /\ OneLess(s).tag = d.tag /\ OneLess(s).inside = d.inside
    BY <1>1, OneLessIs
  <2> HIDE DEF d
  <2>2. d.op \in {"send", "result"}
    BY DEF d
  <2> QED
    BY <1>1, <2>1, <2>2 DEF ActivityOK
<1>5. ActivityOK(e, s, homenode)
  <2>1. CASE A # {}
    BY <1>2, <1>4, <2>1
  <2>2. CASE A = {} /\ d.inside = NULL
    BY <1>2, <2>2, IdleOK
  <2>3. CASE A = {} /\ d.inside # NULL
    <3>1. ActivityOK(Run(d.inside), s, homenode)
      BY <1>1, <1>3, <2>3, RunOK
    <3> QED
      BY <1>2, <2>3, <3>1
  <2> QED
    BY <2>1, <2>2, <2>3
<1> HIDE DEF e
<1>6. ActivityOK(e, s, homenode') /\ HomeKept(homenode, homenode')
  BY <1>5, SameHome
<1> QED
  BY <1>6, DoActivities DEF e

LEMMA SendArgumentActivities == ASSUME Inv, NEW s \in Thread, SendArgument(s) PROVE Activities'
<1>1. doing[s].op = "send" /\ homenode' = homenode /\ Do(s, Settle(OneLess(s)))
  BY DEF SendArgument, tasks
<1> QED
  BY <1>1, DataActivities

LEMMA SendResultActivities == ASSUME Inv, NEW s \in Thread, SendResult(s) PROVE Activities'
<1>1. doing[s].op = "result" /\ homenode' = homenode /\ Do(s, Settle(OneLess(s)))
  BY DEF SendResult, tasks
<1> QED
  BY <1>1, DataActivities

\* A server takes a descriptor: what it waits for comes from a worker.
LEMMA AcceptedOK ==
  ASSUME Inv, NEW n \in Node, NEW s \in Thread, NEW type \in {"TORC_NORMAL_ENQUEUE", "TORC_ANSWER", "TORC_BCAST"},
         Accepts(n, s, type)
  PROVE  LET m == Received(s, n, MAX_NVPS)
         IN  /\ MessageOK(m, s, n, homenode) /\ m.type = type /\ Here(s) # n
             /\ type # "TORC_BCAST" => m.task \in Task /\ homenode[m.task] # NULL
             /\ Tag(s) = MAX_NVPS => s \in Node
             /\ s \in Worker => Tag(s) < MAX_NVPS
<1> DEFINE m == Received(s, n, MAX_NVPS)
<1>1. MessageOK(m, s, n, homenode) /\ m.type = type
  BY FirstWork DEF Accepts
<1>2. type # "TORC_BCAST" => m.task \in Task /\ homenode[m.task] # NULL
  <2>1. type # "TORC_BCAST" => m.task \in Task
    BY AcceptsFacts DEF AcceptedTask, Descriptors, Inv
  <2> QED
    BY <1>1, <2>1, DistinctAssumption DEF MessageOK
<1>3. Here(s) # n
  BY <1>1 DEF MessageOK
<1>4. s \in Worker => Tag(s) < MAX_NVPS /\ Tag(s) \in Nat /\ MAX_NVPS \in Nat
  BY Tags
<1>5. s \in Worker \/ s \in Node
  BY Threads
<1> QED
  BY <1>1, <1>2, <1>3, <1>4, <1>5

LEMMA RecvWorkActivities ==
  ASSUME Inv, NEW n \in Node, NEW s \in Thread, RecvWork(n, s) PROVE Activities'
<1> DEFINE m == Received(s, n, MAX_NVPS)
           t == m.task
           d == Act("receive", t, AwaitedArgs(t), Here(s), Tag(s), NULL)
<1>1. Accepts(n, s, "TORC_NORMAL_ENQUEUE") /\ homenode' = homenode /\ Do(n, d)
  BY DEF RecvWork, Allocate, tasks, AcceptedTask
<1>2. /\ MessageOK(m, s, n, homenode) /\ m.type = "TORC_NORMAL_ENQUEUE" /\ Here(s) # n
      /\ t \in Task /\ homenode[t] # NULL /\ (Tag(s) = MAX_NVPS => s \in Node)
  BY <1>1, AcceptedOK
<1>3. n \in Thread /\ n \notin Worker /\ Here(n) = n
  BY Threads
<1>4. target[t] = n /\ homenode[t] # n /\ (s \in Node => AwaitedArgs(t) = {})
  BY <1>2, Pairing DEF MessageOK
<1>5. /\ d.op = "receive" /\ d.task = t /\ d.left = AwaitedArgs(t) /\ d.peer = Here(s)
      /\ d.tag = Tag(s) /\ d.inside = NULL
  BY ActIs
<1> HIDE DEF m, d
<1>6. ActivityOK(d, n, homenode) /\ HomeKept(homenode, homenode')
  BY <1>1, <1>2, <1>3, <1>4, <1>5, SameHome DEF ActivityOK
<1> QED
  BY <1>1, <1>3, <1>6, DoActivities

LEMMA RecvAnswerActivities ==
  ASSUME Inv, NEW n \in Node, NEW s \in Thread, RecvAnswer(n, s) PROVE Activities'
<1> DEFINE m == Received(s, n, MAX_NVPS)
           t == m.task
           d == Act("collect", t, AwaitedResults(t), Here(s), Tag(s), NULL)
<1>1. Accepts(n, s, "TORC_ANSWER") /\ homenode' = homenode /\ Do(n, d)
  BY DEF RecvAnswer, tasks, AcceptedTask
<1>2. /\ MessageOK(m, s, n, homenode) /\ m.type = "TORC_ANSWER" /\ Here(s) # n
      /\ t \in Task /\ homenode[t] # NULL /\ (Tag(s) = MAX_NVPS => s \in Node)
  BY <1>1, AcceptedOK
<1>3. n \in Thread /\ n \notin Worker /\ Here(n) = n
  BY Threads
<1>4. homenode[t] = n /\ (s \in Node => AwaitedResults(t) = {})
  BY <1>2, Pairing DEF MessageOK
<1>5. /\ d.op = "collect" /\ d.task = t /\ d.left = AwaitedResults(t) /\ d.peer = Here(s)
      /\ d.tag = Tag(s) /\ d.inside = NULL
  BY ActIs
<1> HIDE DEF m, d
<1>6. ActivityOK(d, n, homenode) /\ HomeKept(homenode, homenode')
  BY <1>1, <1>2, <1>3, <1>4, <1>5, SameHome DEF ActivityOK
<1> QED
  BY <1>1, <1>3, <1>6, DoActivities

LEMMA RecvBcastActivities ==
  ASSUME Inv, NEW n \in Node, NEW s \in Thread, RecvBcast(n, s) PROVE Activities'
<1> DEFINE m == Received(s, n, MAX_NVPS)
           d == Act("buffer", NULL, {0}, Here(s), Tag(s), NULL)
<1>1. Accepts(n, s, "TORC_BCAST") /\ homenode' = homenode /\ Do(n, d)
  BY DEF RecvBcast, tasks
<1>2. MessageOK(m, s, n, homenode) /\ m.type = "TORC_BCAST" /\ Here(s) # n /\ (s \in Worker => Tag(s) < MAX_NVPS)
  BY <1>1, AcceptedOK
<1>3. n \in Thread /\ n \notin Worker /\ Here(n) = n /\ s \in Worker
  BY <1>2, Threads DEF MessageOK
<1>4. /\ d.op = "buffer" /\ d.task = NULL /\ d.peer = Here(s) /\ d.tag = Tag(s) /\ d.inside = NULL
  BY ActIs
<1> HIDE DEF m, d
<1>5. ActivityOK(d, n, homenode) /\ HomeKept(homenode, homenode')
  BY <1>1, <1>2, <1>3, <1>4, SameHome DEF ActivityOK
<1> QED
  BY <1>1, <1>3, <1>5, DoActivities

LEMMA ServeThiefActivities ==
  ASSUME Inv, NEW n \in Node, NEW s \in Thread, ServeThief(n, s) PROVE Activities'
<1> DEFINE h == Here(s)
<1>0. n \in Thread /\ n \notin Worker /\ s \in Worker /\ h # n /\ HomeKept(homenode, homenode') /\ homenode' = homenode
      /\ ReplyTag(s) >= 100
  BY ThiefFacts, Threads, SameHome, Tags
<1>1. PICK m \in Letter :
           \/ /\ m.task \in ready[n] /\ m.task \in Task
              /\ Do(n, IF homenode[m.task] = Here(s) THEN Idle
                       ELSE Settle(Act("send", m.task, SentArgs(m.task), Here(s), ReplyTag(s), NULL)))
           \/ doing' = doing
  BY ReplyFacts
<1>2. CASE doing' = doing
  BY <1>0, <1>2, SameActivities
<1>3. CASE /\ m.task \in ready[n] /\ m.task \in Task
           /\ Do(n, IF homenode[m.task] = h THEN Idle
                    ELSE Settle(Act("send", m.task, SentArgs(m.task), h, ReplyTag(s), NULL)))
  <2> DEFINE t == m.task
             d == Act("send", t, SentArgs(t), h, ReplyTag(s), NULL)
             e == Settle(d)
  <2>1. homenode[t] # NULL
    <3>1. At("ready", n, t)
      BY <1>3 DEF At
    <3> QED
      BY <1>3, <3>1 DEF Inv, Traffic, Apart
  <2>2. CASE homenode[t] = h
    BY <1>0, <1>3, <2>2, IdleOK, DoActivities
  <2>3. CASE homenode[t] # h
    <3>1. e \in {Idle, d}
      BY SettleFacts
    <3>2. d.op = "send" /\ d.task = t /\ d.peer = h /\ d.inside = NULL /\ d.tag = ReplyTag(s)
      BY ActIs
    <3>3. Do(n, e)
      BY <1>3, <2>3
    <3> HIDE DEF d, t, e, h
    <3>4. ActivityOK(d, n, homenode')
      BY <1>0, <2>1, <2>3, <3>2 DEF ActivityOK
    <3>5. ActivityOK(e, n, homenode')
      BY <3>1, <3>4, IdleOK
    <3> QED
      BY <1>0, <3>3, <3>5, DoActivities
  <2> QED
    BY <2>2, <2>3
<1> QED
  BY <1>1, <1>2, <1>3

\* A receiver with one argument less to wait for.
LEMMA LessActivities ==
  ASSUME Inv, NEW r \in Thread, doing[r].op \in {"receive", "collect"}, doing[r].left # {},
         Do(r, OneLess(r)), homenode' = homenode
  PROVE  Activities'
<1> DEFINE d == doing[r]
           e == OneLess(r)
<1>1. ActivityOK(d, r, homenode) /\ DoingType /\ HomeKept(homenode, homenode')
  BY ThreadFacts, SameHome
<1>2. /\ e.op = d.op /\ e.task = d.task /\ e.left = d.left \ {NextArg(r)} /\ e.peer = d.peer
      /\ e.tag = d.tag /\ e.inside = d.inside
  BY <1>1, OneLessIs
<1>3. (d.left = {}) = FALSE /\ d.op \in {"receive", "collect"} /\ Do(r, e)
  OBVIOUS
<1> HIDE DEF d, e
<1>4. ActivityOK(e, r, homenode')
  BY <1>1, <1>2, <1>3 DEF ActivityOK
<1> QED
  BY <1>1, <1>3, <1>4, DoActivities

LEMMA RecvArgumentActivities ==
  ASSUME Inv, NEW r \in Thread, NEW s \in Thread, RecvArgument(r, s) PROVE Activities'
<1>1. doing[r].op = "receive" /\ doing[r].left # {} /\ Do(r, OneLess(r)) /\ homenode' = homenode
  BY DEF RecvArgument, tasks
<1> QED
  BY <1>1, LessActivities

LEMMA CollectResultActivities ==
  ASSUME Inv, NEW n \in Node, NEW s \in Thread, CollectResult(n, s) PROVE Activities'
<1>1. doing[n].op = "collect" /\ doing[n].left # {} /\ Do(n, OneLess(n)) /\ homenode' = homenode
  BY DEF CollectResult, tasks
<1> QED
  BY <1>1, Threads, LessActivities

LEMMA HaveArgumentsActivities ==
  ASSUME Inv, NEW r \in Thread, HaveArguments(r) PROVE Activities'
<1> DEFINE t == doing[r].task
<1>1. doing[r].op = "receive" /\ HomeKept(homenode, homenode') /\ homenode' = homenode
  BY SameHome DEF HaveArguments
<1>2. t \in Task /\ homenode[t] # NULL /\ ActivityOK(doing[r], r, homenode)
  <2>1. Busy(doing[r], r) /\ ActivityOK(doing[r], r, homenode) /\ (t # NULL => homenode[t] # NULL)
    BY ThreadFacts
  <2> QED
    BY <1>1, <2>1, DistinctAssumption DEF Busy
<1>3. r \in Node => homenode[t] # r /\ target[t] = r
  BY <1>1, <1>2, Threads DEF ActivityOK
<1>4. \/ Do(r, Run(t)) /\ (r \in Worker \/ t \in Direct)
      \/ Do(r, Idle)
  BY DEF HaveArguments
<1>5. CASE Do(r, Run(t)) /\ (r \in Worker \/ t \in Direct)
  <2>1. ActivityOK(Run(t), r, homenode')
    BY <1>1, <1>2, <1>3, <1>5, RunOK, Threads
  <2> QED
    BY <1>1, <1>5, <2>1, DoActivities
<1>6. CASE Do(r, Idle)
  BY <1>1, <1>6, IdleOK, DoActivities
<1> QED
  BY <1>4, <1>5, <1>6

LEMMA HaveResultsActivities == ASSUME Inv, NEW n \in Node, HaveResults(n) PROVE Activities'
BY IdleOK, DoActivities, Threads, SameHome DEF HaveResults

LEMMA TakeReadyActivities ==
  ASSUME Inv, NEW w \in Worker, NEW t \in Task, TakeReady(w, t) PROVE Activities'
<1>1. t \in ready[Here(w)] /\ Do(w, Run(t)) /\ homenode' = homenode /\ HomeKept(homenode, homenode')
      /\ w \in Thread /\ w \notin Node /\ Here(w) \in Node
  BY Threads, SameHome DEF TakeReady
<1>2. homenode[t] # NULL
  <2>1. At("ready", Here(w), t)
    BY <1>1 DEF At
  <2> QED
    BY <2>1 DEF Inv, Traffic, Apart
<1>3. ActivityOK(Run(t), w, homenode')
  BY <1>1, <1>2, RunOK
<1> QED
  BY <1>1, <1>3, DoActivities

LEMMA FinishAtHomeActivities == ASSUME Inv, NEW s \in Thread, FinishAtHome(s) PROVE Activities'
BY IdleOK, DoActivities, SameHome DEF FinishAtHome

LEMMA FinishAwayActivities ==
  ASSUME Inv, QuietServers, NEW s \in Thread, FinishAway(s) PROVE Activities'
<1> DEFINE t == doing[s].task
           A == SentResults(t)
           d == Act("result", t, A, homenode[t], Tag(s), NULL)
           e == Settle(d)
<1>1. t \in Task /\ homenode[t] \in Node /\ homenode[t] # Here(s) /\ doing[s].op = "run"
  BY AwayFacts
<1>2. Do(s, e) /\ homenode' = homenode /\ HomeKept(homenode, homenode')
  BY SameHome DEF FinishAway, tasks
<1>3. s \in Node => A = {}
  BY <1>1, QuietFacts
<1>4. (A = {} => e = Idle) /\ (A # {} => e = d)
  BY SettleFacts
<1>5. d.op = "result" /\ d.task = t /\ d.peer = homenode[t] /\ d.inside = NULL
  BY ActIs
<1>6. homenode[t] # NULL /\ (s \in Worker \/ s \in Node)
  BY <1>1, DistinctAssumption, Threads
<1> HIDE DEF t, A, d, e
<1>7. ActivityOK(e, s, homenode')
  <2>1. CASE A = {}
    BY <1>4, <2>1, IdleOK
  <2>2. CASE A # {}
    <3>1. ActivityOK(d, s, homenode')
      BY <1>1, <1>2, <1>3, <1>5, <1>6, <2>2 DEF ActivityOK
    <3> QED
      BY <1>4, <2>2, <3>1
  <2> QED
    BY <2>1, <2>2
<1> QED
  BY <1>2, <1>7, DoActivities

\* A worker that goes on without a task.
LEMMA NoTaskActivities ==
  ASSUME Inv, NEW w \in Worker, NEW d, Do(w, d), d.task = NULL, d.inside = NULL, homenode' = homenode,
         d.op \in {"asked", "refused", "bcast", "ssend", "telling"}
  PROVE  Activities'
<1>1. ActivityOK(d, w, homenode')
  BY DEF ActivityOK
<1> QED
  BY <1>1, DoActivities, Threads, SameHome

LEMMA AskForWorkActivities == ASSUME Inv, NEW w \in Worker, AskForWork(w) PROVE Activities'
<1>1. PICK n : Do(w, Act("asked", NULL, {}, n, ReplyTag(w), NULL)) /\ homenode' = homenode
  BY DEF AskForWork, tasks
<1> QED
  BY <1>1, ActIs, NoTaskActivities

LEMMA GiveUpActivities == ASSUME Inv, NEW w \in Worker, GiveUp(w) PROVE Activities'
BY IdleOK, DoActivities, SameHome, Threads DEF GiveUp, tasks

\* An activity without a task that changes its name.
LEMMA OpActivities ==
  ASSUME Inv, NEW s \in Thread, doing[s].op \in {"asked", "bcast", "buffer"},
         NEW op \in {"refused", "ssend", "arriving"}
  PROVE  LET e == [doing[s] EXCEPT !.op = op]
         IN  /\ e.op = op /\ e.task = NULL /\ e.inside = NULL
             /\ \A home : ActivityOK(e, s, home)
<1> DEFINE e == [doing[s] EXCEPT !.op = op]
<1>1. Busy(doing[s], s) /\ doing[s] \in Activity
      /\ doing[s].task \in Task \cup {NULL}
  BY ThreadFacts
<1>2. e.op = op /\ e.task = doing[s].task /\ e.inside = doing[s].inside
  BY <1>1 DEF Activity
<1>3. doing[s].task = NULL /\ doing[s].inside = NULL
  BY <1>1 DEF Busy
<1> HIDE DEF e
<1>4. \A home : ActivityOK(e, s, home)
  BY <1>2, <1>3 DEF ActivityOK
<1> QED
  BY <1>2, <1>3, <1>4 DEF e

LEMMA OpChanges ==
  ASSUME Inv, NEW s \in Thread, doing[s].op \in {"asked", "bcast", "buffer"},
         NEW op \in {"refused", "ssend", "arriving"},
         Do(s, [doing[s] EXCEPT !.op = op]), homenode' = homenode
  PROVE  Activities'
<1>1. ActivityOK([doing[s] EXCEPT !.op = op], s, homenode')
  BY OpActivities
<1> QED
  BY <1>1, DoActivities, SameHome

LEMMA RefusedActivities == ASSUME Inv, NEW w \in Worker, Refused(w) PROVE Activities'
BY OpChanges, Threads DEF Refused, Answered, tasks

LEMMA SsendActivities == ASSUME Inv, NEW w \in Worker, Ssend(w) PROVE Activities'
BY OpChanges, Threads DEF Ssend, tasks

LEMMA MatchBufferActivities ==
  ASSUME Inv, NEW n \in Node, NEW s \in Thread, MatchBuffer(n, s) PROVE Activities'
BY OpChanges, Threads DEF MatchBuffer, tasks

LEMMA StolenActivities == ASSUME Inv, NEW w \in Worker, Stolen(w) PROVE Activities'
<1> DEFINE k == doing[w].peer
           m == Received(k, Here(w), ReplyTag(w))
           t == m.task
           a == Act("receive", t, AwaitedArgs(t), k, doing[w].tag, NULL)
<1>1. Answered(w, "stolen") /\ homenode' = homenode /\ HomeKept(homenode, homenode')
  BY SameHome DEF Stolen, tasks
<1>2. doing[w].tag = ReplyTag(w) /\ t \in Task /\ homenode[t] # NULL /\ k # Here(w) /\ w \in Thread /\ w \notin Node
  BY <1>1, AnswerFacts, Threads
<1>3. IF homenode[t] # Here(w) THEN Do(w, a) ELSE Do(w, Run(t))
  BY <1>2 DEF Stolen, Allocate
<1>4. CASE homenode[t] # Here(w)
  <2>1. a.op = "receive" /\ a.task = t /\ a.peer = k /\ a.inside = NULL
    BY ActIs
  <2>2. Do(w, a)
    BY <1>3, <1>4
  <2> HIDE DEF a, k, t, m
  <2>3. ActivityOK(a, w, homenode')
    BY <1>1, <1>2, <1>4, <2>1 DEF ActivityOK
  <2> QED
    BY <1>1, <1>2, <2>2, <2>3, DoActivities
<1>5. CASE homenode[t] = Here(w)
  <2>1. ActivityOK(Run(t), w, homenode')
    BY <1>1, <1>2, RunOK
  <2> QED
    BY <1>1, <1>2, <1>3, <1>5, <2>1, DoActivities
<1> QED
  BY <1>4, <1>5

LEMMA BroadcastActivities == ASSUME Inv, NEW w \in Worker, Broadcast(w) PROVE Activities'
<1>1. PICK n : Do(w, Act("bcast", NULL, {}, n, Tag(w), NULL)) /\ homenode' = homenode
  BY DEF Broadcast, tasks
<1> QED
  BY <1>1, ActIs, NoTaskActivities

LEMMA ToldActivities == ASSUME Inv, NEW w \in Worker, Told(w) PROVE Activities'
<1>1. \/ Do(w, Idle)
      \/ Do(w, Act("telling", NULL, {}, NULL, 0, NULL))
  BY DEF Told
<1>2. homenode' = homenode /\ w \in Thread /\ HomeKept(homenode, homenode')
  BY Threads, SameHome DEF Told, tasks
<1>3. CASE Do(w, Idle)
  BY <1>2, <1>3, IdleOK, DoActivities
<1>4. CASE Do(w, Act("telling", NULL, {}, NULL, 0, NULL))
  BY <1>2, <1>4, ActIs, NoTaskActivities
<1> QED
  BY <1>1, <1>3, <1>4

LEMMA BufferArrivesActivities == ASSUME Inv, NEW n \in Node, BufferArrives(n) PROVE Activities'
BY IdleOK, DoActivities, SameHome, Threads DEF BufferArrives, tasks

LEMMA EnterToReceiveActivities == ASSUME Inv, NEW s \in Thread, EnterToReceive(s) PROVE Activities'
BY SameActivities, SameHome DEF EnterToReceive, tasks

----------------------------------------------------------------------------
(* Requests for work and their replies after a step.                       *)

\* A message of a channel, if it is a request.
LEMMA RequestFacts ==
  ASSUME Inv, NEW x \in Thread, NEW y \in Node, NEW p \in DOMAIN chan[<<x, y>>],
         chan[<<x, y>>][p].type = "STEALING_REQUEST"
  PROVE  /\ x \in Worker /\ x \notin Node /\ doing[x].op = "asked" /\ doing[x].peer = y
         /\ p = Len(chan[<<x, y>>]) /\ Lane(chan[<<y, Here(x)>>], TRUE) = {}
         /\ Asks(doing[x], y) /\ Here(x) \in Node
<1>1. Request(x, y, p)
  <2>1. RequestsLast
    BY DEF Inv, Traffic, Asking
  <2> QED
    BY <2>1 DEF RequestsLast
<1> QED
  BY <1>1, Threads DEF Request, Asks

\* A reply on a channel, and the thief it is for.
LEMMA LaneReply ==
  ASSUME Inv, NEW k \in Node, NEW n \in Node, NEW p \in Lane(chan[<<k, n>>], TRUE)
  PROVE  /\ \E w \in Worker : /\ Here(w) = n /\ Asks(doing[w], k) /\ chan[<<k, n>>][p].tag = ReplyTag(w)
                              /\ chan[<<k, n>>][p].type # "data" => doing[w].op = "asked"
         /\ \A r \in Lane(chan[<<k, n>>], TRUE) :
              chan[<<k, n>>][p].type # "data" /\ chan[<<k, n>>][r].type # "data" => p = r
<1>1. Asked
  BY DEF Inv, Traffic, Asking
<1> QED
  BY <1>1 DEF Asked, Reply

LEMMA ServingFacts ==
  ASSUME Inv, NEW k \in Node, doing[k].op = "send"
  PROVE  /\ \E w \in Worker : Here(w) = doing[k].peer /\ Asks(doing[w], k) /\ doing[k].tag = ReplyTag(w)
         /\ doing[k].peer \in Node /\ doing[k].tag >= 100
         /\ Owes(doing[k], doing[k].peer, TRUE) # NoDue
<1>1. k \in Thread /\ Busy(doing[k], k) /\ ActivityOK(doing[k], k, homenode)
  BY Threads, ThreadFacts
<1>2. doing[k].left # {} /\ doing[k].peer \in Node /\ doing[k].tag >= 100
  BY <1>1 DEF Busy, ActivityOK
<1>3. Owes(doing[k], doing[k].peer, TRUE) # NoDue
  <2>1. (doing[k].tag >= 100) = TRUE
    BY <1>2
  <2>2. Owes(doing[k], doing[k].peer, TRUE) = DueOf(doing[k].task, doing[k].left)
    BY <2>1 DEF Owes
  <2>3. DueOf(doing[k].task, doing[k].left).left = doing[k].left
    BY <1>2 DEF DueOf
  <2>4. NoDue.left = {}
    BY DEF NoDue
  <2> QED
    BY <1>2, <2>2, <2>3, <2>4
<1> QED
  BY <1>2, <1>3 DEF Inv, Traffic, Asking, Serving

\* While a request is under way, the server it is for sends no replies.
LEMMA NoReplyYet ==
  ASSUME Inv, NEW x \in Worker, NEW y \in Node, Asks(doing[x], y), doing[x].op = "asked",
         Lane(chan[<<y, Here(x)>>], TRUE) = {}
  PROVE  ~ (doing[y].op = "send" /\ doing[y].peer = Here(x))
<1>1. x \in Thread /\ Here(x) \in Node
  BY Threads
<1>2. DueOf(doing[x].task, doing[x].left) = NoDue
  <2>1. Busy(doing[x], x)
    BY <1>1, ThreadFacts
  <2> QED
    BY <2>1 DEF Busy, DueOf
<1>3. ChainOf(chan[<<y, Here(x)>>], TRUE, NoDue, Owes(doing[y], Here(x), TRUE), Here(x), homenode)
  BY <1>1, <1>2 DEF Inv, Traffic, ReplyChain, ReplyAt
<1>4. Owes(doing[y], Here(x), TRUE) = NoDue
  BY <1>3 DEF ChainOf
<1> QED
  BY <1>4, ServingFacts

\* Which workers of a node wait for replies.
LEMMA AloneKept ==
  ASSUME Inv, NEW s \in Thread, \A x \in Thread : x # s => doing'[x] = doing[x],
         s \in Worker /\ doing'[s].op \in {"asked", "receive"} => doing[s].op \in {"asked", "receive"}
  PROVE  Alone'
<1>1. \A w \in Worker : w \in Thread
  BY Threads
<1>2. Alone
  BY DEF Inv, Traffic, Asking
<1>3. \A w \in Worker : doing'[w].op \in {"asked", "receive"} => doing[w].op \in {"asked", "receive"}
  BY <1>1
<1> QED
  BY <1>2, <1>3 DEF Alone

\* A thief goes on waiting for its server.
Waits(w) ==
  \A k \in Node : Asks(doing[w], k) =>
    Asks(doing'[w], k) /\ doing'[w].op = doing[w].op

LEMMA RequestKept ==
  ASSUME Inv, NEW x \in Thread, NEW y \in Node, NEW p \in DOMAIN chan[<<x, y>>],
         chan[<<x, y>>][p].type = "STEALING_REQUEST", Waits(x), chan'[<<x, y>>] = chan[<<x, y>>],
         Lane(chan'[<<y, Here(x)>>], TRUE) = {}
  PROVE  Request(x, y, p)'
<1>1. /\ x \in Worker /\ doing[x].op = "asked" /\ doing[x].peer = y /\ Asks(doing[x], y)
      /\ p = Len(chan[<<x, y>>])
  BY RequestFacts
<1>2. doing'[x].op = "asked" /\ doing'[x].peer = y
  BY <1>1 DEF Waits, Asks
<1> QED
  BY <1>1, <1>2 DEF Request

LEMMA ReplyStays ==
  ASSUME Inv, NEW k \in Node, NEW n \in Node, NEW p \in Lane(chan[<<k, n>>], TRUE),
         \A w \in Worker : Waits(w)
  PROVE  \E w \in Worker : /\ Here(w) = n /\ Asks(doing'[w], k)
                           /\ chan[<<k, n>>][p].tag = ReplyTag(w)
                           /\ chan[<<k, n>>][p].type # "data" => doing'[w].op = "asked"
<1>1. PICK w \in Worker : /\ Here(w) = n /\ Asks(doing[w], k)
                          /\ chan[<<k, n>>][p].tag = ReplyTag(w)
                          /\ chan[<<k, n>>][p].type # "data" => doing[w].op = "asked"
  BY LaneReply
<1>2. Asks(doing'[w], k) /\ doing'[w].op = doing[w].op
  BY <1>1 DEF Waits
<1> QED
  BY <1>1, <1>2

\* A server starts to answer only a thief, and the thief waits for it.
LEMMA ServingKept ==
  ASSUME Inv, \A w \in Worker : Waits(w),
         \A k \in Node : doing'[k].op = "send" =>
           doing[k].op = "send" /\ doing'[k].peer = doing[k].peer /\ doing'[k].tag = doing[k].tag
  PROVE  Serving'
<1>1. ASSUME NEW k \in Node, doing'[k].op = "send"
      PROVE  \E w \in Worker : Here(w) = doing'[k].peer /\ Asks(doing'[w], k) /\ doing'[k].tag = ReplyTag(w)
  <2>1. doing[k].op = "send" /\ doing'[k].peer = doing[k].peer /\ doing'[k].tag = doing[k].tag
    BY <1>1
  <2>2. PICK w \in Worker : Here(w) = doing[k].peer /\ Asks(doing[w], k) /\ doing[k].tag = ReplyTag(w)
    BY <2>1, ServingFacts
  <2>3. Asks(doing'[w], k)
    BY <2>2 DEF Waits
  <2> QED
    BY <2>1, <2>2, <2>3
<1> QED
  BY <1>1 DEF Serving

\* The reply at p belongs where it is after the step.
ReplyNext(k, n, p) ==
  /\ \E w \in Worker : /\ Here(w) = n /\ Asks(doing'[w], k)
                       /\ chan'[<<k, n>>][p].tag = ReplyTag(w)
                       /\ chan'[<<k, n>>][p].type # "data" => doing'[w].op = "asked"
  /\ \A r \in Lane(chan'[<<k, n>>], TRUE) :
       chan'[<<k, n>>][p].type # "data" /\ chan'[<<k, n>>][r].type # "data" => p = r

LEMMA AskedNext ==
  ASSUME \A k, n \in Node : \A p \in Lane(chan'[<<k, n>>], TRUE) : ReplyNext(k, n, p)
  PROVE  Asked'
BY DEF Asked, Reply, ReplyNext

LEMMA AskedKept ==
  ASSUME Inv, \A w \in Worker : Waits(w),
         \A k, n \in Node : /\ Lane(chan'[<<k, n>>], TRUE) = Lane(chan[<<k, n>>], TRUE)
                            /\ \A p \in Lane(chan[<<k, n>>], TRUE) : chan'[<<k, n>>][p] = chan[<<k, n>>][p]
  PROVE  Asked'
<1>1. ASSUME NEW k \in Node, NEW n \in Node, NEW p \in Lane(chan'[<<k, n>>], TRUE)
      PROVE  ReplyNext(k, n, p)
  <2>1. p \in Lane(chan[<<k, n>>], TRUE) /\ chan'[<<k, n>>][p] = chan[<<k, n>>][p]
    BY <1>1
  <2>2. \A r \in Lane(chan'[<<k, n>>], TRUE) : r \in Lane(chan[<<k, n>>], TRUE) /\ chan'[<<k, n>>][r] = chan[<<k, n>>][r]
    OBVIOUS
  <2>3. \E w \in Worker : /\ Here(w) = n /\ Asks(doing'[w], k)
                          /\ chan[<<k, n>>][p].tag = ReplyTag(w)
                          /\ chan[<<k, n>>][p].type # "data" => doing'[w].op = "asked"
    BY <2>1, ReplyStays
  <2>4. \A r \in Lane(chan[<<k, n>>], TRUE) :
          chan[<<k, n>>][p].type # "data" /\ chan[<<k, n>>][r].type # "data" => p = r
    BY <2>1, LaneReply
  <2> QED
    BY <2>1, <2>2, <2>3, <2>4 DEF ReplyNext
<1> QED
  BY <1>1, AskedNext

\* A thread that is no thief goes on without touching a channel.
LEMMA QuietAsking ==
  ASSUME Inv, NEW s \in Thread, chan' = chan, \A x \in Thread : x # s => doing'[x] = doing[x],
         s \in Worker => doing[s].op \notin {"asked", "receive"} /\ doing'[s].op \notin {"asked", "receive"},
         doing'[s].op # "send"
  PROVE  Asking'
<1>1. \A w \in Worker : Waits(w)
  BY Threads DEF Waits, Asks
<1>2. Alone'
  BY AloneKept
<1>3. Serving'
  BY <1>1, Threads, ServingKept
<1>4. RequestsLast'
  <2>1. ASSUME NEW x \in Thread, NEW y \in Node, NEW p \in DOMAIN chan[<<x, y>>],
               chan[<<x, y>>][p].type = "STEALING_REQUEST"
        PROVE  Request(x, y, p)'
    <3>1. x \in Worker /\ Lane(chan[<<y, Here(x)>>], TRUE) = {}
      BY <2>1, RequestFacts
    <3> QED
      BY <1>1, <2>1, <3>1, RequestKept
  <2> QED
    BY <2>1 DEF RequestsLast
<1>5. Asked'
  BY <1>1, AskedKept
<1> QED
  BY <1>2, <1>3, <1>4, <1>5 DEF Asking

\* A message that is no request goes out; a reply goes out in the course of
\* an answer.
LEMMA SendAsking ==
  ASSUME Inv, NEW s \in Thread, NEW n \in Node, NEW m, Send(s, n, m),
         \A x \in Thread : x # s => doing'[x] = doing[x],
         s \in Worker => doing[s].op \notin {"asked", "receive"} /\ doing'[s].op \notin {"asked", "receive"},
         m.type # "STEALING_REQUEST",
         m.tag >= 100 => /\ m.type = "data" /\ s \in Node /\ doing[s].op = "send"
                         /\ n = doing[s].peer /\ m.tag = doing[s].tag,
         s \in Node /\ doing'[s].op = "send" =>
           doing[s].op = "send" /\ doing'[s].peer = doing[s].peer /\ doing'[s].tag = doing[s].tag
  PROVE  Asking'
<1>0. ChanType
  BY DEF Inv, Types
<1>9. \A x \in Thread, y \in Node : ~ (x = s /\ y = n) => chan'[<<x, y>>] = chan[<<x, y>>]
  BY <1>0, SentFacts
<1>1. \A w \in Worker : Waits(w)
  BY Threads DEF Waits, Asks
<1>2. Alone'
  BY AloneKept
<1>3. Serving'
  BY <1>1, Threads, ServingKept
<1>4. RequestsLast'
  <2>1. ASSUME NEW x \in Thread, NEW y \in Node, NEW p \in DOMAIN chan'[<<x, y>>],
               chan'[<<x, y>>][p].type = "STEALING_REQUEST"
        PROVE  Request(x, y, p)'
    <3>1. p \in DOMAIN chan[<<x, y>>] /\ chan[<<x, y>>][p].type = "STEALING_REQUEST"
      BY <1>0, <2>1, SentOrOld
    <3>2. x \in Worker /\ doing[x].op = "asked" /\ Asks(doing[x], y) /\ Lane(chan[<<y, Here(x)>>], TRUE) = {}
          /\ Here(x) \in Node
      BY <2>1, <3>1, RequestFacts
    <3>3. x # s
      BY <3>2
    <3>4. chan'[<<x, y>>] = chan[<<x, y>>]
      BY <1>0, <3>3, SentFacts
    <3>5. Lane(chan'[<<y, Here(x)>>], TRUE) = {}
      <4>1. CASE y = s /\ n = Here(x)
        <5>1. ~ (m.tag >= 100)
          BY <3>2, <4>1, NoReplyYet
        <5>2. (m.tag >= 100) # TRUE
          BY <5>1
        <5>3. chan'[<<s, n>>] = Append(chan[<<s, n>>], m) /\ chan[<<s, n>>] \in Seq(Letter)
          BY <1>0, SentFacts
        <5>4. Lane(Append(chan[<<s, n>>], m), TRUE) = Lane(chan[<<s, n>>], TRUE)
          BY <5>2, <5>3, OtherLaneAppended
        <5> QED
          BY <3>2, <4>1, <5>3, <5>4
      <4>2. CASE ~ (y = s /\ n = Here(x))
        <5>1. y \in Thread /\ Here(x) \in Node
          BY <2>1, <3>2, Threads
        <5>2. chan'[<<y, Here(x)>>] = chan[<<y, Here(x)>>]
          BY <1>9, <4>2, <5>1
        <5> QED
          BY <3>2, <5>2
      <4> QED
        BY <4>1, <4>2
    <3> QED
      BY <1>1, <2>1, <3>1, <3>2, <3>4, <3>5, RequestKept
  <2> QED
    BY <2>1 DEF RequestsLast
<1>5. Asked'
  <2>1. ASSUME NEW k \in Node, NEW y \in Node, NEW p \in Lane(chan'[<<k, y>>], TRUE)
        PROVE  ReplyNext(k, y, p)
    <3>0. k \in Thread /\ p \in DOMAIN chan'[<<k, y>>] /\ chan'[<<k, y>>][p].tag >= 100
      BY <2>1, Threads DEF Lane
    <3>1. CASE p \in DOMAIN chan[<<k, y>>] /\ chan'[<<k, y>>][p] = chan[<<k, y>>][p]
      <4>1. p \in Lane(chan[<<k, y>>], TRUE)
        BY <3>0, <3>1 DEF Lane
      <4>2. \E w \in Worker : /\ Here(w) = y /\ Asks(doing'[w], k)
                              /\ chan[<<k, y>>][p].tag = ReplyTag(w)
                              /\ chan[<<k, y>>][p].type # "data" => doing'[w].op = "asked"
        BY <1>1, <2>1, <4>1, ReplyStays
      <4>4. \A r \in Lane(chan[<<k, y>>], TRUE) :
              chan[<<k, y>>][p].type # "data" /\ chan[<<k, y>>][r].type # "data" => p = r
        BY <2>1, <4>1, LaneReply
      <4>3. ASSUME NEW r \in Lane(chan'[<<k, y>>], TRUE), chan'[<<k, y>>][p].type # "data",
                   chan'[<<k, y>>][r].type # "data"
            PROVE  p = r
        <5>1. r \in DOMAIN chan'[<<k, y>>] /\ chan'[<<k, y>>][r].tag >= 100
          BY <4>3 DEF Lane
        <5>2. chan'[<<k, y>>][r] # m
          BY <4>3, <5>1
        <5>3. r \in DOMAIN chan[<<k, y>>] /\ chan'[<<k, y>>][r] = chan[<<k, y>>][r]
          BY <1>0, <2>1, <3>0, <5>1, <5>2, SentOrOld
        <5>4. r \in Lane(chan[<<k, y>>], TRUE)
          BY <5>1, <5>3 DEF Lane
        <5> QED
          BY <3>1, <4>3, <4>4, <5>3, <5>4
      <4> QED
        BY <3>1, <4>2, <4>3 DEF ReplyNext
    <3>2. CASE k = s /\ y = n /\ chan'[<<k, y>>][p] = m
      <4>1. m.type = "data" /\ doing[k].op = "send" /\ y = doing[k].peer /\ m.tag = doing[k].tag
        BY <3>0, <3>2
      <4>2. PICK w \in Worker : Here(w) = doing[k].peer /\ Asks(doing[w], k) /\ doing[k].tag = ReplyTag(w)
        BY <2>1, <4>1, ServingFacts
      <4>3. Asks(doing'[w], k)
        BY <1>1, <2>1, <4>2 DEF Waits
      <4> QED
        BY <3>2, <4>1, <4>2, <4>3 DEF ReplyNext
    <3> QED
      BY <1>0, <2>1, <3>0, <3>1, <3>2, SentOrOld
  <2> QED
    BY <2>1, AskedNext
<1> QED
  BY <1>2, <1>3, <1>4, <1>5 DEF Asking

LEMMA SameAsking == ASSUME Inv, chan' = chan, doing' = doing PROVE Asking'
<1>1. \A w \in Worker : Waits(w)
  BY DEF Waits
<1>2. Alone'
  BY DEF Inv, Traffic, Asking, Alone
<1>3. Serving'
  BY <1>1, Threads, ServingKept
<1>4. RequestsLast'
  <2>1. ASSUME NEW x \in Thread, NEW y \in Node, NEW p \in DOMAIN chan[<<x, y>>],
               chan[<<x, y>>][p].type = "STEALING_REQUEST"
        PROVE  Request(x, y, p)'
    <3>1. x \in Worker /\ Lane(chan[<<y, Here(x)>>], TRUE) = {}
      BY <2>1, RequestFacts
    <3> QED
      BY <1>1, <2>1, <3>1, RequestKept
  <2> QED
    BY <2>1 DEF RequestsLast
<1>5. Asked'
  BY <1>1, AskedKept
<1> QED
  BY <1>2, <1>3, <1>4, <1>5 DEF Asking

\* A thread that no message concerns goes on with d.
LEMMA DoAsking ==
  ASSUME Inv, NEW s \in Thread, NEW d, Do(s, d), chan' = chan,
         s \in Worker => doing[s].op \notin {"asked", "receive"} /\ d.op \notin {"asked", "receive"},
         d.op # "send"
  PROVE  Asking'
<1>1. doing'[s] = d /\ \A x \in Thread : x # s => doing'[x] = doing[x]
  BY ThreadFacts, DoFacts
<1> QED
  BY <1>1, QuietAsking

LEMMA EnterToReceiveAsking == ASSUME Inv, NEW s \in Thread, EnterToReceive(s) PROVE Asking'
BY SameAsking DEF EnterToReceive

LEMMA HaveResultsAsking == ASSUME Inv, NEW n \in Node, HaveResults(n) PROVE Asking'
BY DoAsking, Threads, IdleRun DEF HaveResults

LEMMA TakeReadyAsking ==
  ASSUME Inv, NEW w \in Worker, NEW t \in Task, TakeReady(w, t) PROVE Asking'
BY DoAsking, Threads, IdleRun DEF TakeReady

LEMMA FinishAtHomeAsking == ASSUME Inv, NEW s \in Thread, FinishAtHome(s) PROVE Asking'
BY DoAsking, IdleRun DEF FinishAtHome

LEMMA GiveUpAsking == ASSUME Inv, NEW w \in Worker, GiveUp(w) PROVE Asking'
BY DoAsking, Threads, IdleRun DEF GiveUp

LEMMA ToldAsking == ASSUME Inv, NEW w \in Worker, Told(w) PROVE Asking'
<1>1. w \in Thread /\ doing[w].op = "ssend" /\ chan' = chan
  BY Threads DEF Told, SsendDone
<1>2. CASE told' = Others(w)
  BY <1>1, <1>2, DoAsking, IdleRun DEF Told
<1>3. CASE told' # Others(w)
  <2>1. Do(w, Act("telling", NULL, {}, NULL, 0, NULL))
    BY <1>3 DEF Told
  <2> QED
    BY <1>1, <2>1, DoAsking, ActIs
<1> QED
  BY <1>2, <1>3

LEMMA BufferArrivesAsking == ASSUME Inv, NEW n \in Node, BufferArrives(n) PROVE Asking'
BY DoAsking, Threads, IdleRun DEF BufferArrives

LEMMA CreateAsking ==
  ASSUME Inv, QuietServers, NEW s \in Thread, NEW t \in Task, Create(s, t) PROVE Asking'
<1>1. Types /\ DoingType
  BY DEF Inv, Types
<1>2. doing[s].op \in {"idle", "run"} /\ target[t] \in Node
  BY <1>1, CallerIs, CreateHome
<1>3. CASE target[t] = Here(s)
  BY <1>3, SameAsking DEF Create
<1>4. CASE target[t] # Here(s)
  <2> DEFINE m == Descriptor(MAX_NVPS, "TORC_NORMAL_ENQUEUE", t)
  <2>1. Send(s, target[t], m)
        /\ Do(s, Settle(Act("send", t, SentArgs(t), target[t], Tag(s), doing[s].task)))
    BY <1>4 DEF Create
  <2>2. m.type = "TORC_NORMAL_ENQUEUE" /\ ~ (m.tag >= 100)
    BY Fields, Tags
  <2>3. /\ doing'[s] = Settle(Act("send", t, SentArgs(t), target[t], Tag(s), doing[s].task))
        /\ \A x \in Thread : x # s => doing'[x] = doing[x]
    BY <1>1, <2>1, DoFacts
  <2>4. doing'[s].op \in {"send", "idle", "run"}
    BY <2>3, SettleFacts
  <2>5. s \in Node => doing'[s].op # "send"
    <3>1. SUFFICES ASSUME s \in Node PROVE doing'[s].op # "send"
      OBVIOUS
    <3>2. SentArgs(t) = {}
      BY <1>4, <3>1, CreateSends
    <3>3. doing'[s] = IF doing[s].task = NULL THEN Idle ELSE Run(doing[s].task)
      BY <2>3, <3>2, SettleFacts
    <3> QED
      BY <3>3, IdleRun
  <2> HIDE DEF m
  <2> QED
    BY <1>2, <2>1, <2>2, <2>3, <2>4, <2>5, SendAsking
<1> QED
  BY <1>3, <1>4

LEMMA FinishAwayAsking ==
  ASSUME Inv, NEW s \in Thread, FinishAway(s) PROVE Asking'
<1>1. DoingType
  BY DEF Inv, Types
<1>2. doing[s].task \in Task /\ homenode[doing[s].task] \in Node /\ doing[s].op = "run"
  BY AwayFacts
<1> DEFINE m == Descriptor(MAX_NVPS, "TORC_ANSWER", doing[s].task)
           n == homenode[doing[s].task]
<1>3. Send(s, n, m)
      /\ Do(s, Settle(Act("result", doing[s].task, SentResults(doing[s].task), n, Tag(s), NULL)))
  BY DEF FinishAway
<1>4. m.type = "TORC_ANSWER" /\ ~ (m.tag >= 100)
  BY Fields, Tags
<1>5. /\ doing'[s] = Settle(Act("result", doing[s].task, SentResults(doing[s].task), n, Tag(s), NULL))
      /\ \A x \in Thread : x # s => doing'[x] = doing[x]
  BY <1>1, <1>3, DoFacts
<1>6. doing'[s].op \in {"result", "idle", "run"}
  BY <1>5, SettleFacts
<1> HIDE DEF m
<1> QED
  BY <1>2, <1>3, <1>4, <1>5, <1>6, SendAsking

\* The next argument or result goes out.
LEMMA DataAsking ==
  ASSUME Inv, NEW s \in Thread, doing[s].op \in {"send", "result"}, NEW v,
         Send(s, doing[s].peer, Data(doing[s].tag, doing[s].task, NextArg(s), v)),
         Do(s, Settle(OneLess(s)))
  PROVE  Asking'
<1>1. DoingType /\ Busy(doing[s], s) /\ ActivityOK(doing[s], s, homenode)
  BY ThreadFacts
<1>2. doing[s].peer \in Node /\ (doing[s].tag >= 100 => doing[s].op = "send" /\ s \in Node)
  <2>1. CASE doing[s].op = "send"
    BY <1>1, <2>1, Threads, Tags DEF Busy, ActivityOK
  <2>2. CASE doing[s].op = "result"
    <3>1. doing[s].task \in Task /\ doing[s].peer = homenode[doing[s].task] /\ homenode[doing[s].task] # NULL
          /\ s \in Worker /\ doing[s].tag = Tag(s)
      BY <1>1, <2>2, DistinctAssumption DEF Busy, ActivityOK
    <3> QED
      BY <3>1, Tags DEF Inv, Types, TaskType
  <2> QED
    BY <2>1, <2>2
<1> DEFINE m == Data(doing[s].tag, doing[s].task, NextArg(s), v)
<1>3. m.type = "data" /\ m.tag = doing[s].tag
  BY Fields
<1>4. /\ doing'[s] = Settle(OneLess(s))
      /\ \A x \in Thread : x # s => doing'[x] = doing[x]
  BY <1>1, DoFacts
<1> DEFINE e == Act(doing[s].op, doing[s].task, doing[s].left \ {NextArg(s)},
                    doing[s].peer, doing[s].tag, doing[s].inside)
<1>5. doing'[s] = Settle(e)
  BY <1>1, <1>4, OneLessFields
<1>6. /\ e.op = doing[s].op /\ e.peer = doing[s].peer /\ e.tag = doing[s].tag
  BY ActIs
<1>7. doing'[s] = e \/ doing'[s].op \in {"idle", "run"}
  <2>1. doing'[s] = e \/ doing'[s] = Idle \/ doing'[s] = Run(e.inside)
    BY <1>5 DEF Settle
  <2> QED
    BY <2>1, IdleRun
<1> HIDE DEF m, e
<1>8. Send(s, doing[s].peer, m)
  BY DEF m
<1> QED
  BY <1>2, <1>3, <1>4, <1>6, <1>7, <1>8, SendAsking

LEMMA SendArgumentAsking == ASSUME Inv, NEW s \in Thread, SendArgument(s) PROVE Asking'
BY DataAsking DEF SendArgument

LEMMA SendResultAsking == ASSUME Inv, NEW s \in Thread, SendResult(s) PROVE Asking'
BY DataAsking DEF SendResult

LEMMA BroadcastAsking == ASSUME Inv, NEW w \in Worker, Broadcast(w) PROVE Asking'
<1>1. DoingType /\ w \in Thread /\ w \notin Node
  BY Threads DEF Inv, Types
<1> DEFINE n == Min(Others(w) \ told)
           m == Descriptor(MAX_NVPS, "TORC_BCAST", NULL)
<1>2. n \in Node
  BY NextToTell DEF Broadcast
<1>3. Send(w, n, m) /\ Do(w, Act("bcast", NULL, {}, n, Tag(w), NULL)) /\ doing[w].op \in {"telling", "idle"}
  BY DEF Broadcast
<1>4. m.type = "TORC_BCAST" /\ ~ (m.tag >= 100)
  BY Fields, Tags
<1>5. doing'[w].op = "bcast" /\ \A x \in Thread : x # w => doing'[x] = doing[x]
  BY <1>1, <1>3, DoFacts, ActIs
<1> HIDE DEF m, n
<1> QED
  BY <1>1, <1>2, <1>3, <1>4, <1>5, SendAsking

LEMMA SsendAsking == ASSUME Inv, NEW w \in Worker, Ssend(w) PROVE Asking'
<1>1. DoingType /\ w \in Thread /\ w \notin Node
  BY Threads DEF Inv, Types
<1> DEFINE n == doing[w].peer
           m == Data(doing[w].tag, NULL, 0, buffer[Here(w)])
<1>2. Busy(doing[w], w) /\ doing[w].op = "bcast"
  BY <1>1, ThreadFacts DEF Ssend
<1>3. n \in Node /\ doing[w].tag = Tag(w)
  BY <1>2 DEF Busy
<1>4. Send(w, n, m) /\ Do(w, [doing[w] EXCEPT !.op = "ssend"])
  BY DEF Ssend
<1>5. m.type = "data" /\ ~ (m.tag >= 100)
  BY <1>3, Fields, Tags
<1>6. doing'[w] = [doing[w] EXCEPT !.op = "ssend"] /\ \A x \in Thread : x # w => doing'[x] = doing[x]
  BY <1>1, <1>4, DoFacts
<1>7. doing'[w].op = "ssend"
  BY <1>1, <1>2, <1>6, OpActivities
<1> HIDE DEF m, n
<1> QED
  BY <1>1, <1>2, <1>3, <1>4, <1>5, <1>6, <1>7, SendAsking

\* A worker whose request has not been answered goes on waiting.
StillAsks(x) ==
  \A y \in Node : doing[x].op = "asked" /\ doing[x].peer = y /\ Lane(chan[<<y, Here(x)>>], TRUE) = {} =>
    doing'[x].op = "asked" /\ doing'[x].peer = y

LEMMA WaitsAsks == ASSUME NEW x \in Worker, Waits(x) PROVE StillAsks(x)
BY DEF Waits, StillAsks, Asks

LEMMA QuietRequests ==
  ASSUME Inv, chan' = chan, \A x \in Worker : StillAsks(x) PROVE RequestsLast'
<1>1. ASSUME NEW x \in Thread, NEW y \in Node, NEW p \in DOMAIN chan[<<x, y>>],
             chan[<<x, y>>][p].type = "STEALING_REQUEST"
      PROVE  Request(x, y, p)'
  <2>1. /\ x \in Worker /\ doing[x].op = "asked" /\ doing[x].peer = y
        /\ p = Len(chan[<<x, y>>]) /\ Lane(chan[<<y, Here(x)>>], TRUE) = {}
    BY <1>1, RequestFacts
  <2>2. doing'[x].op = "asked" /\ doing'[x].peer = y
    BY <1>1, <2>1 DEF StillAsks
  <2> QED
    BY <2>1, <2>2 DEF Request
<1> QED
  BY <1>1 DEF RequestsLast

LEMMA TakenRequests ==
  ASSUME Inv, NEW s \in Thread, NEW n \in Node, NEW tag, Receive(s, n, tag), \A x \in Worker : StillAsks(x)
  PROVE  RequestsLast'
<1>0. ChanType
  BY DEF Inv, Types
<1> DEFINE f == First(s, n, tag)
           q == chan[<<s, n>>]
<1>1. /\ q \in Seq(Letter) /\ f \in DOMAIN q /\ chan'[<<s, n>>] = RemoveAt(q, f)
      /\ \A x \in Thread, y \in Node : ~ (x = s /\ y = n) => chan'[<<x, y>>] = chan[<<x, y>>]
  BY <1>0, TakenFacts
<1> HIDE DEF f, q
<1>2. /\ Len(RemoveAt(q, f)) = Len(q) - 1 /\ DOMAIN RemoveAt(q, f) = 1 .. Len(q) - 1
      /\ \A p \in DOMAIN RemoveAt(q, f) :
           Shift(f, p) \in DOMAIN q \ {f} /\ RemoveAt(q, f)[p] = q[Shift(f, p)]
      /\ Len(q) \in Nat
  BY <1>1, RemoveFacts
<1>3. ASSUME NEW x \in Thread, NEW y \in Node, NEW p \in DOMAIN chan'[<<x, y>>],
             chan'[<<x, y>>][p].type = "STEALING_REQUEST"
      PROVE  Request(x, y, p)'
  <2>1. PICK r \in DOMAIN chan[<<x, y>>] :
          /\ chan'[<<x, y>>][p] = chan[<<x, y>>][r]
          /\ r = Len(chan[<<x, y>>]) => p = Len(chan'[<<x, y>>])
    <3>1. CASE x = s /\ y = n
      <4>1. p \in 1 .. Len(q) - 1
        BY <1>1, <1>2, <1>3, <3>1
      <4>2. Shift(f, p) \in DOMAIN q /\ RemoveAt(q, f)[p] = q[Shift(f, p)]
        BY <1>1, <1>2, <1>3, <3>1
      <4>3. Shift(f, p) = Len(q) => p = Len(q) - 1
        BY <1>2, <4>1 DEF Shift
      <4> QED
        BY <1>1, <1>2, <3>1, <4>2, <4>3 DEF q
    <3>2. CASE ~ (x = s /\ y = n)
      BY <1>1, <1>3, <3>2
    <3> QED
      BY <3>1, <3>2
  <2>2. /\ x \in Worker /\ doing[x].op = "asked" /\ doing[x].peer = y /\ Here(x) \in Node
        /\ r = Len(chan[<<x, y>>]) /\ Lane(chan[<<y, Here(x)>>], TRUE) = {}
    BY <1>3, <2>1, RequestFacts
  <2>3. doing'[x].op = "asked" /\ doing'[x].peer = y
    BY <1>3, <2>2 DEF StillAsks
  <2>4. Lane(chan'[<<y, Here(x)>>], TRUE) = {}
    <3>1. CASE y = s /\ n = Here(x)
      <4>1. Lane(q, TRUE) \subseteq {f}
        BY <2>2, <3>1 DEF q
      <4>2. Lane(RemoveAt(q, f), TRUE) = {}
        BY <1>1, <4>1, LaneTaken
      <4> QED
        BY <1>1, <3>1, <4>2
    <3>2. CASE ~ (y = s /\ Here(x) = n)
      <4>1. y \in Thread
        BY <1>3, Threads
      <4> QED
        BY <1>1, <2>2, <3>2, <4>1
    <3> QED
      BY <3>1, <3>2
  <2> QED
    BY <2>1, <2>2, <2>3, <2>4 DEF Request
<1> QED
  BY <1>3 DEF RequestsLast

\* Replies that are left on a channel when a message is taken.
Remains(s, n, tag, k, y, p) ==
  /\ \E r \in Lane(chan[<<k, y>>], TRUE) :
       /\ chan'[<<k, y>>][p] = chan[<<k, y>>][r]
       /\ k = s /\ y = n => r # First(s, n, tag)
  /\ \A u \in Lane(chan'[<<k, y>>], TRUE) :
       chan'[<<k, y>>][p].type # "data" /\ chan'[<<k, y>>][u].type # "data" => p = u

LEMMA TakenReplies ==
  ASSUME Inv, NEW s \in Thread, NEW n \in Node, NEW tag, Receive(s, n, tag),
         NEW k \in Node, NEW y \in Node, NEW p \in Lane(chan'[<<k, y>>], TRUE)
  PROVE  Remains(s, n, tag, k, y, p)
<1>0. ChanType /\ k \in Thread
  BY Threads DEF Inv, Types
<1>1. CASE k = s /\ y = n
  <2> DEFINE f == First(s, n, tag)
             q == chan[<<s, n>>]
  <2>1. q \in Seq(Letter) /\ f \in DOMAIN q /\ chan'[<<s, n>>] = RemoveAt(q, f)
    BY <1>0, TakenFacts
  <2> HIDE DEF f, q
  <2>2. \A u \in Lane(RemoveAt(q, f), TRUE) :
          \E r \in Lane(q, TRUE) : r # f /\ r = Shift(f, u) /\ RemoveAt(q, f)[u] = q[r]
    BY <2>1, LaneTaken
  <2>3. PICK r \in Lane(q, TRUE) : r # f /\ r = Shift(f, p) /\ RemoveAt(q, f)[p] = q[r]
    BY <1>1, <2>1, <2>2
  <2>4. \A u \in Lane(q, TRUE) : q[r].type # "data" /\ q[u].type # "data" => r = u
    BY <1>1, <2>3, LaneReply DEF q
  <2>5. ASSUME NEW u \in Lane(RemoveAt(q, f), TRUE), RemoveAt(q, f)[p].type # "data",
               RemoveAt(q, f)[u].type # "data"
        PROVE  p = u
    <3>1. PICK v \in Lane(q, TRUE) : v # f /\ v = Shift(f, u) /\ RemoveAt(q, f)[u] = q[v]
      BY <2>2, <2>5
    <3>2. Shift(f, p) = Shift(f, u)
      BY <2>3, <2>4, <2>5, <3>1
    <3>3. p \in DOMAIN RemoveAt(q, f) /\ u \in DOMAIN RemoveAt(q, f)
      BY <1>1, <2>1, <2>5 DEF Lane
    <3>4. p \in Nat /\ u \in Nat /\ f \in Nat
      <4>1. DOMAIN RemoveAt(q, f) = 1 .. Len(q) - 1
        BY <2>1, RemoveFacts
      <4>2. DOMAIN q = 1 .. Len(q) /\ Len(q) \in Nat
        BY <2>1
      <4>3. f \in Nat
        BY <2>1, <4>2
      <4> QED
        BY <3>3, <4>1, <4>2, <4>3
    <3>5. CASE p < f
      BY <3>2, <3>4, <3>5 DEF Shift
    <3>6. CASE ~ (p < f)
      BY <3>2, <3>4, <3>6 DEF Shift
    <3> QED
      BY <3>5, <3>6
  <2> QED
    BY <1>1, <2>1, <2>3, <2>5 DEF f, q, Remains
<1>2. CASE ~ (k = s /\ y = n)
  <2>1. chan'[<<k, y>>] = chan[<<k, y>>]
    BY <1>0, <1>2, TakenFacts
  <2>2. p \in Lane(chan[<<k, y>>], TRUE)
    BY <2>1
  <2>3. \A u \in Lane(chan[<<k, y>>], TRUE) :
          chan[<<k, y>>][p].type # "data" /\ chan[<<k, y>>][u].type # "data" => p = u
    BY <2>2, LaneReply
  <2> QED
    BY <1>2, <2>1, <2>2, <2>3 DEF Remains
<1> QED
  BY <1>1, <1>2

\* A receive after which every thief goes on waiting.
LEMMA TakeAsking ==
  ASSUME Inv, NEW s \in Thread, NEW n \in Node, NEW tag, Receive(s, n, tag),
         NEW r \in Thread, \A x \in Thread : x # r => doing'[x] = doing[x],
         \A w \in Worker : Waits(w),
         r \in Worker /\ doing'[r].op \in {"asked", "receive"} => doing[r].op \in {"asked", "receive"},
         doing'[r].op # "send"
  PROVE  Asking'
<1>1. Alone'
  BY AloneKept
<1>2. Serving'
  BY Threads, ServingKept
<1>3. RequestsLast'
  BY WaitsAsks, TakenRequests
<1>4. Asked'
  <2>1. ASSUME NEW k \in Node, NEW y \in Node, NEW p \in Lane(chan'[<<k, y>>], TRUE)
        PROVE  ReplyNext(k, y, p)
    <3>0. Remains(s, n, tag, k, y, p)
      BY <2>1, TakenReplies
    <3>1. PICK u \in Lane(chan[<<k, y>>], TRUE) : chan'[<<k, y>>][p] = chan[<<k, y>>][u]
      BY <3>0 DEF Remains
    <3>2. \E w \in Worker : /\ Here(w) = y /\ Asks(doing'[w], k)
                            /\ chan[<<k, y>>][u].tag = ReplyTag(w)
                            /\ chan[<<k, y>>][u].type # "data" => doing'[w].op = "asked"
      BY <2>1, <3>1, ReplyStays
    <3>3. \A v \in Lane(chan'[<<k, y>>], TRUE) :
            chan'[<<k, y>>][p].type # "data" /\ chan'[<<k, y>>][v].type # "data" => p = v
      BY <3>0 DEF Remains
    <3> QED
      BY <3>1, <3>2, <3>3 DEF ReplyNext
  <2> QED
    BY <2>1, AskedNext
<1> QED
  BY <1>1, <1>2, <1>3, <1>4 DEF Asking

LEMMA AcceptAsking ==
  ASSUME Inv, NEW n \in Node, NEW s \in Thread, NEW type, Accepts(n, s, type), Receive(s, n, MAX_NVPS),
         NEW op \in {"receive", "collect", "buffer"}, NEW t, NEW A,
         Do(n, Act(op, t, A, Here(s), Tag(s), NULL))
  PROVE  Asking'
<1>1. n \in Thread /\ n \notin Worker /\ DoingType
  BY Threads DEF Inv, Types
<1>2. doing'[n].op = op /\ \A x \in Thread : x # n => doing'[x] = doing[x]
  BY <1>1, DoFacts, ActIs
<1>3. \A w \in Worker : Waits(w)
  BY <1>1, <1>2, Threads DEF Waits
<1>4. doing'[n].op # "send"
  BY <1>2
<1> QED
  BY <1>1, <1>2, <1>3, <1>4, TakeAsking

LEMMA RecvWorkAsking == ASSUME Inv, NEW n \in Node, NEW s \in Thread, RecvWork(n, s) PROVE Asking'
BY AcceptAsking DEF RecvWork, Allocate

LEMMA RecvAnswerAsking == ASSUME Inv, NEW n \in Node, NEW s \in Thread, RecvAnswer(n, s) PROVE Asking'
BY AcceptAsking DEF RecvAnswer

LEMMA RecvBcastAsking == ASSUME Inv, NEW n \in Node, NEW s \in Thread, RecvBcast(n, s) PROVE Asking'
BY AcceptAsking DEF RecvBcast

LEMMA LessAsking ==
  ASSUME Inv, NEW r \in Thread, NEW s \in Thread, doing[r].op \in {"receive", "collect"},
         Matches(r, s), Do(r, OneLess(r))
  PROVE  Asking'
<1>1. DoingType /\ Types
  BY DEF Inv, Types
<1>2. doing'[r] = OneLess(r) /\ \A x \in Thread : x # r => doing'[x] = doing[x]
  BY <1>1, DoFacts
<1>3. doing'[r].op = doing[r].op /\ doing'[r].peer = doing[r].peer
  BY <1>1, <1>2, OneLessIs
<1>4. \A w \in Worker : Waits(w)
  BY <1>2, <1>3, Threads DEF Waits, Asks
<1>5. Receive(s, Here(r), doing[r].tag) /\ Here(r) \in Node
  BY <1>1, MatchesFacts
<1> QED
  BY <1>2, <1>3, <1>4, <1>5, TakeAsking

LEMMA RecvArgumentAsking ==
  ASSUME Inv, NEW r \in Thread, NEW s \in Thread, RecvArgument(r, s) PROVE Asking'
BY LessAsking DEF RecvArgument

LEMMA CollectResultAsking ==
  ASSUME Inv, NEW n \in Node, NEW s \in Thread, CollectResult(n, s) PROVE Asking'
BY LessAsking, Threads DEF CollectResult

LEMMA MatchBufferAsking ==
  ASSUME Inv, NEW n \in Node, NEW s \in Thread, MatchBuffer(n, s) PROVE Asking'
<1>1. n \in Thread /\ n \notin Worker /\ DoingType /\ Types /\ Here(n) = n
  BY Threads DEF Inv, Types
<1>2. doing'[n] = [doing[n] EXCEPT !.op = "arriving"] /\ \A x \in Thread : x # n => doing'[x] = doing[x]
  BY <1>1, DoFacts DEF MatchBuffer
<1>3. doing'[n].op = "arriving"
  BY <1>1, <1>2, OpActivities DEF MatchBuffer
<1>4. \A w \in Worker : Waits(w)
  BY <1>1, <1>2, Threads DEF Waits
<1>5. Receive(s, n, doing[n].tag)
  BY <1>1, MatchesFacts DEF MatchBuffer
<1> QED
  BY <1>1, <1>2, <1>3, <1>4, <1>5, TakeAsking

\* The thief w of server k waits no longer.
LEMMA LeaveAsking ==
  ASSUME Inv, ReplyChain', NEW w \in Worker, NEW k \in Node, Asks(doing[w], k),
         \A x \in Thread : x # w => doing'[x] = doing[x],
         doing'[w].op \notin {"asked", "receive", "send"},
         \/ chan' = chan /\ doing[w].op = "receive"
         \/ Receive(k, Here(w), ReplyTag(w))
  PROVE  Asking'
<1>0. w \in Thread /\ Here(w) \in Node /\ k \in Thread /\ k # w /\ ChanType
  BY Threads DEF Inv, Types
<1>1. Alone'
  BY <1>0, AloneKept
<1>2. \A v \in Worker : Here(v) = Here(w) => ~ Asks(doing'[v], k)
  <2>1. SUFFICES ASSUME NEW v \in Worker, Here(v) = Here(w), Asks(doing'[v], k) PROVE FALSE
    OBVIOUS
  <2>2. v # w
    BY <2>1 DEF Asks
  <2>3. doing[v].op \in {"asked", "receive"} /\ doing[w].op \in {"asked", "receive"}
    BY <2>1, <2>2, Threads DEF Asks
  <2> QED
    BY <2>1, <2>2, <2>3 DEF Inv, Traffic, Asking, Alone
<1>3. Lane(chan'[<<k, Here(w)>>], TRUE) = {} /\ Owes(doing'[k], Here(w), TRUE) = NoDue
  <2>1. ReplyAt(k, Here(w))'
    BY <1>0 DEF ReplyChain
  <2> QED
    BY <1>2, <2>1 DEF ReplyAt
<1>4. \A y \in Node : Asks(doing[w], y) => y = k
  BY DEF Asks
<1>5. Serving'
  <2>1. ASSUME NEW y \in Node, doing'[y].op = "send"
        PROVE  \E v \in Worker : Here(v) = doing'[y].peer /\ Asks(doing'[v], y) /\ doing'[y].tag = ReplyTag(v)
    <3>1. doing'[y] = doing[y]
      BY <2>1, Threads
    <3>2. PICK v \in Worker : Here(v) = doing[y].peer /\ Asks(doing[v], y) /\ doing[y].tag = ReplyTag(v)
      BY <2>1, <3>1, ServingFacts
    <3>3. Owes(doing[y], doing[y].peer, TRUE) # NoDue
      BY <2>1, <3>1, ServingFacts
    <3>4. v # w
      BY <1>3, <1>4, <2>1, <3>1, <3>2, <3>3
    <3> QED
      BY <3>1, <3>2, <3>4, Threads
  <2> QED
    BY <2>1 DEF Serving
<1>6. \A x \in Worker : StillAsks(x)
  <2>1. ASSUME NEW x \in Worker, x # w PROVE StillAsks(x)
    BY <2>1, Threads DEF StillAsks
  <2>2. StillAsks(w)
    <3>1. CASE doing[w].op = "receive"
      BY <3>1 DEF StillAsks
    <3>2. CASE doing[w].op # "receive"
      <4>1. Receive(k, Here(w), ReplyTag(w))
        BY <3>2
      <4>2. First(k, Here(w), ReplyTag(w)) \in Lane(chan[<<k, Here(w)>>], TRUE)
        BY <4>1, FirstReply
      <4> QED
        BY <1>4, <4>2 DEF StillAsks, Asks
    <3> QED
      BY <3>1, <3>2
  <2> QED
    BY <2>1, <2>2
<1>7. RequestsLast'
  BY <1>0, <1>6, QuietRequests, TakenRequests
<1>8. Asked'
  <2>1. ASSUME NEW j \in Node, NEW y \in Node, NEW p \in Lane(chan'[<<j, y>>], TRUE)
        PROVE  ReplyNext(j, y, p)
    <3>1. ~ (j = k /\ y = Here(w)) /\ j \in Thread
      BY <1>3, <2>1, Threads
    <3>2. chan'[<<j, y>>] = chan[<<j, y>>]
      <4>1. CASE chan' = chan
        BY <4>1
      <4>2. CASE Receive(k, Here(w), ReplyTag(w))
        <5>1. \A x \in Thread, v \in Node : ~ (x = k /\ v = Here(w)) => chan'[<<x, v>>] = chan[<<x, v>>]
          BY <1>0, <4>2, TakenFacts
        <5> QED
          BY <2>1, <3>1, <5>1
      <4> QED
        BY <4>1, <4>2
    <3>3. p \in Lane(chan[<<j, y>>], TRUE)
      BY <2>1, <3>2
    <3>4. PICK v \in Worker : /\ Here(v) = y /\ Asks(doing[v], j)
                              /\ chan[<<j, y>>][p].tag = ReplyTag(v)
                              /\ chan[<<j, y>>][p].type # "data" => doing[v].op = "asked"
      BY <2>1, <3>3, LaneReply
    <3>5. v # w
      BY <1>4, <2>1, <3>1, <3>4
    <3>6. doing'[v] = doing[v]
      BY <3>5, Threads
    <3>7. \A u \in Lane(chan[<<j, y>>], TRUE) :
            chan[<<j, y>>][p].type # "data" /\ chan[<<j, y>>][u].type # "data" => p = u
      BY <2>1, <3>3, LaneReply
    <3> QED
      BY <3>2, <3>4, <3>6, <3>7 DEF ReplyNext
  <2> QED
    BY <2>1, AskedNext
<1> QED
  BY <1>1, <1>5, <1>7, <1>8 DEF Asking

\* The thief w of server k goes on to wait for arguments.
LEMMA GoOnAsking ==
  ASSUME Inv, NEW w \in Worker, NEW k \in Node, Asks(doing[w], k),
         Receive(k, Here(w), ReplyTag(w)), Received(k, Here(w), ReplyTag(w)).type # "data",
         \A x \in Thread : x # w => doing'[x] = doing[x],
         doing'[w].op = "receive", doing'[w].peer = k
  PROVE  Asking'
<1>0. w \in Thread /\ Here(w) \in Node /\ k \in Thread /\ k # w /\ ChanType
  BY Threads DEF Inv, Types
<1>1. Alone'
  BY <1>0, AloneKept DEF Asks
<1>4. \A y \in Node : Asks(doing[w], y) => y = k
  BY DEF Asks
<1>5. Asks(doing'[w], k)
  BY DEF Asks
<1>6. \A v \in Worker, y \in Node : Asks(doing[v], y) => Asks(doing'[v], y)
  BY <1>4, <1>5, Threads
<1>7. Serving'
  <2>1. ASSUME NEW y \in Node, doing'[y].op = "send"
        PROVE  \E v \in Worker : Here(v) = doing'[y].peer /\ Asks(doing'[v], y) /\ doing'[y].tag = ReplyTag(v)
    <3>1. doing'[y] = doing[y]
      BY <2>1, Threads
    <3>2. PICK v \in Worker : Here(v) = doing[y].peer /\ Asks(doing[v], y) /\ doing[y].tag = ReplyTag(v)
      BY <2>1, <3>1, ServingFacts
    <3> QED
      BY <1>6, <2>1, <3>1, <3>2
  <2> QED
    BY <2>1 DEF Serving
<1>8. \A x \in Worker : StillAsks(x)
  <2>1. ASSUME NEW x \in Worker, x # w PROVE StillAsks(x)
    BY <2>1, Threads DEF StillAsks
  <2>2. StillAsks(w)
    <3>1. First(k, Here(w), ReplyTag(w)) \in Lane(chan[<<k, Here(w)>>], TRUE)
      BY FirstReply
    <3> QED
      BY <1>4, <3>1 DEF StillAsks, Asks
  <2> QED
    BY <2>1, <2>2
<1>9. RequestsLast'
  BY <1>0, <1>8, TakenRequests
<1> DEFINE f == First(k, Here(w), ReplyTag(w))
<1>10. f \in Lane(chan[<<k, Here(w)>>], TRUE) /\ chan[<<k, Here(w)>>][f].type # "data"
  BY FirstReply DEF Received
<1>11. \A u \in Lane(chan[<<k, Here(w)>>], TRUE) : chan[<<k, Here(w)>>][u].type # "data" => u = f
  <2> HIDE DEF f
  <2>1. \A u \in Lane(chan[<<k, Here(w)>>], TRUE) :
          chan[<<k, Here(w)>>][f].type # "data" /\ chan[<<k, Here(w)>>][u].type # "data" => f = u
    BY <1>0, <1>10, LaneReply
  <2> QED
    BY <1>10, <2>1
<1>14. \A j, y \in Node : \A u \in Lane(chan[<<j, y>>], TRUE) : Reply(chan[<<j, y>>][u], j, y)
  BY DEF Inv, Traffic, Asking, Asked
<1>12. Asked'
  <2>1. ASSUME NEW j \in Node, NEW y \in Node, NEW p \in Lane(chan'[<<j, y>>], TRUE)
        PROVE  ReplyNext(j, y, p)
    <3>0. Remains(k, Here(w), ReplyTag(w), j, y, p)
      BY <1>0, <2>1, TakenReplies
    <3>1. PICK u \in Lane(chan[<<j, y>>], TRUE) :
                /\ chan'[<<j, y>>][p] = chan[<<j, y>>][u]
                /\ j = k /\ y = Here(w) => u # First(k, Here(w), ReplyTag(w))
      BY <3>0 DEF Remains
    <3>8. Reply(chan[<<j, y>>][u], j, y)
      BY <1>14, <2>1, <3>1
    <3>2. PICK v \in Worker : /\ Here(v) = y /\ Asks(doing[v], j)
                              /\ chan[<<j, y>>][u].tag = ReplyTag(v)
                              /\ chan[<<j, y>>][u].type # "data" => doing[v].op = "asked"
      BY <3>8 DEF Reply
    <3>3. Asks(doing'[v], j)
      BY <1>6, <2>1, <3>2
    <3>4. chan[<<j, y>>][u].type # "data" => doing'[v].op = "asked"
      <4>1. CASE v = w
        <5>1. j = k /\ y = Here(w)
          BY <1>4, <2>1, <3>2, <4>1
        <5> QED
          BY <1>11, <3>1, <5>1
      <4>2. CASE v # w
        BY <3>2, <4>2, Threads
      <4> QED
        BY <4>1, <4>2
    <3>5. \A v2 \in Lane(chan'[<<j, y>>], TRUE) :
            chan'[<<j, y>>][p].type # "data" /\ chan'[<<j, y>>][v2].type # "data" => p = v2
      BY <3>0 DEF Remains
    <3> QED
      BY <3>1, <3>2, <3>3, <3>4, <3>5 DEF ReplyNext
  <2> QED
    BY <2>1, AskedNext
<1> QED
  BY <1>1, <1>7, <1>9, <1>12 DEF Asking

LEMMA StolenAsking == ASSUME Inv, NEW w \in Worker, Stolen(w) PROVE Asking'
<1> DEFINE k == doing[w].peer
           m == Received(k, Here(w), ReplyTag(w))
<1>1. Answered(w, "stolen") /\ w \in Thread /\ DoingType /\ Types
  BY Threads DEF Stolen, Inv, Types
<1>2. /\ k \in Node /\ Asks(doing[w], k) /\ doing[w].tag = ReplyTag(w)
      /\ Receive(k, Here(w), ReplyTag(w)) /\ m.type = "stolen" /\ m.task \in Task
  BY <1>1, AnswerFacts
<1>3. CASE homenode[m.task] # Here(w)
  <2>1. Allocate(w, m.task, k, ReplyTag(w))
    BY <1>2, <1>3 DEF Stolen
  <2>2. doing'[w].op = "receive" /\ doing'[w].peer = k /\ \A x \in Thread : x # w => doing'[x] = doing[x]
    BY <1>1, <2>1, DoFacts, ActIs DEF Allocate
  <2>3. m.type # "data"
    BY <1>2
  <2> QED
    BY <1>2, <2>2, <2>3, GoOnAsking
<1>4. CASE ~ (homenode[m.task] # Here(w))
  <2>1. Do(w, Run(m.task))
    BY <1>2, <1>4 DEF Stolen
  <2>2. doing'[w].op = "run" /\ \A x \in Thread : x # w => doing'[x] = doing[x]
    BY <1>1, <2>1, DoFacts, IdleRun
  <2>3. ReplyChain'
    BY StolenChains
  <2> QED
    BY <1>2, <2>2, <2>3, LeaveAsking
<1> QED
  BY <1>3, <1>4

LEMMA RefusedAsking == ASSUME Inv, NEW w \in Worker, Refused(w) PROVE Asking'
<1> DEFINE k == doing[w].peer
<1>1. Answered(w, "TORC_NO_WORK") /\ w \in Thread /\ DoingType /\ doing[w].op = "asked"
  BY Threads DEF Refused, Answered, Inv, Types
<1>2. /\ k \in Node /\ Asks(doing[w], k) /\ Receive(k, Here(w), ReplyTag(w))
  BY <1>1, AnswerFacts
<1>3. doing'[w] = [doing[w] EXCEPT !.op = "refused"] /\ \A x \in Thread : x # w => doing'[x] = doing[x]
  BY <1>1, DoFacts DEF Refused
<1>4. doing'[w].op = "refused"
  BY <1>1, <1>3, OpActivities
<1>5. ReplyChain'
  BY RefusedChains
<1> QED
  BY <1>2, <1>3, <1>4, <1>5, LeaveAsking

LEMMA HaveArgumentsAsking == ASSUME Inv, NEW r \in Thread, HaveArguments(r) PROVE Asking'
<1>1. doing[r].op = "receive" /\ chan' = chan /\ DoingType /\ Busy(doing[r], r)
  BY ThreadFacts DEF HaveArguments
<1>2. CASE r \in Worker
  <2>1. Do(r, Run(doing[r].task))
    BY <1>2 DEF HaveArguments
  <2>2. doing'[r].op = "run" /\ \A x \in Thread : x # r => doing'[x] = doing[x]
    BY <1>1, <2>1, DoFacts, IdleRun
  <2>3. doing[r].peer \in Node /\ Asks(doing[r], doing[r].peer)
    BY <1>1 DEF Busy, Asks
  <2>4. ReplyChain'
    BY HaveArgumentsChains
  <2> QED
    BY <1>1, <1>2, <2>2, <2>3, <2>4, LeaveAsking
<1>3. CASE r \notin Worker
  <2>1. Do(r, Run(doing[r].task)) \/ Do(r, Idle)
    BY DEF HaveArguments
  <2> QED
    BY <1>1, <1>3, <2>1, DoAsking, IdleRun
<1> QED
  BY <1>2, <1>3

LEMMA AskForWorkAsking == ASSUME Inv, NEW w \in Worker, AskForWork(w) PROVE Asking'
<1> DEFINE n == Here(w)
           v == ((IF doing[w].op = "refused" THEN doing[w].peer ELSE n) + 1) % N
           m == Descriptor(MAX_NVPS, "STEALING_REQUEST", NULL)
<1>1. /\ NoneAsking(n) /\ Send(w, v, m) /\ Do(w, Act("asked", NULL, {}, v, ReplyTag(w), NULL))
      /\ doing[w].op \in {"idle", "refused"}
  BY DEF AskForWork
<1>2. w \in Thread /\ n \in Node /\ DoingType /\ ChanType /\ Busy(doing[w], w) /\ w \notin Node
  BY Threads, ThreadFacts DEF Inv, Types
<1>3. v \in Node
  BY <1>1, <1>2, NextNode DEF Busy
<1>4. m.type = "STEALING_REQUEST" /\ m.tag = MAX_NVPS
  BY Fields
<1>5. doing'[w].op = "asked" /\ doing'[w].peer = v /\ \A x \in Thread : x # w => doing'[x] = doing[x]
  BY <1>1, <1>2, DoFacts, ActIs
<1> HIDE DEF v, m
<1>6. \A x \in Worker, k \in Node : Asks(doing[x], k) => x # w /\ doing'[x] = doing[x]
  BY <1>1, <1>5, Threads DEF Asks
<1>7. \A x \in Worker : Waits(x)
  BY <1>6 DEF Waits
<1>8. Alone'
  <2>1. ASSUME NEW x \in Worker, NEW y \in Worker, Here(x) = Here(y),
               doing'[x].op \in {"asked", "receive"}, doing'[y].op \in {"asked", "receive"}
        PROVE  x = y
    <3>1. CASE Here(x) = n
      <4>1. x = w
        BY <1>1, <1>5, <2>1, <3>1, Threads DEF NoneAsking
      <4>2. y = w
        BY <1>1, <1>5, <2>1, <3>1, Threads DEF NoneAsking
      <4> QED
        BY <4>1, <4>2
    <3>2. CASE Here(x) # n
      <4>1. doing'[x] = doing[x] /\ doing'[y] = doing[y]
        BY <1>5, <2>1, <3>2, Threads
      <4>2. Alone
        BY DEF Inv, Traffic, Asking
      <4> QED
        BY <2>1, <4>1, <4>2 DEF Alone
    <3> QED
      BY <3>1, <3>2
  <2> QED
    BY <2>1 DEF Alone
<1>9. Serving'
  BY <1>2, <1>5, <1>7, Threads, ServingKept
<1>10. /\ chan[<<w, v>>] \in Seq(Letter) /\ chan'[<<w, v>>] = Append(chan[<<w, v>>], m)
       /\ \A x \in Thread, y \in Node : ~ (x = w /\ y = v) => chan'[<<x, y>>] = chan[<<x, y>>]
  BY <1>1, <1>2, <1>3, SentFacts
<1>11. \A k, y \in Node : chan'[<<k, y>>] = chan[<<k, y>>]
  BY <1>2, <1>10, Threads
<1>12. Asked'
  BY <1>7, <1>11, AskedKept
<1>13. Lane(chan[<<v, n>>], TRUE) = {}
  <2>1. ReplyAt(v, n)
    BY <1>2, <1>3 DEF Inv, Traffic, ReplyChain
  <2>2. \A x \in Worker : Here(x) = n => ~ Asks(doing[x], v)
    BY <1>1 DEF NoneAsking, Asks
  <2> QED
    BY <2>1, <2>2 DEF ReplyAt
<1>14. RequestsLast'
  <2>1. ASSUME NEW x \in Thread, NEW y \in Node, NEW p \in DOMAIN chan'[<<x, y>>],
               chan'[<<x, y>>][p].type = "STEALING_REQUEST"
        PROVE  Request(x, y, p)'
    <3>1. CASE x = w /\ y = v
      <4>1. p \notin DOMAIN chan[<<w, v>>]
        <5>1. SUFFICES ASSUME p \in DOMAIN chan[<<w, v>>] PROVE FALSE
          OBVIOUS
        <5>2. chan'[<<w, v>>][p] = chan[<<w, v>>][p]
          BY <1>10, <5>1, AppendFacts
        <5>3. doing[w].op = "asked"
          BY <1>2, <1>3, <2>1, <3>1, <5>1, <5>2, RequestFacts
        <5> QED
          BY <1>1, <5>3
      <4>2. p \in DOMAIN Append(chan[<<w, v>>], m)
        BY <1>10, <2>1, <3>1
      <4>3. p = Len(chan[<<w, v>>]) + 1
        BY <1>10, <4>1, <4>2, AppendFacts
      <4>4. p = Len(chan'[<<x, y>>])
        BY <1>10, <3>1, <4>3, AppendFacts
      <4>5. Lane(chan'[<<y, Here(x)>>], TRUE) = {}
        BY <1>2, <1>3, <1>11, <1>13, <3>1
      <4> QED
        BY <1>5, <3>1, <4>4, <4>5 DEF Request
    <3>2. CASE ~ (x = w /\ y = v)
      <4>1. chan'[<<x, y>>] = chan[<<x, y>>]
        BY <1>10, <2>1, <3>2
      <4>2. p \in DOMAIN chan[<<x, y>>] /\ chan[<<x, y>>][p].type = "STEALING_REQUEST"
        BY <2>1, <4>1
      <4>3. x \in Worker /\ Here(x) \in Node /\ Lane(chan[<<y, Here(x)>>], TRUE) = {}
        BY <2>1, <4>2, RequestFacts
      <4>4. chan'[<<y, Here(x)>>] = chan[<<y, Here(x)>>]
        BY <1>11, <2>1, <4>3
      <4>5. Waits(x) /\ Lane(chan'[<<y, Here(x)>>], TRUE) = {}
        BY <1>7, <4>3, <4>4
      <4> QED
        BY <2>1, <4>1, <4>2, <4>5, RequestKept
    <3> QED
      BY <3>1, <3>2
  <2> QED
    BY <2>1 DEF RequestsLast
<1> QED
  BY <1>8, <1>9, <1>12, <1>14 DEF Asking

\* What a server that answers a thief sends next.
LEMMA ServedTag ==
  ASSUME Inv, NEW n \in Node, NEW s \in Thread, NEW t, NEW A,
         \/ Do(n, Idle)
         \/ Do(n, Settle(Act("send", t, A, Here(s), ReplyTag(s), NULL)))
  PROVE  doing'[n].op = "send" => doing'[n].peer = Here(s) /\ doing'[n].tag = ReplyTag(s)
<1>1. DoingType /\ n \in Thread
  BY Threads DEF Inv, Types
<1>2. CASE Do(n, Idle)
  BY <1>1, <1>2, DoFacts, IdleRun
<1> DEFINE e == Act("send", t, A, Here(s), ReplyTag(s), NULL)
<1>3. CASE Do(n, Settle(e))
  <2>1. e.op = "send" /\ e.peer = Here(s) /\ e.tag = ReplyTag(s) /\ e.inside = NULL
    BY ActIs
  <2>2. doing'[n] = Settle(e)
    BY <1>1, <1>3, DoFacts
  <2> HIDE DEF e
  <2>3. doing'[n] = e \/ doing'[n] = Idle
    BY <2>1, <2>2 DEF Settle
  <2> QED
    BY <2>1, <2>3, IdleRun
<1> QED
  BY <1>2, <1>3

LEMMA ServeThiefAsking == ASSUME Inv, NEW n \in Node, NEW s \in Thread, ServeThief(n, s) PROVE Asking'
<1>1. /\ s \in Worker /\ Here(s) # n /\ Here(s) \in Node /\ doing[n].op = "idle"
      /\ doing[s].op = "asked" /\ doing[s].peer = n
      /\ First(s, n, MAX_NVPS) = Len(chan[<<s, n>>]) /\ Lane(chan[<<n, Here(s)>>], TRUE) = {}
  BY ThiefFacts
<1>2. First(s, n, MAX_NVPS) # 0
  BY DEF ServeThief, Accepts
<1>3. PICK m \in Letter :
        /\ Replies(n, s, m) /\ m.tag = ReplyTag(s)
        /\ \/ /\ m.type = "stolen" /\ m.task \in ready[n] /\ m.task \in Task
              /\ ready' = [ready EXCEPT ![n] = @ \ {m.task}]
              /\ Do(n, IF homenode[m.task] = Here(s) THEN Idle
                       ELSE Settle(Act("send", m.task, SentArgs(m.task), Here(s), ReplyTag(s), NULL)))
           \/ /\ m.type = "TORC_NO_WORK" /\ m.task = NULL /\ doing' = doing /\ ready' = ready
  BY ReplyFacts
<1>4. ChanType /\ DoingType /\ n \in Thread /\ n \notin Worker /\ s \notin Node
  BY <1>1, Threads DEF Inv, Types
<1>5. /\ chan[<<s, n>>] \in Seq(Letter) /\ chan[<<n, Here(s)>>] \in Seq(Letter)
      /\ First(s, n, MAX_NVPS) \in DOMAIN chan[<<s, n>>]
      /\ chan'[<<s, n>>] = RemoveAt(chan[<<s, n>>], First(s, n, MAX_NVPS))
      /\ chan'[<<n, Here(s)>>] = Append(chan[<<n, Here(s)>>], m)
      /\ \A x \in Thread, y \in Node :
           ~ (x = s /\ y = n) /\ ~ (x = n /\ y = Here(s)) => chan'[<<x, y>>] = chan[<<x, y>>]
  BY <1>1, <1>2, <1>3, <1>4, RepliesFacts
<1>6. m.type \in {"stolen", "TORC_NO_WORK"} /\ (m.tag >= 100) = TRUE
  BY <1>1, <1>3, Tags
<1>7. \A x \in Thread : x # n => doing'[x] = doing[x]
  <2>1. CASE doing' = doing
    BY <2>1
  <2>2. CASE \E e : Do(n, e)
    BY <1>4, <2>2, DoFacts
  <2> QED
    BY <1>3, <2>1, <2>2
<1>8. doing'[n].op = "send" => doing'[n].peer = Here(s) /\ doing'[n].tag = ReplyTag(s)
  <2>1. CASE doing' = doing
    BY <1>1, <2>1
  <2>2. CASE Do(n, IF homenode[m.task] = Here(s) THEN Idle
                   ELSE Settle(Act("send", m.task, SentArgs(m.task), Here(s), ReplyTag(s), NULL)))
    BY <2>2, ServedTag
  <2> QED
    BY <1>3, <2>1, <2>2
<1>9. \A x \in Worker : Waits(x)
  BY <1>4, <1>7, Threads DEF Waits
<1>10. Alone'
  BY <1>4, <1>7, AloneKept
<1>11. Serving'
  <2>1. ASSUME NEW k \in Node, doing'[k].op = "send"
        PROVE  \E w \in Worker : Here(w) = doing'[k].peer /\ Asks(doing'[w], k) /\ doing'[k].tag = ReplyTag(w)
    <3>1. CASE k = n
      <4>1. Asks(doing'[s], k)
        BY <1>1, <1>4, <1>7, <3>1 DEF Asks
      <4> QED
        BY <1>1, <1>8, <2>1, <3>1, <4>1
    <3>2. CASE k # n
      <4>1. doing'[k] = doing[k]
        BY <1>7, <2>1, <3>2, Threads
      <4>2. PICK w \in Worker : Here(w) = doing[k].peer /\ Asks(doing[w], k) /\ doing[k].tag = ReplyTag(w)
        BY <2>1, <4>1, ServingFacts
      <4>3. Asks(doing'[w], k)
        BY <1>9, <2>1, <4>2 DEF Waits
      <4> QED
        BY <4>1, <4>2, <4>3
    <3> QED
      BY <3>1, <3>2
  <2> QED
    BY <2>1 DEF Serving
<1> DEFINE q == chan[<<s, n>>]
<1> HIDE DEF q
<1>12. \A p \in DOMAIN chan'[<<s, n>>] : chan'[<<s, n>>][p].type # "STEALING_REQUEST"
  <2>1. SUFFICES ASSUME NEW p \in DOMAIN RemoveAt(q, Len(q)),
                        RemoveAt(q, Len(q))[p].type = "STEALING_REQUEST"
                 PROVE  FALSE
    BY <1>1, <1>5 DEF q
  <2>2. q \in Seq(Letter) /\ Len(q) \in DOMAIN q
    BY <1>1, <1>5 DEF q
  <2>3. Shift(Len(q), p) \in DOMAIN q \ {Len(q)} /\ RemoveAt(q, Len(q))[p] = q[Shift(Len(q), p)]
    BY <2>1, <2>2, RemoveFacts
  <2>4. q[Shift(Len(q), p)].type = "STEALING_REQUEST" /\ Shift(Len(q), p) # Len(q)
    BY <2>1, <2>3
  <2> QED
    BY <2>3, <2>4, RequestFacts DEF q
<1>13. \A p \in DOMAIN chan'[<<n, Here(s)>>] : chan'[<<n, Here(s)>>][p].type # "STEALING_REQUEST"
  <2>1. SUFFICES ASSUME NEW p \in DOMAIN Append(chan[<<n, Here(s)>>], m),
                        Append(chan[<<n, Here(s)>>], m)[p].type = "STEALING_REQUEST"
                 PROVE  FALSE
    BY <1>5
  <2>2. CASE p \in DOMAIN chan[<<n, Here(s)>>]
    <3>1. chan[<<n, Here(s)>>][p].type = "STEALING_REQUEST"
      BY <1>5, <2>1, <2>2, AppendFacts
    <3> QED
      BY <1>1, <1>4, <2>2, <3>1, RequestFacts
  <2>3. CASE p \notin DOMAIN chan[<<n, Here(s)>>]
    <3>1. Append(chan[<<n, Here(s)>>], m)[p] = m
      BY <1>5, <2>1, <2>3, AppendFacts
    <3> QED
      BY <1>6, <2>1, <3>1
  <2> QED
    BY <2>2, <2>3
<1>14. RequestsLast'
  <2>1. ASSUME NEW x \in Thread, NEW y \in Node, NEW p \in DOMAIN chan'[<<x, y>>],
               chan'[<<x, y>>][p].type = "STEALING_REQUEST"
        PROVE  Request(x, y, p)'
    <3>1. ~ (x = s /\ y = n) /\ ~ (x = n /\ y = Here(s))
      BY <1>12, <1>13, <2>1
    <3>2. chan'[<<x, y>>] = chan[<<x, y>>]
      BY <1>5, <2>1, <3>1
    <3>3. p \in DOMAIN chan[<<x, y>>] /\ chan[<<x, y>>][p].type = "STEALING_REQUEST"
      BY <2>1, <3>2
    <3>4. /\ x \in Worker /\ doing[x].op = "asked" /\ Here(x) \in Node
          /\ Lane(chan[<<y, Here(x)>>], TRUE) = {}
      BY <2>1, <3>3, RequestFacts
    <3>5. ~ (y = n /\ Here(x) = Here(s))
      <4>1. Alone
        BY DEF Inv, Traffic, Asking
      <4> QED
        BY <1>1, <3>1, <3>4, <4>1 DEF Alone
    <3>6. ~ (y = s /\ Here(x) = n) /\ y \in Thread
      BY <1>4, <2>1, Threads
    <3>7. chan'[<<y, Here(x)>>] = chan[<<y, Here(x)>>]
      BY <1>5, <3>4, <3>5, <3>6
    <3>8. Waits(x) /\ Lane(chan'[<<y, Here(x)>>], TRUE) = {}
      BY <1>9, <3>4, <3>7
    <3> QED
      BY <2>1, <3>2, <3>3, <3>8, RequestKept
  <2> QED
    BY <2>1 DEF RequestsLast
<1>15. \A k, y \in Node : \A u \in Lane(chan[<<k, y>>], TRUE) :
         /\ Reply(chan[<<k, y>>][u], k, y)
         /\ \A r \in Lane(chan[<<k, y>>], TRUE) :
              chan[<<k, y>>][u].type # "data" /\ chan[<<k, y>>][r].type # "data" => u = r
  BY DEF Inv, Traffic, Asking, Asked
<1>16. Asked'
  <2>1. ASSUME NEW k \in Node, NEW y \in Node, NEW p \in Lane(chan'[<<k, y>>], TRUE)
        PROVE  ReplyNext(k, y, p)
    <3>1. CASE k = n /\ y = Here(s)
      <4>1. \A u \in Lane(chan'[<<k, y>>], TRUE) : u = Len(chan[<<k, y>>]) + 1 /\ chan'[<<k, y>>][u] = m
        <5>1. SUFFICES ASSUME NEW u \in Lane(Append(chan[<<n, Here(s)>>], m), TRUE)
                       PROVE  u = Len(chan[<<n, Here(s)>>]) + 1 /\ Append(chan[<<n, Here(s)>>], m)[u] = m
          BY <1>5, <3>1
        <5>2. u \in DOMAIN Append(chan[<<n, Here(s)>>], m) /\ (Append(chan[<<n, Here(s)>>], m)[u].tag >= 100) = TRUE
          BY <5>1 DEF Lane
        <5>3. u \notin DOMAIN chan[<<n, Here(s)>>]
          <6>1. SUFFICES ASSUME u \in DOMAIN chan[<<n, Here(s)>>] PROVE FALSE
            OBVIOUS
          <6>2. Append(chan[<<n, Here(s)>>], m)[u] = chan[<<n, Here(s)>>][u]
            BY <1>5, <6>1, AppendFacts
          <6>3. u \in Lane(chan[<<n, Here(s)>>], TRUE)
            BY <5>2, <6>1, <6>2 DEF Lane
          <6> QED
            BY <1>1, <6>3
        <5>4. u = Len(chan[<<n, Here(s)>>]) + 1
          BY <1>5, <5>2, <5>3, AppendFacts
        <5>5. Append(chan[<<n, Here(s)>>], m)[Len(chan[<<n, Here(s)>>]) + 1] = m
          BY <1>5, AppendFacts
        <5> QED
          BY <5>4, <5>5
      <4>2. chan'[<<k, y>>][p] = m
        BY <2>1, <4>1
      <4>3. \A u \in Lane(chan'[<<k, y>>], TRUE) : p = u
        BY <2>1, <4>1
      <4>4. Here(s) = y /\ Asks(doing'[s], k) /\ m.tag = ReplyTag(s) /\ doing'[s].op = "asked"
        BY <1>1, <1>3, <1>4, <1>7, <3>1 DEF Asks
      <4> QED
        BY <1>1, <4>2, <4>3, <4>4 DEF ReplyNext
    <3>2. CASE ~ (k = n /\ y = Here(s))
      <4>1. chan'[<<k, y>>] = chan[<<k, y>>]
        BY <1>4, <1>5, <2>1, <3>2, Threads
      <4>2. p \in Lane(chan[<<k, y>>], TRUE)
        BY <2>1, <4>1
      <4>3. \E w \in Worker : /\ Here(w) = y /\ Asks(doing'[w], k)
                              /\ chan[<<k, y>>][p].tag = ReplyTag(w)
                              /\ chan[<<k, y>>][p].type # "data" => doing'[w].op = "asked"
        BY <1>9, <2>1, <4>2, ReplyStays
      <4> QED
        BY <1>15, <2>1, <4>1, <4>2, <4>3 DEF ReplyNext
    <3> QED
      BY <3>1, <3>2
  <2> QED
    BY <2>1, AskedNext
<1> QED
  BY <1>10, <1>11, <1>14, <1>16 DEF Asking

----------------------------------------------------------------------------
(* Where the tasks are after a step.                                       *)

\* A task is in the place k, i after a step: it was there before, or it is
\* t0 and the place is K, I.
Comes(t, t0, K, I) ==
  /\ \A x \in Thread, y \in Node :
       Brings(chan'[<<x, y>>], t) => Brings(chan[<<x, y>>], t) \/ (t = t0 /\ K = "chan" /\ I = <<x, y>>)
  /\ \A y \in Node : t \in ready'[y] => t \in ready[y] \/ (t = t0 /\ K = "ready" /\ I = y)
  /\ \A x \in Thread : Holds(doing'[x], t) => Holds(doing[x], t) \/ (t = t0 /\ K = "thread" /\ I = x)
  /\ t \in finished' => t \in finished \/ (t = t0 /\ K = "done" /\ I = 0)

LEMMA ComesTo ==
  ASSUME NEW t, NEW t0, NEW K, NEW I, Comes(t, t0, K, I), NEW k, NEW i, At(k, i, t)'
  PROVE  At(k, i, t) \/ (t = t0 /\ k = K /\ i = I)
<1>1. CASE k = "chan"
  <2>1. PICK x \in Thread, y \in Node : i = <<x, y>> /\ Brings(chan'[<<x, y>>], t)
    BY <1>1 DEF At
  <2> QED
    BY <1>1, <2>1 DEF Comes, At
<1>2. CASE k = "ready"
  BY <1>2 DEF Comes, At
<1>3. CASE k = "thread"
  <2>1. i \in Thread /\ Holds(doing'[i], t)
    BY <1>3 DEF At
  <2> QED
    BY <1>3, <2>1 DEF Comes, At
<1>4. CASE k = "done"
  BY <1>4 DEF Comes, At
<1> QED
  BY <1>1, <1>2, <1>3, <1>4 DEF At

\* A task goes from one place to another, or is created.
LEMMA Moved ==
  ASSUME Inv, HomeKept(homenode, homenode'), NEW t0 \in Task, homenode'[t0] # NULL,
         NEW K0, NEW I0, NEW K, NEW I,
         At(K0, I0, t0) \/ homenode[t0] = NULL,
         (K = K0 /\ I = I0) \/ ~ At(K0, I0, t0)',
         \A t \in Task : Comes(t, t0, K, I)
  PROVE  Apart'
<1>1. Apart
  BY DEF Inv, Traffic
<1>2. ASSUME NEW t \in Task, NEW k, NEW i, At(k, i, t)'
      PROVE  /\ homenode'[t] # NULL
             /\ \A l, j : At(l, j, t)' => k = l /\ i = j
  <2>1. At(k, i, t) \/ (t = t0 /\ k = K /\ i = I)
    BY <1>2, ComesTo
  <2>2. homenode'[t] # NULL
    <3>1. CASE t = t0
      BY <3>1
    <3>2. CASE t # t0
      <4>1. homenode[t] # NULL
        BY <1>1, <1>2, <2>1, <3>2 DEF Apart
      <4> QED
        BY <1>2, <4>1 DEF HomeKept
    <3> QED
      BY <3>1, <3>2
  <2>3. ASSUME NEW l, NEW j, At(l, j, t)' PROVE k = l /\ i = j
    <3>1. At(l, j, t) \/ (t = t0 /\ l = K /\ j = I)
      BY <1>2, <2>3, ComesTo
    <3>2. CASE t # t0
      BY <1>1, <1>2, <2>1, <3>1, <3>2 DEF Apart
    <3>3. CASE t = t0
      <4>1. ASSUME NEW a, NEW b, At(a, b, t)' PROVE a = K /\ b = I
        <5>1. At(a, b, t) \/ (a = K /\ b = I)
          BY <1>2, <4>1, ComesTo
        <5>2. CASE At(a, b, t)
          <6>1. homenode[t0] # NULL
            BY <1>1, <3>3, <5>2 DEF Apart
          <6>2. a = K0 /\ b = I0
            BY <1>1, <3>3, <5>2, <6>1 DEF Apart
          <6> QED
            BY <3>3, <4>1, <6>2
        <5> QED
          BY <5>1, <5>2
      <4>2. k = K /\ i = I
        BY <1>2, <4>1
      <4>3. l = K /\ j = I
        BY <2>3, <4>1
      <4> QED
        BY <4>2, <4>3
    <3> QED
      BY <3>2, <3>3
  <2> QED
    BY <2>2, <2>3
<1> QED
  BY <1>2 DEF Apart

\* No task goes anywhere.
LEMMA Stays ==
  ASSUME Inv, HomeKept(homenode, homenode'), \A t \in Task : Comes(t, NULL, "nowhere", 0)
  PROVE  Apart'
<1>1. Apart
  BY DEF Inv, Traffic
<1>2. ASSUME NEW t \in Task, NEW k, NEW i, At(k, i, t)' PROVE At(k, i, t)
  <2>1. t # NULL
    BY <1>2, DistinctAssumption
  <2> QED
    BY <1>2, <2>1, ComesTo
<1>3. ASSUME NEW t \in Task, NEW k, NEW i, At(k, i, t)'
      PROVE  /\ homenode'[t] # NULL
             /\ \A l, j : At(l, j, t)' => k = l /\ i = j
  <2>1. At(k, i, t)
    BY <1>2, <1>3
  <2>2. homenode'[t] # NULL
    <3>1. homenode[t] # NULL
      BY <1>1, <1>3, <2>1 DEF Apart
    <3> QED
      BY <1>3, <3>1 DEF HomeKept
  <2>3. \A l, j : At(l, j, t)' => k = l /\ i = j
    BY <1>1, <1>2, <1>3, <2>1 DEF Apart
  <2> QED
    BY <2>2, <2>3
<1> QED
  BY <1>3 DEF Apart

\* A task is in one place.
LEMMA OnePlace ==
  ASSUME Inv, NEW t \in Task, NEW k, NEW i, At(k, i, t)
  PROVE  homenode[t] # NULL /\ \A l, j : At(l, j, t) => l = k /\ j = i
BY DEF Inv, Traffic, Apart

----------------------------------------------------------------------------
(* Descriptors.                                                            *)

LEMMA SentBrings ==
  ASSUME ChanType, NEW s \in Thread, NEW n \in Node, NEW m, Send(s, n, m), NEW t,
         NEW x \in Thread, NEW y \in Node, Brings(chan'[<<x, y>>], t)
  PROVE  Brings(chan[<<x, y>>], t) \/ (x = s /\ y = n /\ m.type \in Descriptors /\ m.task = t)
<1>1. PICK p \in DOMAIN chan'[<<x, y>>] : chan'[<<x, y>>][p].type \in Descriptors /\ chan'[<<x, y>>][p].task = t
  BY DEF Brings
<1>2. CASE p \in DOMAIN chan[<<x, y>>] /\ chan'[<<x, y>>][p] = chan[<<x, y>>][p]
  BY <1>1, <1>2 DEF Brings
<1>3. CASE x = s /\ y = n /\ chan'[<<x, y>>][p] = m
  BY <1>1, <1>3
<1> QED
  BY <1>1, <1>2, <1>3, SentOrOld

LEMMA TakenBrings ==
  ASSUME ChanType, NEW s \in Thread, NEW n \in Node, NEW tag, Receive(s, n, tag), NEW t,
         NEW x \in Thread, NEW y \in Node, Brings(chan'[<<x, y>>], t)
  PROVE  Brings(chan[<<x, y>>], t)
<1>1. PICK p \in DOMAIN chan'[<<x, y>>] : chan'[<<x, y>>][p].type \in Descriptors /\ chan'[<<x, y>>][p].task = t
  BY DEF Brings
<1>2. PICK r \in DOMAIN chan[<<x, y>>] : chan'[<<x, y>>][p] = chan[<<x, y>>][r]
  BY <1>1, TakenIsOld
<1> QED
  BY <1>1, <1>2 DEF Brings

\* The descriptor that has been taken is gone.
LEMMA TakenGone ==
  ASSUME Inv, NEW s \in Thread, NEW n \in Node, NEW tag, Receive(s, n, tag),
         Received(s, n, tag).type \in Descriptors
  PROVE  /\ ~ Brings(chan'[<<s, n>>], Received(s, n, tag).task)
         /\ Brings(chan[<<s, n>>], Received(s, n, tag).task)
<1> DEFINE f == First(s, n, tag)
           q == chan[<<s, n>>]
<1>1. /\ q \in Seq(Letter) /\ f \in DOMAIN q /\ q[f] = Received(s, n, tag) /\ chan'[<<s, n>>] = RemoveAt(q, f)
  BY TakenFacts DEF Inv, Types
<1>2. \A p, r \in DOMAIN q :
        q[p].type \in Descriptors /\ q[r].type \in Descriptors /\ q[p].task = q[r].task => p = r
  BY DEF Inv, Traffic, NoRepeat
<1> HIDE DEF f, q
<1>3. ASSUME NEW p \in DOMAIN RemoveAt(q, f), RemoveAt(q, f)[p].type \in Descriptors,
             RemoveAt(q, f)[p].task = q[f].task
      PROVE  FALSE
  <2>1. Shift(f, p) \in DOMAIN q \ {f} /\ RemoveAt(q, f)[p] = q[Shift(f, p)]
    BY <1>1, <1>3, RemoveFacts
  <2> QED
    BY <1>1, <1>2, <1>3, <2>1
<1>4. Brings(q, q[f].task)
  BY <1>1 DEF Brings
<1>5. ~ Brings(RemoveAt(q, f), q[f].task)
  BY <1>3 DEF Brings
<1> QED
  BY <1>1, <1>4, <1>5 DEF q

LEMMA SameNoRepeat == ASSUME Inv, chan' = chan PROVE NoRepeat'
BY DEF Inv, Traffic, NoRepeat

LEMMA SentNoRepeat ==
  ASSUME Inv, NEW s \in Thread, NEW n \in Node, NEW m, Send(s, n, m),
         m.type \in Descriptors => ~ Brings(chan[<<s, n>>], m.task)
  PROVE  NoRepeat'
<1>0. ChanType /\ NoRepeat
  BY DEF Inv, Types, Traffic
<1> DEFINE q == chan[<<s, n>>]
<1>1. /\ q \in Seq(Letter) /\ chan'[<<s, n>>] = Append(q, m)
      /\ \A x \in Thread, y \in Node : ~ (x = s /\ y = n) => chan'[<<x, y>>] = chan[<<x, y>>]
  BY <1>0, SentFacts
<1>2. \A p, r \in DOMAIN q :
        q[p].type \in Descriptors /\ q[r].type \in Descriptors /\ q[p].task = q[r].task => p = r
  BY <1>0 DEF NoRepeat
<1> HIDE DEF q
<1>3. ASSUME NEW p \in DOMAIN Append(q, m), NEW r \in DOMAIN Append(q, m),
             Append(q, m)[p].type \in Descriptors, Append(q, m)[r].type \in Descriptors,
             Append(q, m)[p].task = Append(q, m)[r].task
      PROVE  p = r
  <2>1. \A u \in DOMAIN q : Append(q, m)[u] = q[u]
    BY <1>1, AppendFacts
  <2>2. \A u \in DOMAIN Append(q, m) : u \notin DOMAIN q => u = Len(q) + 1
    BY <1>1, AppendFacts
  <2>3. Append(q, m)[Len(q) + 1] = m
    BY <1>1, AppendFacts
  <2>4. ~ (m.type \in Descriptors) \/ \A u \in DOMAIN q : ~ (q[u].type \in Descriptors /\ q[u].task = m.task)
    BY DEF Brings, q
  <2>5. CASE p \in DOMAIN q /\ r \in DOMAIN q
    <3>1. Append(q, m)[p] = q[p] /\ Append(q, m)[r] = q[r]
      BY <2>1, <2>5
    <3> QED
      BY <1>2, <1>3, <2>5, <3>1
  <2>6. CASE p \in DOMAIN q /\ r \notin DOMAIN q
    <3>1. Append(q, m)[p] = q[p] /\ Append(q, m)[r] = m
      BY <1>3, <2>1, <2>2, <2>3, <2>6
    <3> QED
      BY <1>3, <2>4, <2>6, <3>1
  <2>7. CASE p \notin DOMAIN q /\ r \in DOMAIN q
    <3>1. Append(q, m)[r] = q[r] /\ Append(q, m)[p] = m
      BY <1>3, <2>1, <2>2, <2>3, <2>7
    <3> QED
      BY <1>3, <2>4, <2>7, <3>1
  <2>8. CASE p \notin DOMAIN q /\ r \notin DOMAIN q
    <3>1. p = Len(q) + 1
      BY <1>3, <2>2, <2>8
    <3>2. r = Len(q) + 1
      BY <1>3, <2>2, <2>8
    <3> QED
      BY <3>1, <3>2
  <2> QED
    BY <2>5, <2>6, <2>7, <2>8
<1>4. ASSUME NEW x \in Thread, NEW y \in Node, NEW p \in DOMAIN chan'[<<x, y>>], NEW r \in DOMAIN chan'[<<x, y>>],
             chan'[<<x, y>>][p].type \in Descriptors, chan'[<<x, y>>][r].type \in Descriptors,
             chan'[<<x, y>>][p].task = chan'[<<x, y>>][r].task
      PROVE  p = r
  <2>1. CASE x = s /\ y = n
    BY <1>1, <1>3, <1>4, <2>1
  <2>2. CASE ~ (x = s /\ y = n)
    <3>1. chan'[<<x, y>>] = chan[<<x, y>>]
      BY <1>1, <1>4, <2>2
    <3> QED
      BY <1>0, <1>4, <3>1 DEF NoRepeat
  <2> QED
    BY <2>1, <2>2
<1> QED
  BY <1>4 DEF NoRepeat

\* The positions that are left when a message has been removed.
LEMMA RemovedNoRepeat ==
  ASSUME NEW S, NEW q \in Seq(S), NEW f \in DOMAIN q,
         \A p, r \in DOMAIN q :
           q[p].type \in Descriptors /\ q[r].type \in Descriptors /\ q[p].task = q[r].task => p = r,
         NEW p \in DOMAIN RemoveAt(q, f), NEW r \in DOMAIN RemoveAt(q, f),
         RemoveAt(q, f)[p].type \in Descriptors, RemoveAt(q, f)[r].type \in Descriptors,
         RemoveAt(q, f)[p].task = RemoveAt(q, f)[r].task
  PROVE  p = r
<1>1. /\ \A u \in DOMAIN RemoveAt(q, f) :
           Shift(f, u) \in DOMAIN q \ {f} /\ RemoveAt(q, f)[u] = q[Shift(f, u)]
      /\ DOMAIN RemoveAt(q, f) = 1 .. Len(q) - 1
  BY RemoveFacts
<1>2. Shift(f, p) = Shift(f, r)
  BY <1>1
<1>3. Len(q) \in Nat /\ DOMAIN q = 1 .. Len(q)
  OBVIOUS
<1>4. p \in Nat /\ r \in Nat /\ f \in Nat
  BY <1>1, <1>3
<1>5. CASE p < f
  BY <1>2, <1>4, <1>5 DEF Shift
<1>6. CASE ~ (p < f)
  BY <1>2, <1>4, <1>6 DEF Shift
<1> QED
  BY <1>5, <1>6

LEMMA TakenNoRepeat ==
  ASSUME Inv, NEW s \in Thread, NEW n \in Node, NEW tag, Receive(s, n, tag) PROVE NoRepeat'
<1>0. ChanType /\ NoRepeat
  BY DEF Inv, Types, Traffic
<1> DEFINE f == First(s, n, tag)
           q == chan[<<s, n>>]
<1>1. /\ q \in Seq(Letter) /\ f \in DOMAIN q /\ chan'[<<s, n>>] = RemoveAt(q, f)
      /\ \A x \in Thread, y \in Node : ~ (x = s /\ y = n) => chan'[<<x, y>>] = chan[<<x, y>>]
  BY <1>0, TakenFacts
<1>2. \A p, r \in DOMAIN q :
        q[p].type \in Descriptors /\ q[r].type \in Descriptors /\ q[p].task = q[r].task => p = r
  BY <1>0 DEF NoRepeat
<1> HIDE DEF f, q
<1>4. ASSUME NEW x \in Thread, NEW y \in Node, NEW p \in DOMAIN chan'[<<x, y>>], NEW r \in DOMAIN chan'[<<x, y>>],
             chan'[<<x, y>>][p].type \in Descriptors, chan'[<<x, y>>][r].type \in Descriptors,
             chan'[<<x, y>>][p].task = chan'[<<x, y>>][r].task
      PROVE  p = r
  <2>1. CASE x = s /\ y = n
    <3>1. p \in DOMAIN RemoveAt(q, f) /\ r \in DOMAIN RemoveAt(q, f)
      BY <1>1, <1>4, <2>1
    <3>2. RemoveAt(q, f)[p].type \in Descriptors /\ RemoveAt(q, f)[r].type \in Descriptors
          /\ RemoveAt(q, f)[p].task = RemoveAt(q, f)[r].task
      BY <1>1, <1>4, <2>1
    <3> QED
      BY <1>1, <1>2, <3>1, <3>2, RemovedNoRepeat
  <2>2. CASE ~ (x = s /\ y = n)
    <3>1. chan'[<<x, y>>] = chan[<<x, y>>]
      BY <1>1, <1>4, <2>2
    <3> QED
      BY <1>0, <1>4, <3>1 DEF NoRepeat
  <2> QED
    BY <2>1, <2>2
<1> QED
  BY <1>4 DEF NoRepeat

LEMMA DoHolds ==
  ASSUME DoingType, NEW s \in Thread, NEW d, Do(s, d), NEW t, NEW x \in Thread, Holds(doing'[x], t)
  PROVE  (x # s /\ Holds(doing[x], t)) \/ (x = s /\ Holds(d, t))
BY DoFacts

LEMMA IdleRunHold ==
  ASSUME NEW t \in Task
  PROVE  ~ Holds(Idle, t) /\ \A u : Holds(Run(u), t) <=> t = u
<1>1. t # NULL
  BY DistinctAssumption
<1> QED
  BY <1>1, IdleRun DEF Holds

LEMMA OneLessHolds ==
  ASSUME DoingType, NEW s \in Thread, NEW t, Holds(OneLess(s), t) PROVE Holds(doing[s], t)
BY OneLessIs DEF Holds

LEMMA SettleHolds ==
  ASSUME NEW d, NEW t \in Task, Holds(Settle(d), t), d.op \in {"send", "result"}
  PROVE  d.inside = t
<1>1. t # NULL
  BY DistinctAssumption
<1>2. CASE d.left # {}
  BY <1>2 DEF Settle, Holds
<1>3. CASE d.left = {} /\ d.inside = NULL
  BY <1>3, IdleRunHold DEF Settle
<1>4. CASE d.left = {} /\ d.inside # NULL
  <2>1. Settle(d) = Run(d.inside)
    BY <1>4 DEF Settle
  <2> QED
    BY <2>1, IdleRunHold
<1> QED
  BY <1>2, <1>3, <1>4

\* What threads hold only when they say so.
LEMMA HoldsWhat ==
  ASSUME Inv, NEW s \in Thread, NEW t \in Task
  PROVE  /\ doing[s].inside = t => doing[s].op = "send"
         /\ doing[s].inside # NULL => doing[s].op = "send"
<1>1. Busy(doing[s], s) /\ t # NULL
  BY ThreadFacts, DistinctAssumption
<1> QED
  BY <1>1 DEF Busy

\* A step that hands on no task: s goes on with d.
LEMMA StayPut ==
  ASSUME Inv, homenode' = homenode, ready' = ready, finished' = finished,
         NEW s \in Thread, NEW d, Do(s, d),
         \A t \in Task : Holds(d, t) => Holds(doing[s], t),
         \A t \in Task : \A x \in Thread, y \in Node : Brings(chan'[<<x, y>>], t) => Brings(chan[<<x, y>>], t)
  PROVE  Apart'
<1>1. HomeKept(homenode, homenode') /\ DoingType
  BY SameHome DEF Inv, Types
<1>2. ASSUME NEW t \in Task PROVE Comes(t, NULL, "nowhere", 0)
  <2>1. \A x \in Thread : Holds(doing'[x], t) => Holds(doing[x], t)
    BY <1>1, <1>2, DoHolds
  <2> QED
    BY <1>2, <2>1 DEF Comes
<1> QED
  BY <1>1, <1>2, Stays

\* A thread that touches no channel and takes no task.
LEMMA QuietPlaces ==
  ASSUME Inv, chan' = chan, homenode' = homenode, ready' = ready, finished' = finished,
         NEW s \in Thread, NEW d, Do(s, d),
         \A t \in Task : Holds(d, t) => Holds(doing[s], t)
  PROVE  Apart' /\ NoRepeat'
BY StayPut, SameNoRepeat

LEMMA SendPlaces ==
  ASSUME Inv, homenode' = homenode, ready' = ready, finished' = finished,
         NEW s \in Thread, NEW n \in Node, NEW m, Send(s, n, m), m.type \notin Descriptors,
         NEW d, Do(s, d), \A t \in Task : Holds(d, t) => Holds(doing[s], t)
  PROVE  Apart' /\ NoRepeat'
<1>1. ChanType
  BY DEF Inv, Types
<1>2. \A t \in Task : \A x \in Thread, y \in Node : Brings(chan'[<<x, y>>], t) => Brings(chan[<<x, y>>], t)
  BY <1>1, SentBrings
<1> QED
  BY <1>2, StayPut, SentNoRepeat

LEMMA TakePlaces ==
  ASSUME Inv, homenode' = homenode, ready' = ready, finished' = finished,
         NEW s \in Thread, NEW n \in Node, NEW tag, Receive(s, n, tag),
         NEW r \in Thread, NEW d, Do(r, d), \A t \in Task : Holds(d, t) => Holds(doing[r], t)
  PROVE  Apart' /\ NoRepeat'
<1>1. ChanType
  BY DEF Inv, Types
<1>2. \A t \in Task : \A x \in Thread, y \in Node : Brings(chan'[<<x, y>>], t) => Brings(chan[<<x, y>>], t)
  BY <1>1, TakenBrings
<1> QED
  BY <1>2, StayPut, TakenNoRepeat

LEMMA KindsApart ==
  /\ "data" \notin Descriptors /\ "STEALING_REQUEST" \notin Descriptors
  /\ "TORC_NO_WORK" \notin Descriptors /\ "TORC_BCAST" \notin Descriptors
  /\ "stolen" \in Descriptors /\ "TORC_ANSWER" \in Descriptors /\ "TORC_NORMAL_ENQUEUE" \in Descriptors
BY DEF Descriptors

\* What may be done with an argument of a task.
LEMMA DataPlaces ==
  ASSUME Inv, homenode' = homenode, ready' = ready, finished' = finished,
         NEW s \in Thread, doing[s].op \in {"send", "result"}, NEW v,
         Send(s, doing[s].peer, Data(doing[s].tag, doing[s].task, NextArg(s), v)),
         Do(s, Settle(OneLess(s)))
  PROVE  Apart' /\ NoRepeat'
<1>1. DoingType
  BY ThreadFacts
<1>2. doing[s].peer \in Node
  <2>1. Busy(doing[s], s) /\ ActivityOK(doing[s], s, homenode)
    BY ThreadFacts
  <2>2. CASE doing[s].op = "send"
    BY <2>1, <2>2 DEF Busy
  <2>3. CASE doing[s].op = "result"
    <3>1. doing[s].task \in Task /\ doing[s].peer = homenode[doing[s].task] /\ homenode[doing[s].task] # NULL
      BY <2>1, <2>3, DistinctAssumption DEF Busy, ActivityOK
    <3> QED
      BY <3>1 DEF Inv, Types, TaskType
  <2> QED
    BY <2>2, <2>3
<1> DEFINE m == Data(doing[s].tag, doing[s].task, NextArg(s), v)
<1>3. m.type \notin Descriptors
  BY Fields, KindsApart
<1>4. ASSUME NEW t \in Task, Holds(Settle(OneLess(s)), t) PROVE Holds(doing[s], t)
  <2>1. OneLess(s).op = doing[s].op /\ OneLess(s).inside = doing[s].inside
    BY <1>1, OneLessIs
  <2>2. doing[s].inside = t
    BY <1>4, <2>1, SettleHolds
  <2> QED
    BY <2>2 DEF Holds
<1> HIDE DEF m
<1>5. Send(s, doing[s].peer, m)
  BY DEF m
<1> QED
  BY <1>2, <1>3, <1>4, <1>5, SendPlaces

LEMMA SendArgumentPlaces == ASSUME Inv, NEW s \in Thread, SendArgument(s) PROVE Apart' /\ NoRepeat'
BY DataPlaces DEF SendArgument, tasks

LEMMA SendResultPlaces == ASSUME Inv, NEW s \in Thread, SendResult(s) PROVE Apart' /\ NoRepeat'
BY DataPlaces DEF SendResult, tasks

LEMMA EnterToReceivePlaces == ASSUME Inv, NEW s \in Thread, EnterToReceive(s) PROVE Apart' /\ NoRepeat'
<1>1. UNCHANGED <<chan, doing, homenode, ready, finished>>
  BY DEF EnterToReceive, tasks
<1>2. \A t \in Task : Comes(t, NULL, "nowhere", 0)
  BY <1>1 DEF Comes
<1> QED
  BY <1>1, <1>2, Stays, SameHome, SameNoRepeat

\* An activity without a task of its own that changes its name.
LEMMA OpPlaces ==
  ASSUME Inv, NEW s \in Thread, doing[s].op \in {"asked", "bcast", "buffer"},
         NEW op \in {"refused", "ssend", "arriving"}, NEW t \in Task
  PROVE  ~ Holds([doing[s] EXCEPT !.op = op], t)
<1>1. t # NULL
  BY DistinctAssumption
<1> QED
  BY <1>1, OpActivities DEF Holds

LEMMA NothingHeld ==
  ASSUME NEW op \in {"asked", "bcast", "buffer", "telling"}, NEW u, NEW A, NEW n, NEW g, NEW t \in Task
  PROVE  ~ Holds(Act(op, u, A, n, g, NULL), t)
<1>1. t # NULL
  BY DistinctAssumption
<1> QED
  BY <1>1, ActIs DEF Holds

LEMMA RecvBcastPlaces ==
  ASSUME Inv, NEW n \in Node, NEW s \in Thread, RecvBcast(n, s) PROVE Apart' /\ NoRepeat'
<1>1. Receive(s, n, MAX_NVPS) /\ Do(n, Act("buffer", NULL, {0}, Here(s), Tag(s), NULL))
      /\ homenode' = homenode /\ ready' = ready /\ finished' = finished
  BY DEF RecvBcast, tasks
<1> QED
  BY <1>1, Threads, NothingHeld, TakePlaces

LEMMA LessPlaces ==
  ASSUME Inv, homenode' = homenode, ready' = ready, finished' = finished,
         NEW r \in Thread, NEW s \in Thread, Matches(r, s), Do(r, OneLess(r))
  PROVE  Apart' /\ NoRepeat'
<1>1. DoingType /\ Types
  BY DEF Inv, Types
<1>2. Receive(s, Here(r), doing[r].tag) /\ Here(r) \in Node
  BY <1>1, MatchesFacts
<1> QED
  BY <1>1, <1>2, OneLessHolds, TakePlaces

LEMMA RecvArgumentPlaces ==
  ASSUME Inv, NEW r \in Thread, NEW s \in Thread, RecvArgument(r, s) PROVE Apart' /\ NoRepeat'
BY LessPlaces DEF RecvArgument, tasks

LEMMA CollectResultPlaces ==
  ASSUME Inv, NEW n \in Node, NEW s \in Thread, CollectResult(n, s) PROVE Apart' /\ NoRepeat'
BY LessPlaces, Threads DEF CollectResult, tasks

LEMMA AskForWorkPlaces == ASSUME Inv, NEW w \in Worker, AskForWork(w) PROVE Apart' /\ NoRepeat'
<1> DEFINE v == ((IF doing[w].op = "refused" THEN doing[w].peer ELSE Here(w)) + 1) % N
           m == Descriptor(MAX_NVPS, "STEALING_REQUEST", NULL)
           d == Act("asked", NULL, {}, v, ReplyTag(w), NULL)
<1>1. /\ Send(w, v, m) /\ Do(w, d) /\ homenode' = homenode /\ ready' = ready /\ finished' = finished
  BY DEF AskForWork, tasks
<1>2. w \in Thread /\ Busy(doing[w], w) /\ Here(w) \in Node
  BY Threads, ThreadFacts
<1>3. v \in Node
  BY <1>2, NextNode DEF Busy
<1>4. m.type \notin Descriptors
  BY Fields, KindsApart
<1>5. \A t \in Task : ~ Holds(d, t)
  BY NothingHeld
<1> HIDE DEF v, m, d
<1> QED
  BY <1>1, <1>2, <1>3, <1>4, <1>5, SendPlaces

LEMMA GiveUpPlaces == ASSUME Inv, NEW w \in Worker, GiveUp(w) PROVE Apart' /\ NoRepeat'
BY QuietPlaces, Threads, IdleRunHold DEF GiveUp, tasks

LEMMA RefusedPlaces == ASSUME Inv, NEW w \in Worker, Refused(w) PROVE Apart' /\ NoRepeat'
<1> DEFINE d == [doing[w] EXCEPT !.op = "refused"]
           k == doing[w].peer
<1>1. Answered(w, "TORC_NO_WORK") /\ w \in Thread /\ doing[w].op = "asked" /\ Do(w, d)
      /\ homenode' = homenode /\ ready' = ready /\ finished' = finished
  BY Threads DEF Refused, Answered, tasks
<1>2. k \in Node /\ Receive(k, Here(w), ReplyTag(w))
  BY <1>1, AnswerFacts
<1>3. \A t \in Task : ~ Holds(d, t)
  BY <1>1, OpPlaces
<1> HIDE DEF d
<1> QED
  BY <1>1, <1>2, <1>3, Threads, TakePlaces

LEMMA BroadcastPlaces == ASSUME Inv, NEW w \in Worker, Broadcast(w) PROVE Apart' /\ NoRepeat'
<1> DEFINE n == Min(Others(w) \ told)
           m == Descriptor(MAX_NVPS, "TORC_BCAST", NULL)
           d == Act("bcast", NULL, {}, n, Tag(w), NULL)
<1>1. Send(w, n, m) /\ Do(w, d) /\ homenode' = homenode /\ ready' = ready /\ finished' = finished
  BY DEF Broadcast, tasks
<1>2. n \in Node /\ w \in Thread
  BY NextToTell, Threads DEF Broadcast
<1>3. m.type \notin Descriptors
  BY Fields, KindsApart
<1>4. \A t \in Task : ~ Holds(d, t)
  BY NothingHeld
<1> HIDE DEF n, m, d
<1> QED
  BY <1>1, <1>2, <1>3, <1>4, SendPlaces

LEMMA SsendPlaces == ASSUME Inv, NEW w \in Worker, Ssend(w) PROVE Apart' /\ NoRepeat'
<1> DEFINE m == Data(doing[w].tag, NULL, 0, buffer[Here(w)])
           d == [doing[w] EXCEPT !.op = "ssend"]
<1>1. Send(w, doing[w].peer, m) /\ Do(w, d) /\ homenode' = homenode /\ ready' = ready /\ finished' = finished
      /\ doing[w].op = "bcast"
  BY DEF Ssend, tasks
<1>2. w \in Thread /\ Busy(doing[w], w)
  BY Threads, ThreadFacts
<1>3. doing[w].peer \in Node
  BY <1>1, <1>2 DEF Busy
<1>4. m.type \notin Descriptors
  BY Fields, KindsApart
<1>5. \A t \in Task : ~ Holds(d, t)
  BY <1>1, <1>2, OpPlaces
<1> HIDE DEF m, d
<1> QED
  BY <1>1, <1>2, <1>3, <1>4, <1>5, SendPlaces

LEMMA ToldPlaces == ASSUME Inv, NEW w \in Worker, Told(w) PROVE Apart' /\ NoRepeat'
<1> DEFINE d == IF told' = Others(w) THEN Idle ELSE Act("telling", NULL, {}, NULL, 0, NULL)
<1>1. chan' = chan /\ Do(w, d) /\ homenode' = homenode /\ ready' = ready /\ finished' = finished
  BY DEF Told, tasks
<1>2. \A t \in Task : ~ Holds(d, t)
  BY NothingHeld, IdleRunHold
<1> HIDE DEF d
<1> QED
  BY <1>1, <1>2, Threads, QuietPlaces

LEMMA MatchBufferPlaces ==
  ASSUME Inv, NEW n \in Node, NEW s \in Thread, MatchBuffer(n, s) PROVE Apart' /\ NoRepeat'
<1> DEFINE d == [doing[n] EXCEPT !.op = "arriving"]
<1>1. Matches(n, s) /\ Do(n, d) /\ homenode' = homenode /\ ready' = ready /\ finished' = finished
      /\ doing[n].op = "buffer"
  BY DEF MatchBuffer, tasks
<1>2. n \in Thread /\ Here(n) = n /\ Types
  BY Threads DEF Inv
<1>3. Receive(s, n, doing[n].tag)
  BY <1>1, <1>2, MatchesFacts
<1>4. \A t \in Task : ~ Holds(d, t)
  BY <1>1, <1>2, OpPlaces
<1> HIDE DEF d
<1> QED
  BY <1>1, <1>2, <1>3, <1>4, TakePlaces

LEMMA BufferArrivesPlaces == ASSUME Inv, NEW n \in Node, BufferArrives(n) PROVE Apart' /\ NoRepeat'
BY QuietPlaces, Threads, IdleRunHold DEF BufferArrives, tasks

\* A thread goes on from one task to what it does with it, or with another.
LEMMA TakeReadyPlaces ==
  ASSUME Inv, NEW w \in Worker, NEW t \in Task, TakeReady(w, t) PROVE Apart' /\ NoRepeat'
<1>1. /\ doing[w].op = "idle" /\ t \in ready[Here(w)] /\ Do(w, Run(t))
      /\ ready' = [ready EXCEPT ![Here(w)] = @ \ {t}]
      /\ chan' = chan /\ homenode' = homenode /\ finished' = finished
  BY DEF TakeReady
<1>2. w \in Thread /\ Here(w) \in Node /\ DoingType /\ ready \in [Node -> SUBSET Task]
  BY Threads DEF Inv, Types, TaskType
<1>3. At("ready", Here(w), t)
  BY <1>1, <1>2 DEF At
<1>4. homenode'[t] # NULL
  BY <1>1, <1>3, OnePlace
<1>5. ~ At("ready", Here(w), t)'
  BY <1>1, <1>2 DEF At
<1>6. ASSUME NEW u \in Task PROVE Comes(u, t, "thread", w)
  <2>1. \A y \in Node : u \in ready'[y] => u \in ready[y]
    BY <1>1, <1>2
  <2>2. \A x \in Thread : Holds(doing'[x], u) => Holds(doing[x], u) \/ (u = t /\ w = x)
    BY <1>1, <1>2, <1>6, DoHolds, IdleRunHold
  <2> QED
    BY <1>1, <2>1, <2>2 DEF Comes
<1> QED
  BY <1>1, <1>3, <1>4, <1>5, <1>6, Moved, SameHome, SameNoRepeat

\* The task that a thread was busy with goes from it to a place of another kind.
LEMMA LeavesThread ==
  ASSUME Inv, homenode' = homenode, NEW s \in Thread, NEW t \in Task, Holds(doing[s], t),
         NEW d, Do(s, d), \A u \in Task : ~ Holds(d, u),
         NEW K, NEW I, K # "thread",
         \A u \in Task : \A x \in Thread, y \in Node :
           Brings(chan'[<<x, y>>], u) => Brings(chan[<<x, y>>], u) \/ (u = t /\ K = "chan" /\ I = <<x, y>>),
         \A u \in Task : \A y \in Node : u \in ready'[y] => u \in ready[y] \/ (u = t /\ K = "ready" /\ I = y),
         \A u \in Task : u \in finished' => u \in finished \/ (u = t /\ K = "done" /\ I = 0)
  PROVE  Apart'
<1>1. DoingType
  BY DEF Inv, Types
<1>2. At("thread", s, t)
  BY DEF At
<1>3. homenode'[t] # NULL
  BY <1>2, OnePlace
<1>4. ~ Holds(doing'[s], t)
  BY <1>1, DoFacts
<1>5. ~ At("thread", s, t)'
  BY <1>4 DEF At
<1>6. ASSUME NEW u \in Task PROVE Comes(u, t, K, I)
  <2>1. \A x \in Thread : Holds(doing'[x], u) => Holds(doing[x], u)
    BY <1>1, <1>6, DoHolds
  <2> QED
    BY <1>6, <2>1 DEF Comes
<1> QED
  BY <1>2, <1>3, <1>5, <1>6, Moved, SameHome

LEMMA FinishAtHomePlaces == ASSUME Inv, NEW s \in Thread, FinishAtHome(s) PROVE Apart' /\ NoRepeat'
<1>1. /\ doing[s].op = "run" /\ finished' = finished \cup {doing[s].task} /\ Do(s, Idle)
      /\ chan' = chan /\ homenode' = homenode /\ ready' = ready
  BY DEF FinishAtHome
<1>2. doing[s].task \in Task /\ Holds(doing[s], doing[s].task)
  BY <1>1, ThreadFacts DEF Busy, Holds
<1>3. \A u \in Task : ~ Holds(Idle, u)
  BY IdleRunHold
<1>4. \A u \in Task : u \in finished' => u \in finished \/ (u = doing[s].task /\ "done" = "done" /\ 0 = 0)
  BY <1>1
<1>5. Apart'
  BY <1>1, <1>2, <1>3, <1>4, LeavesThread
<1> QED
  BY <1>1, <1>5, SameNoRepeat

LEMMA HaveResultsPlaces == ASSUME Inv, NEW n \in Node, HaveResults(n) PROVE Apart' /\ NoRepeat'
<1>1. /\ doing[n].op = "collect" /\ finished' = finished \cup {doing[n].task} /\ Do(n, Idle)
      /\ chan' = chan /\ homenode' = homenode /\ ready' = ready /\ n \in Thread
  BY Threads DEF HaveResults
<1>2. doing[n].task \in Task /\ Holds(doing[n], doing[n].task)
  BY <1>1, ThreadFacts DEF Busy, Holds
<1>3. \A u \in Task : ~ Holds(Idle, u)
  BY IdleRunHold
<1>4. \A u \in Task : u \in finished' => u \in finished \/ (u = doing[n].task /\ "done" = "done" /\ 0 = 0)
  BY <1>1
<1>5. Apart'
  BY <1>1, <1>2, <1>3, <1>4, LeavesThread
<1> QED
  BY <1>1, <1>5, SameNoRepeat

LEMMA HaveArgumentsPlaces == ASSUME Inv, NEW r \in Thread, HaveArguments(r) PROVE Apart' /\ NoRepeat'
<1> DEFINE t == doing[r].task
<1>1. doing[r].op = "receive" /\ chan' = chan /\ homenode' = homenode /\ finished' = finished
  BY DEF HaveArguments
<1>2. t \in Task /\ Holds(doing[r], t) /\ ready \in [Node -> SUBSET Task] /\ DoingType
  BY <1>1, ThreadFacts DEF Busy, Holds, Inv, Types, TaskType
<1>3. CASE Do(r, Run(t)) /\ ready' = ready
  <2>1. \A u \in Task : Holds(Run(t), u) => Holds(doing[r], u)
    BY <1>2, IdleRunHold
  <2> QED
    BY <1>1, <1>3, <2>1, QuietPlaces
<1>4. CASE r \in Node /\ Do(r, Idle) /\ ready' = [ready EXCEPT ![r] = @ \cup {t}]
  <2>1. \A u \in Task : ~ Holds(Idle, u)
    BY IdleRunHold
  <2>2. \A u \in Task : \A y \in Node : u \in ready'[y] => u \in ready[y] \/ (u = t /\ "ready" = "ready" /\ r = y)
    BY <1>2, <1>4
  <2>3. Apart'
    BY <1>1, <1>2, <1>4, <2>1, <2>2, LeavesThread
  <2> QED
    BY <1>1, <2>3, SameNoRepeat
<1>5. (Do(r, Run(t)) /\ ready' = ready) \/ (r \in Node /\ Do(r, Idle) /\ ready' = [ready EXCEPT ![r] = @ \cup {t}])
  BY Threads DEF HaveArguments
<1> QED
  BY <1>3, <1>4, <1>5

LEMMA FinishAwayPlaces == ASSUME Inv, NEW s \in Thread, FinishAway(s) PROVE Apart' /\ NoRepeat'
<1> DEFINE t == doing[s].task
           n == homenode[t]
           m == Descriptor(MAX_NVPS, "TORC_ANSWER", t)
           d == Settle(Act("result", t, SentResults(t), n, Tag(s), NULL))
<1>1. t \in Task /\ n \in Node /\ doing[s].op = "run" /\ ChanType /\ DoingType
  BY AwayFacts DEF Inv, Types
<1>2. Send(s, n, m) /\ Do(s, d) /\ homenode' = homenode /\ ready' = ready /\ finished' = finished
  BY DEF FinishAway, tasks
<1>3. Holds(doing[s], t)
  BY <1>1 DEF Holds
<1>4. m.type \in Descriptors /\ m.task = t
  BY Fields, KindsApart
<1>5. ASSUME NEW u \in Task PROVE ~ Holds(d, u)
  <2>1. SUFFICES ASSUME Holds(d, u) PROVE FALSE
    OBVIOUS
  <2>2. NULL = u
    BY <1>5, <2>1, SettleHolds, ActIs
  <2> QED
    BY <1>5, <2>2, DistinctAssumption
<1> HIDE DEF m, d, n
<1>6. \A u \in Task : \A x \in Thread, y \in Node :
        Brings(chan'[<<x, y>>], u) => Brings(chan[<<x, y>>], u) \/ (u = t /\ "chan" = "chan" /\ <<s, n>> = <<x, y>>)
  BY <1>1, <1>2, <1>4, SentBrings
<1>10. \A u \in Task : \A y \in Node : u \in ready'[y] => u \in ready[y] \/ (u = t /\ "chan" = "ready" /\ <<s, n>> = y)
  BY <1>2
<1>11. \A u \in Task : u \in finished' => u \in finished \/ (u = t /\ "chan" = "done" /\ <<s, n>> = 0)
  BY <1>2
<1>12. homenode' = homenode /\ Do(s, d) /\ t \in Task /\ "chan" # "thread"
  BY <1>1, <1>2
<1>7. Apart'
  BY <1>3, <1>5, <1>6, <1>10, <1>11, <1>12, LeavesThread
<1>8. ~ Brings(chan[<<s, n>>], t)
  <2>1. SUFFICES ASSUME Brings(chan[<<s, n>>], t) PROVE FALSE
    OBVIOUS
  <2>2. At("chan", <<s, n>>, t)
    BY <1>1, <2>1 DEF At
  <2>3. At("thread", s, t)
    BY <1>3 DEF At
  <2>4. "thread" = "chan"
    BY <1>1, <2>2, <2>3, OnePlace
  <2> QED
    BY <2>4
<1>9. NoRepeat'
  BY <1>1, <1>2, <1>4, <1>8, SentNoRepeat
<1> QED
  BY <1>7, <1>9

\* A task comes off a channel to the thread that has received its descriptor.
LEMMA ArrivesAt ==
  ASSUME Inv, homenode' = homenode, ready' = ready, finished' = finished,
         NEW s \in Thread, NEW n \in Node, NEW tag, Receive(s, n, tag),
         Received(s, n, tag).type \in Descriptors, NEW t \in Task, t = Received(s, n, tag).task,
         NEW r \in Thread, NEW d, Do(r, d), \A u \in Task : Holds(d, u) => u = t
  PROVE  Apart' /\ NoRepeat'
<1>1. ChanType /\ DoingType
  BY DEF Inv, Types
<1>2. Brings(chan[<<s, n>>], t) /\ ~ Brings(chan'[<<s, n>>], t)
  BY TakenGone
<1>3. At("chan", <<s, n>>, t)
  BY <1>2 DEF At
<1>4. homenode'[t] # NULL
  BY <1>3, OnePlace
<1>5. ~ At("chan", <<s, n>>, t)'
  BY <1>2 DEF At
<1>6. ASSUME NEW u \in Task PROVE Comes(u, t, "thread", r)
  <2>1. \A x \in Thread, y \in Node : Brings(chan'[<<x, y>>], u) => Brings(chan[<<x, y>>], u)
    BY <1>1, TakenBrings
  <2>2. \A x \in Thread : Holds(doing'[x], u) => Holds(doing[x], u) \/ (u = t /\ r = x)
    BY <1>1, <1>6, DoHolds
  <2> QED
    BY <2>1, <2>2 DEF Comes
<1>7. Apart'
  BY <1>3, <1>4, <1>5, <1>6, Moved, SameHome
<1> QED
  BY <1>7, TakenNoRepeat

LEMMA ActHolds ==
  ASSUME NEW op, NEW t, NEW A, NEW n, NEW g, NEW u \in Task, Holds(Act(op, t, A, n, g, NULL), u)
  PROVE  u = t
<1>1. u # NULL
  BY DistinctAssumption
<1> QED
  BY <1>1, ActIs DEF Holds

LEMMA RecvWorkPlaces ==
  ASSUME Inv, NEW n \in Node, NEW s \in Thread, RecvWork(n, s) PROVE Apart' /\ NoRepeat'
<1> DEFINE t == Received(s, n, MAX_NVPS).task
           d == Act("receive", t, AwaitedArgs(t), Here(s), Tag(s), NULL)
<1>1. Accepts(n, s, "TORC_NORMAL_ENQUEUE") /\ Receive(s, n, MAX_NVPS) /\ Do(n, d)
      /\ homenode' = homenode /\ ready' = ready /\ finished' = finished /\ n \in Thread
  BY Threads DEF RecvWork, Allocate, tasks, AcceptedTask
<1>2. Received(s, n, MAX_NVPS).type \in Descriptors /\ t \in Task
  BY <1>1, AcceptedOK, KindsApart
<1>3. \A u \in Task : Holds(d, u) => u = t
  BY ActHolds
<1> HIDE DEF d
<1> QED
  BY <1>1, <1>2, <1>3, ArrivesAt

LEMMA RecvAnswerPlaces ==
  ASSUME Inv, NEW n \in Node, NEW s \in Thread, RecvAnswer(n, s) PROVE Apart' /\ NoRepeat'
<1> DEFINE t == Received(s, n, MAX_NVPS).task
           d == Act("collect", t, AwaitedResults(t), Here(s), Tag(s), NULL)
<1>1. Accepts(n, s, "TORC_ANSWER") /\ Receive(s, n, MAX_NVPS) /\ Do(n, d)
      /\ homenode' = homenode /\ ready' = ready /\ finished' = finished /\ n \in Thread
  BY Threads DEF RecvAnswer, tasks, AcceptedTask
<1>2. Received(s, n, MAX_NVPS).type \in Descriptors /\ t \in Task
  BY <1>1, AcceptedOK, KindsApart
<1>3. \A u \in Task : Holds(d, u) => u = t
  BY ActHolds
<1> HIDE DEF d
<1> QED
  BY <1>1, <1>2, <1>3, ArrivesAt

LEMMA StolenPlaces == ASSUME Inv, NEW w \in Worker, Stolen(w) PROVE Apart' /\ NoRepeat'
<1> DEFINE k == doing[w].peer
           t == Received(k, Here(w), ReplyTag(w)).task
           e == Act("receive", t, AwaitedArgs(t), k, ReplyTag(w), NULL)
<1>1. Answered(w, "stolen") /\ homenode' = homenode /\ ready' = ready /\ finished' = finished
      /\ w \in Thread /\ Here(w) \in Node
  BY Threads DEF Stolen, tasks
<1>2. /\ k \in Node /\ k \in Thread /\ doing[w].tag = ReplyTag(w) /\ Receive(k, Here(w), ReplyTag(w))
      /\ Received(k, Here(w), ReplyTag(w)).type = "stolen" /\ t \in Task
  BY <1>1, AnswerFacts, Threads
<1>3. Do(w, e) \/ Do(w, Run(t))
  BY <1>2 DEF Stolen, Allocate
<1>4. \A u \in Task : Holds(e, u) => u = t
  BY ActHolds
<1>5. \A u \in Task : Holds(Run(t), u) => u = t
  BY IdleRunHold
<1> HIDE DEF e
<1>6. Received(k, Here(w), ReplyTag(w)).type \in Descriptors
  BY <1>2, KindsApart
<1>7. CASE Do(w, e)
  BY <1>1, <1>2, <1>4, <1>6, <1>7, ArrivesAt
<1>8. CASE Do(w, Run(t))
  BY <1>1, <1>2, <1>5, <1>6, <1>8, ArrivesAt
<1> QED
  BY <1>3, <1>7, <1>8

LEMMA CreatePlaces ==
  ASSUME Inv, NEW s \in Thread, NEW t \in Task, Create(s, t) PROVE Apart' /\ NoRepeat'
<1> DEFINE n == target[t]
           m == Descriptor(MAX_NVPS, "TORC_NORMAL_ENQUEUE", t)
           u == doing[s].task
           d == Settle(Act("send", t, SentArgs(t), n, Tag(s), u))
<1>1. /\ HomeKept(homenode, homenode') /\ homenode'[t] # NULL /\ homenode[t] = NULL /\ n \in Node
      /\ Here(s) \in Node /\ finished' = finished
  BY CreateHome, Threads DEF Inv, Create
<1>2. ChanType /\ DoingType /\ ready \in [Node -> SUBSET Task]
  BY DEF Inv, Types, TaskType
<1>3. CASE n = Here(s)
  <2>1. chan' = chan /\ doing' = doing /\ ready' = [ready EXCEPT ![Here(s)] = @ \cup {t}]
    BY <1>3 DEF Create
  <2>2. ASSUME NEW v \in Task PROVE Comes(v, t, "ready", Here(s))
    <3>1. \A y \in Node : v \in ready'[y] => v \in ready[y] \/ (v = t /\ Here(s) = y)
      BY <1>1, <1>2, <2>1
    <3> QED
      BY <1>1, <2>1, <3>1 DEF Comes
  <2>3. Apart'
    BY <1>1, <2>2, Moved
  <2> QED
    BY <2>1, <2>3, SameNoRepeat
<1>4. CASE n # Here(s)
  <2>1. Send(s, n, m) /\ Do(s, d) /\ ready' = ready
    BY <1>4 DEF Create
  <2>2. m.type \in Descriptors /\ m.task = t
    BY Fields, KindsApart
  <2>3. ASSUME NEW v \in Task, Holds(d, v) PROVE Holds(doing[s], v)
    <3>1. u = v
      BY <2>3, SettleHolds, ActIs
    <3>2. doing[s].op = "run"
      <4>1. doing[s].op = "idle" => u = NULL
        BY CallerIs DEF Inv
      <4>2. doing[s].op \in {"idle", "run"} /\ v # NULL
        BY CallerIs, DistinctAssumption DEF Inv
      <4> QED
        BY <3>1, <4>1, <4>2
    <3> QED
      BY <3>1, <3>2 DEF Holds
  <2> HIDE DEF m, d, n
  <2>4. ASSUME NEW v \in Task PROVE Comes(v, t, "chan", <<s, n>>)
    <3>1. \A x \in Thread, y \in Node :
            Brings(chan'[<<x, y>>], v) => Brings(chan[<<x, y>>], v) \/ (v = t /\ <<s, n>> = <<x, y>>)
      BY <1>1, <1>2, <2>1, <2>2, SentBrings
    <3>2. \A x \in Thread : Holds(doing'[x], v) => Holds(doing[x], v)
      BY <1>2, <2>1, <2>3, <2>4, DoHolds
    <3> QED
      BY <1>1, <2>1, <3>1, <3>2 DEF Comes
  <2>5. Apart'
    BY <1>1, <2>4, Moved
  <2>6. ~ Brings(chan[<<s, n>>], t)
    <3>1. SUFFICES ASSUME Brings(chan[<<s, n>>], t) PROVE FALSE
      OBVIOUS
    <3>2. At("chan", <<s, n>>, t)
      BY <1>1, <3>1 DEF At
    <3> QED
      BY <1>1, <3>2, OnePlace
  <2>7. NoRepeat'
    BY <1>1, <2>1, <2>2, <2>6, SentNoRepeat
  <2> QED
    BY <2>5, <2>7
<1> QED
  BY <1>3, <1>4

\* What an append adds to the messages of a channel.
LEMMA AppendNoRepeat ==
  ASSUME NEW q \in Seq(Letter), NEW m, ~ (m.type \in Descriptors) \/ ~ Brings(q, m.task),
         \A p, r \in DOMAIN q :
           q[p].type \in Descriptors /\ q[r].type \in Descriptors /\ q[p].task = q[r].task => p = r,
         NEW p \in DOMAIN Append(q, m), NEW r \in DOMAIN Append(q, m),
         Append(q, m)[p].type \in Descriptors, Append(q, m)[r].type \in Descriptors,
         Append(q, m)[p].task = Append(q, m)[r].task
  PROVE  p = r
<1>1. \A u \in DOMAIN q : Append(q, m)[u] = q[u]
  BY AppendFacts
<1>2. \A u \in DOMAIN Append(q, m) : u \notin DOMAIN q => u = Len(q) + 1
  BY AppendFacts
<1>3. Append(q, m)[Len(q) + 1] = m
  BY AppendFacts
<1>4. ~ (m.type \in Descriptors) \/ \A u \in DOMAIN q : ~ (q[u].type \in Descriptors /\ q[u].task = m.task)
  BY DEF Brings
<1>5. CASE p \in DOMAIN q /\ r \in DOMAIN q
  <2>1. Append(q, m)[p] = q[p] /\ Append(q, m)[r] = q[r]
    BY <1>1, <1>5
  <2> QED
    BY <1>5, <2>1
<1>6. CASE p \in DOMAIN q /\ r \notin DOMAIN q
  <2>1. Append(q, m)[p] = q[p] /\ Append(q, m)[r] = m
    BY <1>1, <1>2, <1>3, <1>6
  <2> QED
    BY <1>4, <1>6, <2>1
<1>7. CASE p \notin DOMAIN q /\ r \in DOMAIN q
  <2>1. Append(q, m)[r] = q[r] /\ Append(q, m)[p] = m
    BY <1>1, <1>2, <1>3, <1>7
  <2> QED
    BY <1>4, <1>7, <2>1
<1>8. CASE p \notin DOMAIN q /\ r \notin DOMAIN q
  <2>1. p = Len(q) + 1
    BY <1>2, <1>8
  <2>2. r = Len(q) + 1
    BY <1>2, <1>8
  <2> QED
    BY <2>1, <2>2
<1> QED
  BY <1>5, <1>6, <1>7, <1>8

LEMMA ServeThiefPlaces ==
  ASSUME Inv, NEW n \in Node, NEW s \in Thread, ServeThief(n, s) PROVE Apart' /\ NoRepeat'
<1>0. /\ s \in Worker /\ homenode' = homenode /\ HomeKept(homenode, homenode')
      /\ Here(s) \in Node /\ n \in Thread /\ doing[n].op = "idle"
  BY ThiefFacts, Threads, SameHome
<1>1. First(s, n, MAX_NVPS) # 0 /\ finished' = finished
  BY DEF ServeThief, Accepts
<1>2. ChanType /\ DoingType /\ ready \in [Node -> SUBSET Task] /\ NoRepeat
  BY DEF Inv, Types, TaskType, Traffic
<1>3. PICK m \in Letter :
           /\ Replies(n, s, m) /\ m.tag = ReplyTag(s)
           /\ \/ /\ m.type = "stolen" /\ m.task \in ready[n] /\ m.task \in Task
                 /\ ready' = [ready EXCEPT ![n] = @ \ {m.task}]
                 /\ Do(n, IF homenode[m.task] = Here(s) THEN Idle
                          ELSE Settle(Act("send", m.task, SentArgs(m.task), Here(s), ReplyTag(s), NULL)))
              \/ /\ m.type = "TORC_NO_WORK" /\ m.task = NULL /\ doing' = doing /\ ready' = ready
  BY ReplyFacts
<1>4. ASSUME NEW x \in Thread, NEW y \in Node, NEW v, Brings(chan'[<<x, y>>], v)
      PROVE  Brings(chan[<<x, y>>], v) \/ (x = n /\ y = Here(s) /\ m.type \in Descriptors /\ m.task = v)
  <2>1. PICK p \in DOMAIN chan'[<<x, y>>] : chan'[<<x, y>>][p].type \in Descriptors /\ chan'[<<x, y>>][p].task = v
    BY <1>4 DEF Brings
  <2>2. CASE x = n /\ y = Here(s) /\ chan'[<<x, y>>][p] = m
    BY <2>1, <2>2
  <2>3. CASE \E r \in DOMAIN chan[<<x, y>>] : chan'[<<x, y>>][p] = chan[<<x, y>>][r]
    BY <2>1, <2>3 DEF Brings
  <2> QED
    BY <1>0, <1>1, <1>2, <1>3, <2>2, <2>3, RepliesOrOld
<1>5. m.type \in Descriptors => m.task \in ready[n] /\ m.task \in Task
  BY <1>3, KindsApart
<1>6. Apart'
  <2>1. CASE m.type = "TORC_NO_WORK"
    <3>1. ready' = ready /\ doing' = doing /\ m.type \notin Descriptors
      BY <1>3, <2>1, KindsApart
    <3>2. \A v \in Task : Comes(v, NULL, "nowhere", 0)
      BY <1>1, <1>4, <3>1 DEF Comes
    <3> QED
      BY <1>0, <3>2, Stays
  <2>2. CASE m.type # "TORC_NO_WORK"
    <3> DEFINE t == m.task
               d == IF homenode[t] = Here(s) THEN Idle
                    ELSE Settle(Act("send", t, SentArgs(t), Here(s), ReplyTag(s), NULL))
    <3>1. t \in ready[n] /\ t \in Task /\ ready' = [ready EXCEPT ![n] = @ \ {t}] /\ Do(n, d)
      BY <1>3, <2>2
    <3>2. ASSUME NEW v \in Task PROVE ~ Holds(d, v)
      <4>1. ~ Holds(Idle, v) /\ v # NULL
        BY <3>2, IdleRunHold, DistinctAssumption
      <4>2. Holds(Settle(Act("send", t, SentArgs(t), Here(s), ReplyTag(s), NULL)), v) => NULL = v
        BY <3>2, SettleHolds, ActIs
      <4> QED
        BY <4>1, <4>2
    <3> HIDE DEF d
    <3>3. At("ready", n, t) /\ ~ At("ready", n, t)'
      BY <1>2, <3>1 DEF At
    <3>4. homenode'[t] # NULL
      BY <1>0, <3>1, <3>3, OnePlace
    <3>5. ASSUME NEW v \in Task PROVE Comes(v, t, "chan", <<n, Here(s)>>)
      <4>1. \A x \in Thread, y \in Node :
              Brings(chan'[<<x, y>>], v) => Brings(chan[<<x, y>>], v) \/ (v = t /\ <<n, Here(s)>> = <<x, y>>)
        BY <1>4
      <4>2. \A x \in Thread : Holds(doing'[x], v) => Holds(doing[x], v)
        BY <1>0, <1>2, <3>1, <3>2, <3>5, DoHolds
      <4>3. \A y \in Node : v \in ready'[y] => v \in ready[y]
        BY <1>2, <3>1
      <4> QED
        BY <1>1, <4>1, <4>2, <4>3 DEF Comes
    <3> HIDE DEF t
    <3> QED
      BY <1>0, <3>1, <3>3, <3>4, <3>5, Moved
  <2> QED
    BY <2>1, <2>2
<1>7. ~ (m.type \in Descriptors) \/ ~ Brings(chan[<<n, Here(s)>>], m.task)
  <2>1. SUFFICES ASSUME m.type \in Descriptors, Brings(chan[<<n, Here(s)>>], m.task) PROVE FALSE
    OBVIOUS
  <2>2. At("chan", <<n, Here(s)>>, m.task) /\ At("ready", n, m.task) /\ m.task \in Task
    BY <1>0, <1>5, <2>1 DEF At
  <2>3. "ready" = "chan"
    BY <2>2, OnePlace
  <2> QED
    BY <2>3
<1>8. /\ chan[<<s, n>>] \in Seq(Letter) /\ chan[<<n, Here(s)>>] \in Seq(Letter)
      /\ First(s, n, MAX_NVPS) \in DOMAIN chan[<<s, n>>]
      /\ chan'[<<s, n>>] = RemoveAt(chan[<<s, n>>], First(s, n, MAX_NVPS))
      /\ chan'[<<n, Here(s)>>] = Append(chan[<<n, Here(s)>>], m)
      /\ \A x \in Thread, y \in Node :
           ~ (x = s /\ y = n) /\ ~ (x = n /\ y = Here(s)) => chan'[<<x, y>>] = chan[<<x, y>>]
  BY <1>0, <1>1, <1>2, <1>3, RepliesFacts
<1>9. ASSUME NEW x \in Thread, NEW y \in Node, NEW p \in DOMAIN chan'[<<x, y>>], NEW r \in DOMAIN chan'[<<x, y>>],
             chan'[<<x, y>>][p].type \in Descriptors, chan'[<<x, y>>][r].type \in Descriptors,
             chan'[<<x, y>>][p].task = chan'[<<x, y>>][r].task
      PROVE  p = r
  <2>0. \A a \in Thread, b \in Node : \A k, l \in DOMAIN chan[<<a, b>>] :
          chan[<<a, b>>][k].type \in Descriptors /\ chan[<<a, b>>][l].type \in Descriptors
          /\ chan[<<a, b>>][k].task = chan[<<a, b>>][l].task => k = l
    BY <1>2 DEF NoRepeat
  <2>1. CASE x = s /\ y = n
    <3> DEFINE q == chan[<<s, n>>]
               f == First(s, n, MAX_NVPS)
    <3>1. q \in Seq(Letter) /\ f \in DOMAIN q /\ chan'[<<x, y>>] = RemoveAt(q, f)
      BY <1>8, <2>1
    <3>2. \A k, l \in DOMAIN q :
            q[k].type \in Descriptors /\ q[l].type \in Descriptors /\ q[k].task = q[l].task => k = l
      BY <2>0
    <3> HIDE DEF q, f
    <3>3. /\ p \in DOMAIN RemoveAt(q, f) /\ r \in DOMAIN RemoveAt(q, f)
          /\ RemoveAt(q, f)[p].type \in Descriptors /\ RemoveAt(q, f)[r].type \in Descriptors
          /\ RemoveAt(q, f)[p].task = RemoveAt(q, f)[r].task
      BY <1>9, <3>1
    <3> QED
      BY <3>1, <3>2, <3>3, RemovedNoRepeat
  <2>2. CASE x = n /\ y = Here(s) /\ ~ (x = s /\ y = n)
    <3> DEFINE q == chan[<<n, Here(s)>>]
    <3>1. q \in Seq(Letter) /\ chan'[<<x, y>>] = Append(q, m)
      BY <1>8, <2>2
    <3>2. \A k, l \in DOMAIN q :
            q[k].type \in Descriptors /\ q[l].type \in Descriptors /\ q[k].task = q[l].task => k = l
      BY <1>0, <2>0
    <3>3. ~ (m.type \in Descriptors) \/ ~ Brings(q, m.task)
      BY <1>7
    <3> HIDE DEF q
    <3>4. /\ p \in DOMAIN Append(q, m) /\ r \in DOMAIN Append(q, m)
          /\ Append(q, m)[p].type \in Descriptors /\ Append(q, m)[r].type \in Descriptors
          /\ Append(q, m)[p].task = Append(q, m)[r].task
      BY <1>9, <3>1
    <3> QED
      BY <3>1, <3>2, <3>3, <3>4, AppendNoRepeat
  <2>3. CASE ~ (x = s /\ y = n) /\ ~ (x = n /\ y = Here(s))
    <3>1. chan'[<<x, y>>] = chan[<<x, y>>]
      BY <1>8, <1>9, <2>3
    <3> QED
      BY <1>9, <2>0, <3>1
  <2> QED
    BY <2>1, <2>2, <2>3
<1> QED
  BY <1>6, <1>9 DEF NoRepeat

----------------------------------------------------------------------------
(* The invariant.                                                          *)

LEMMA InitTraffic == Init => Traffic
<1> SUFFICES ASSUME Init PROVE Traffic
  OBVIOUS
<1>1. \A x \in Thread, y \in Node : chan[<<x, y>>] = << >> /\ DOMAIN chan[<<x, y>>] = {}
  BY DEF Init
<1>2. \A x \in Thread : doing[x] = Idle
  BY DEF Init
<1>3. /\ Idle.op = "idle" /\ Idle.task = NULL /\ Idle.inside = NULL
  BY IdleRun
<1>4. \A x \in Thread, y \in Node, L \in BOOLEAN : Lane(chan[<<x, y>>], L) = {}
  BY <1>1 DEF Lane
<1>5. \A y, L : Owes(Idle, y, L) = NoDue
  BY <1>3 DEF Owes
<1>6. \A x : Expects(Idle, x) = NoDue
  BY <1>3 DEF Expects
<1>7. \A x : ~ Asks(Idle, x)
  BY <1>3 DEF Asks
<1>8. WorkChain
  <2>1. ASSUME NEW x \in Thread, NEW y \in Node PROVE WorkAt(x, y)
    <3>1. y \in Thread
      BY Threads
    <3> QED
      BY <1>2, <1>4, <1>5, <1>6, <3>1 DEF WorkAt, ChainOf
  <2> QED
    BY <2>1 DEF WorkChain
<1>9. ReplyChain
  <2>1. ASSUME NEW x \in Node, NEW y \in Node PROVE ReplyAt(x, y)
    <3>1. x \in Thread /\ \A w \in Worker : w \in Thread
      BY Threads
    <3>2. \A w \in Worker : ~ Asks(doing[w], x)
      BY <1>2, <1>7, <3>1
    <3>3. Lane(chan[<<x, y>>], TRUE) = {} /\ Owes(doing[x], y, TRUE) = NoDue
      BY <1>2, <1>4, <1>5, <3>1
    <3> QED
      BY <3>2, <3>3 DEF ReplyAt
  <2> QED
    BY <2>1 DEF ReplyChain
<1>10. Messages /\ NoRepeat
  BY <1>1 DEF Messages, NoRepeat
<1>11. Activities
  BY <1>2, IdleOK DEF Activities
<1>12. Asking
  <2>1. \A x \in Worker \cup Node : x \in Thread
    BY Threads
  <2>2. Alone /\ Serving
    BY <1>2, <1>3, <2>1 DEF Alone, Serving
  <2>3. RequestsLast /\ Asked
    BY <1>1, <1>4, <2>1 DEF RequestsLast, Asked
  <2> QED
    BY <2>2, <2>3 DEF Asking
<1>13. Apart
  <2>1. ASSUME NEW t \in Task, NEW k, NEW i, At(k, i, t) PROVE FALSE
    <3>1. CASE k = "chan"
      <4>1. PICK x \in Thread, y \in Node : Brings(chan[<<x, y>>], t)
        BY <2>1, <3>1 DEF At
      <4> QED
        BY <1>1, <4>1 DEF Brings
    <3>2. CASE k = "thread"
      BY <1>2, <2>1, <3>2, IdleRunHold DEF At
    <3>3. CASE k \in {"ready", "done"}
      BY <2>1, <3>3 DEF At, Init
    <3> QED
      BY <2>1, <3>1, <3>2, <3>3 DEF At
  <2> QED
    BY <2>1 DEF Apart
<1> QED
  BY <1>8, <1>9, <1>10, <1>11, <1>12, <1>13 DEF Traffic

LEMMA CreateTraffic ==
  ASSUME Inv, QuietServers, NEW s \in Thread, NEW t \in Task, Create(s, t) PROVE Traffic'
<1>1. Messages'
  BY CreateMessages
<1> QED
  BY <1>1, CreateChains, CreateActivities, CreateAsking, CreatePlaces DEF Traffic

LEMMA SendArgumentTraffic ==
  ASSUME Inv, NEW s \in Thread, SendArgument(s) PROVE Traffic'
<1>1. Messages'
  BY SendArgumentMessages
<1> QED
  BY <1>1, SendArgumentChains, SendArgumentActivities, SendArgumentAsking, SendArgumentPlaces DEF Traffic

LEMMA RecvWorkTraffic ==
  ASSUME Inv, NEW n \in Node, NEW s \in Thread, RecvWork(n, s) PROVE Traffic'
<1>1. Messages'
  <2>1. Receive(s, n, MAX_NVPS) /\ homenode' = homenode /\ s \in Thread /\ n \in Node
    BY DEF RecvWork, tasks
  <2> QED
    BY <2>1, TakenMessages
<1> QED
  BY <1>1, RecvWorkChains, RecvWorkActivities, RecvWorkAsking, RecvWorkPlaces DEF Traffic

LEMMA RecvAnswerTraffic ==
  ASSUME Inv, NEW n \in Node, NEW s \in Thread, RecvAnswer(n, s) PROVE Traffic'
<1>1. Messages'
  <2>1. Receive(s, n, MAX_NVPS) /\ homenode' = homenode /\ s \in Thread /\ n \in Node
    BY DEF RecvAnswer, tasks
  <2> QED
    BY <2>1, TakenMessages
<1> QED
  BY <1>1, RecvAnswerChains, RecvAnswerActivities, RecvAnswerAsking, RecvAnswerPlaces DEF Traffic

LEMMA ServeThiefTraffic ==
  ASSUME Inv, NEW n \in Node, NEW s \in Thread, ServeThief(n, s) PROVE Traffic'
<1>1. Messages'
  BY ServeThiefMessages
<1> QED
  BY <1>1, ServeThiefChains, ServeThiefActivities, ServeThiefAsking, ServeThiefPlaces DEF Traffic

LEMMA RecvBcastTraffic ==
  ASSUME Inv, NEW n \in Node, NEW s \in Thread, RecvBcast(n, s) PROVE Traffic'
<1>1. Messages'
  <2>1. Receive(s, n, MAX_NVPS) /\ homenode' = homenode /\ s \in Thread /\ n \in Node
    BY DEF RecvBcast, tasks
  <2> QED
    BY <2>1, TakenMessages
<1> QED
  BY <1>1, RecvBcastChains, RecvBcastActivities, RecvBcastAsking, RecvBcastPlaces DEF Traffic

LEMMA EnterToReceiveTraffic ==
  ASSUME Inv, NEW s \in Thread, EnterToReceive(s) PROVE Traffic'
<1>1. Messages'
  <2>1. chan' = chan /\ HomeKept(homenode, homenode')
    BY SameHome DEF EnterToReceive, tasks
  <2> QED
    BY <2>1, KeptMessages
<1> QED
  BY <1>1, EnterToReceiveChains, EnterToReceiveActivities, EnterToReceiveAsking, EnterToReceivePlaces DEF Traffic

LEMMA RecvArgumentTraffic ==
  ASSUME Inv, NEW r \in Thread, NEW s \in Thread, RecvArgument(r, s) PROVE Traffic'
<1>1. Messages'
  <2>1. Receive(s, Here(r), doing[r].tag) /\ homenode' = homenode /\ Here(r) \in Node
    BY Threads DEF RecvArgument, Matches, tasks
  <2> QED
    BY <2>1, TakenMessages
<1> QED
  BY <1>1, RecvArgumentChains, RecvArgumentActivities, RecvArgumentAsking, RecvArgumentPlaces DEF Traffic

LEMMA HaveArgumentsTraffic ==
  ASSUME Inv, NEW r \in Thread, HaveArguments(r) PROVE Traffic'
<1>1. Messages'
  <2>1. chan' = chan /\ HomeKept(homenode, homenode')
    BY SameHome DEF HaveArguments, tasks
  <2> QED
    BY <2>1, KeptMessages
<1> QED
  BY <1>1, HaveArgumentsChains, HaveArgumentsActivities, HaveArgumentsAsking, HaveArgumentsPlaces DEF Traffic

LEMMA CollectResultTraffic ==
  ASSUME Inv, NEW r \in Node, NEW s \in Thread, CollectResult(r, s) PROVE Traffic'
<1>1. Messages'
  <2>1. Receive(s, Here(r), doing[r].tag) /\ homenode' = homenode /\ Here(r) \in Node
    BY Threads DEF CollectResult, Matches, tasks
  <2> QED
    BY <2>1, TakenMessages
<1> QED
  BY <1>1, CollectResultChains, CollectResultActivities, CollectResultAsking, CollectResultPlaces DEF Traffic

LEMMA HaveResultsTraffic ==
  ASSUME Inv, NEW n \in Node, HaveResults(n) PROVE Traffic'
<1>1. Messages'
  <2>1. chan' = chan /\ HomeKept(homenode, homenode')
    BY SameHome DEF HaveResults, tasks
  <2> QED
    BY <2>1, KeptMessages
<1> QED
  BY <1>1, HaveResultsChains, HaveResultsActivities, HaveResultsAsking, HaveResultsPlaces DEF Traffic

LEMMA TakeReadyTraffic ==
  ASSUME Inv, NEW w \in Worker, NEW t \in Task, TakeReady(w, t) PROVE Traffic'
<1>1. Messages'
  <2>1. chan' = chan /\ HomeKept(homenode, homenode')
    BY SameHome DEF TakeReady, tasks
  <2> QED
    BY <2>1, KeptMessages
<1> QED
  BY <1>1, TakeReadyChains, TakeReadyActivities, TakeReadyAsking, TakeReadyPlaces DEF Traffic

LEMMA FinishAtHomeTraffic ==
  ASSUME Inv, NEW s \in Thread, FinishAtHome(s) PROVE Traffic'
<1>1. Messages'
  <2>1. chan' = chan /\ HomeKept(homenode, homenode')
    BY SameHome DEF FinishAtHome, tasks
  <2> QED
    BY <2>1, KeptMessages
<1> QED
  BY <1>1, FinishAtHomeChains, FinishAtHomeActivities, FinishAtHomeAsking, FinishAtHomePlaces DEF Traffic

LEMMA FinishAwayTraffic ==
  ASSUME Inv, QuietServers, NEW s \in Thread, FinishAway(s) PROVE Traffic'
<1>1. Messages'
  BY FinishAwayMessages
<1> QED
  BY <1>1, FinishAwayChains, FinishAwayActivities, FinishAwayAsking, FinishAwayPlaces DEF Traffic

LEMMA SendResultTraffic ==
  ASSUME Inv, NEW s \in Thread, SendResult(s) PROVE Traffic'
<1>1. Messages'
  BY SendResultMessages
<1> QED
  BY <1>1, SendResultChains, SendResultActivities, SendResultAsking, SendResultPlaces DEF Traffic

LEMMA AskForWorkTraffic ==
  ASSUME Inv, NEW w \in Worker, AskForWork(w) PROVE Traffic'
<1>1. Messages'
  BY AskForWorkMessages
<1> QED
  BY <1>1, AskForWorkChains, AskForWorkActivities, AskForWorkAsking, AskForWorkPlaces DEF Traffic

LEMMA GiveUpTraffic ==
  ASSUME Inv, NEW w \in Worker, GiveUp(w) PROVE Traffic'
<1>1. Messages'
  <2>1. chan' = chan /\ HomeKept(homenode, homenode')
    BY SameHome DEF GiveUp, tasks
  <2> QED
    BY <2>1, KeptMessages
<1> QED
  BY <1>1, GiveUpChains, GiveUpActivities, GiveUpAsking, GiveUpPlaces DEF Traffic

LEMMA RefusedTraffic ==
  ASSUME Inv, NEW w \in Worker, Refused(w) PROVE Traffic'
<1>1. Messages'
  <2>1. Answered(w, "TORC_NO_WORK") /\ homenode' = homenode
    BY DEF Refused, tasks
  <2>2. Receive(doing[w].peer, Here(w), doing[w].tag) /\ doing[w].peer \in Thread /\ Here(w) \in Node
    BY <2>1, AnswerFacts, Threads
  <2> QED
    BY <2>1, <2>2, TakenMessages
<1> QED
  BY <1>1, RefusedChains, RefusedActivities, RefusedAsking, RefusedPlaces DEF Traffic

LEMMA StolenTraffic ==
  ASSUME Inv, NEW w \in Worker, Stolen(w) PROVE Traffic'
<1>1. Messages'
  <2>1. Answered(w, "stolen") /\ homenode' = homenode
    BY DEF Stolen, tasks
  <2>2. Receive(doing[w].peer, Here(w), doing[w].tag) /\ doing[w].peer \in Thread /\ Here(w) \in Node
    BY <2>1, AnswerFacts, Threads
  <2> QED
    BY <2>1, <2>2, TakenMessages
<1> QED
  BY <1>1, StolenChains, StolenActivities, StolenAsking, StolenPlaces DEF Traffic

LEMMA BroadcastTraffic ==
  ASSUME Inv, NEW w \in Worker, Broadcast(w) PROVE Traffic'
<1>1. Messages'
  BY BroadcastMessages
<1> QED
  BY <1>1, BroadcastChains, BroadcastActivities, BroadcastAsking, BroadcastPlaces DEF Traffic

LEMMA SsendTraffic ==
  ASSUME Inv, NEW w \in Worker, Ssend(w) PROVE Traffic'
<1>1. Messages'
  BY SsendMessages
<1> QED
  BY <1>1, SsendChains, SsendActivities, SsendAsking, SsendPlaces DEF Traffic

LEMMA ToldTraffic ==
  ASSUME Inv, NEW w \in Worker, Told(w) PROVE Traffic'
<1>1. Messages'
  <2>1. chan' = chan /\ HomeKept(homenode, homenode')
    BY SameHome DEF Told, tasks
  <2> QED
    BY <2>1, KeptMessages
<1> QED
  BY <1>1, ToldChains, ToldActivities, ToldAsking, ToldPlaces DEF Traffic

LEMMA MatchBufferTraffic ==
  ASSUME Inv, NEW r \in Node, NEW s \in Thread, MatchBuffer(r, s) PROVE Traffic'
<1>1. Messages'
  <2>1. Receive(s, Here(r), doing[r].tag) /\ homenode' = homenode /\ Here(r) \in Node
    BY Threads DEF MatchBuffer, Matches, tasks
  <2> QED
    BY <2>1, TakenMessages
<1> QED
  BY <1>1, MatchBufferChains, MatchBufferActivities, MatchBufferAsking, MatchBufferPlaces DEF Traffic

LEMMA BufferArrivesTraffic ==
  ASSUME Inv, NEW n \in Node, BufferArrives(n) PROVE Traffic'
<1>1. Messages'
  <2>1. chan' = chan /\ HomeKept(homenode, homenode')
    BY SameHome DEF BufferArrives, tasks
  <2> QED
    BY <2>1, KeptMessages
<1> QED
  BY <1>1, BufferArrivesChains, BufferArrivesActivities, BufferArrivesAsking, BufferArrivesPlaces DEF Traffic

LEMMA SameTraffic == ASSUME Inv, UNCHANGED vars PROVE Traffic'
<1>1. /\ chan' = chan /\ doing' = doing /\ homenode' = homenode /\ ready' = ready /\ finished' = finished
      /\ HomeKept(homenode, homenode')
  BY SameHome DEF vars, tasks
<1>2. Messages' /\ Activities' /\ Asking' /\ NoRepeat'
  BY <1>1, KeptMessages, SameActivities, SameAsking, SameNoRepeat
<1>3. Apart'
  <2>1. \A t \in Task : Comes(t, NULL, "nowhere", 0)
    BY <1>1 DEF Comes
  <2> QED
    BY <1>1, <2>1, Stays
<1>4. WorkChain' /\ ReplyChain'
  BY <1>1 DEF Inv, Traffic, WorkChain, WorkAt, ReplyChain, ReplyAt
<1> QED
  BY <1>2, <1>3, <1>4 DEF Traffic

LEMMA ServerTraffic == ASSUME Inv, NEW n \in Node, ServerStep(n) PROVE Traffic'
<1>1. ASSUME NEW s \in Thread, RecvWork(n, s) \/ RecvAnswer(n, s) \/ ServeThief(n, s) PROVE Traffic'
  BY <1>1, RecvWorkTraffic, RecvAnswerTraffic, ServeThiefTraffic
<1>2. ASSUME NEW s \in Thread, RecvBcast(n, s) \/ CollectResult(n, s) \/ MatchBuffer(n, s) PROVE Traffic'
  BY <1>2, RecvBcastTraffic, CollectResultTraffic, MatchBufferTraffic
<1> QED
  BY <1>1, <1>2, HaveResultsTraffic, BufferArrivesTraffic DEF ServerStep

LEMMA WorkerTraffic == ASSUME Inv, NEW w \in Worker, WorkerStep(w) PROVE Traffic'
<1>1. (\E t \in Task : TakeReady(w, t)) \/ AskForWork(w) \/ GiveUp(w) \/ Refused(w) => Traffic'
  BY TakeReadyTraffic, AskForWorkTraffic, GiveUpTraffic, RefusedTraffic
<1>2. Stolen(w) \/ Broadcast(w) \/ Ssend(w) \/ Told(w) => Traffic'
  BY StolenTraffic, BroadcastTraffic, SsendTraffic, ToldTraffic
<1> QED
  BY <1>1, <1>2 DEF WorkerStep

LEMMA StepInv == ASSUME Inv, QuietServers, [Next]_vars PROVE Inv'
<1>1. Types' /\ Requests'
  BY StepTypes DEF Inv
<1>2. ASSUME NEW s \in Thread, ThreadStep(s) PROVE Traffic'
  <2>1. (\E t \in Task : Create(s, t)) \/ SendArgument(s) \/ EnterToReceive(s) \/ HaveArguments(s) => Traffic'
    BY CreateTraffic, SendArgumentTraffic, EnterToReceiveTraffic, HaveArgumentsTraffic
  <2>2. (\E r \in Thread : RecvArgument(s, r)) \/ FinishAtHome(s) => Traffic'
    BY RecvArgumentTraffic, FinishAtHomeTraffic
  <2>3. FinishAway(s) \/ SendResult(s) => Traffic'
    BY FinishAwayTraffic, SendResultTraffic
  <2>4. (s \in Node /\ ServerStep(s)) \/ (s \in Worker /\ WorkerStep(s)) => Traffic'
    BY ServerTraffic, WorkerTraffic
  <2> QED
    BY <1>2, <2>1, <2>2, <2>3, <2>4 DEF ThreadStep
<1>3. Traffic'
  BY <1>2, SameTraffic DEF Next
<1> QED
  BY <1>1, <1>3 DEF Inv

LEMMA InitInv == Init => Inv
BY InitTypes, InitRequests, InitTraffic DEF Inv

\* Messages, activities and places fit together in every state, when the
\* tasks that servers execute themselves send no data.
THEOREM AlwaysInv == QuietServers => (Spec => []Inv)
<1> SUFFICES ASSUME QuietServers PROVE Spec => []Inv
  OBVIOUS
<1>1. Init => Inv
  BY InitInv
<1>2. Inv /\ [Next]_vars => Inv'
  BY StepInv
<1> QED
  BY <1>1, <1>2, PTL DEF Spec

----------------------------------------------------------------------------
(* Who has to do with a task.                                              *)

Mentions(d, t) == Holds(d, t) \/ (d.op \in {"send", "result"} /\ d.task = t)

\* What comes out of a chain for a task is what its ends are busy with.
LEMMA DueTask == ASSUME NEW t \in Task, NEW u, NEW A, DueOf(u, A).task = t PROVE u = t /\ A # {}
BY DistinctAssumption DEF DueOf, NoDue

LEMMA Traced ==
  ASSUME NEW q \in Seq(Letter), NEW L \in BOOLEAN, NEW dr, NEW ds, NEW n, NEW home, ChainOf(q, L, dr, ds, n, home),
         NEW t \in Task, ds.task = t
  PROVE  dr.task = t \/ \E p \in Lane(q, L) : q[p].task = t /\ q[p].type # "data"
<1> SUFFICES ASSUME dr.task # t, \A p \in Lane(q, L) : q[p].task = t => q[p].type = "data" PROVE FALSE
  OBVIOUS
<1>1. ds.task # t
  BY Block
<1> QED
  BY <1>1

LEMMA BringsIt ==
  ASSUME Inv, NEW x \in Thread, NEW y \in Node, NEW t \in Task, NEW L,
         \E p \in Lane(chan[<<x, y>>], L) : chan[<<x, y>>][p].task = t /\ chan[<<x, y>>][p].type # "data"
  PROVE  Brings(chan[<<x, y>>], t)
<1>1. PICK p \in Lane(chan[<<x, y>>], L) : chan[<<x, y>>][p].task = t /\ chan[<<x, y>>][p].type # "data"
  OBVIOUS
<1>2. p \in DOMAIN chan[<<x, y>>]
  BY DEF Lane
<1>3. chan[<<x, y>>][p] \in Letter
  BY <1>2, InvFacts
<1>4. t # NULL
  BY DistinctAssumption
<1>5. chan[<<x, y>>][p].type \in Descriptors
  BY <1>1, <1>3, <1>4 DEF Letter, Message, Descriptors
<1> QED
  BY <1>1, <1>2, <1>5 DEF Brings

\* While a task is being sent to a node its descriptor is on the way, or a
\* thread of that node waits for the rest.
LEMMA Toward ==
  ASSUME Inv, NEW s \in Thread, doing[s].op \in {"send", "result"}, NEW t \in Task, doing[s].task = t
  PROVE  /\ doing[s].peer \in Node /\ doing[s].peer # Here(s) /\ homenode[t] # NULL
         /\ doing[s].op = "send" => doing[s].peer # homenode[t]
         /\ doing[s].op = "result" => doing[s].peer = homenode[t] /\ s \in Worker
         /\ \/ Brings(chan[<<s, doing[s].peer>>], t)
            \/ \E r \in Thread : /\ Here(r) = doing[s].peer /\ doing[r].task = t
                                 /\ doing[r].op = IF doing[s].op = "send" THEN "receive" ELSE "collect"
                                 /\ s \in Worker => doing[r].tag = Tag(s) /\ doing[r].peer = Here(s)
<1> DEFINE n == doing[s].peer
           d == doing[s]
<1>1. Busy(d, s) /\ ActivityOK(d, s, homenode) /\ Here(s) \in Node /\ homenode[t] # NULL /\ t # NULL /\ d \in Activity
  BY ThreadFacts, DistinctAssumption
<1>2. /\ n \in Node /\ n # Here(s) /\ d.left # {}
      /\ d.op = "send" => n # homenode[t]
      /\ d.op = "result" => n = homenode[t] /\ s \in Worker
  <2>1. TaskType
    BY DEF Inv, Types
  <2>2. homenode[t] \in Node
    BY <1>1, <2>1 DEF TaskType
  <2> QED
    BY <1>1, <2>2 DEF Busy, ActivityOK
<1>3. CASE (d.tag >= 100) = FALSE
  <2> DEFINE q == chan[<<s, n>>]
             dr == Expects(doing[n], s)
             ds == Owes(doing[s], n, FALSE)
  <2>1. ChainOf(q, FALSE, dr, ds, n, homenode) /\ q \in Seq(Letter)
    BY <1>2, InvFacts DEF WorkAt
  <2>2. ds.task = t
    BY <1>2, <1>3 DEF Owes, DueOf
  <2>3. dr.task = t \/ \E p \in Lane(q, FALSE) : q[p].task = t /\ q[p].type # "data"
    <3> HIDE DEF q, dr, ds, n
    <3>1. \A L \in BOOLEAN : ChainOf(q, L, dr, ds, n, homenode) =>
            dr.task = t \/ \E p \in Lane(q, L) : q[p].task = t /\ q[p].type # "data"
      BY <2>1, <2>2, Traced
    <3> QED
      BY <2>1, <2>2, <3>1
  <2>4. CASE \E p \in Lane(q, FALSE) : q[p].task = t /\ q[p].type # "data"
    BY <1>1, <1>2, <2>4, BringsIt
  <2>5. CASE dr.task = t
    <3>1. n \in Thread /\ Here(n) = n
      BY <1>2, Threads
    <3>2. /\ doing[n].op \in {"receive", "collect", "buffer"} /\ doing[n].peer = Here(s) /\ doing[n].tag = Tag(s)
          /\ doing[n].task = t
      BY <1>1, <2>5, DueTask DEF Expects, NoDue
    <3>3. Busy(doing[n], n) /\ ActivityOK(doing[n], n, homenode)
      BY <3>1, ThreadFacts
    <3>4. doing[n].op \in {"receive", "collect"}
      BY <3>2, <3>3 DEF Busy
    <3>5. doing[n].op = IF d.op = "send" THEN "receive" ELSE "collect"
      BY <1>1, <1>2, <3>1, <3>2, <3>3, <3>4 DEF ActivityOK
    <3> QED
      BY <1>1, <1>2, <3>1, <3>2, <3>5
  <2> QED
    BY <2>3, <2>4, <2>5
<1>4. CASE (d.tag >= 100) = TRUE
  <2>1. s \in Node /\ s \notin Worker /\ d.op = "send"
    <3>1. d.op = "result" => s \in Worker
      BY <1>2
    <3>2. s \in Worker => d.tag = Tag(s)
      BY <1>1 DEF Busy
    <3>3. Tag(s) < 100 /\ Tag(s) \in Nat
      BY Tags
    <3>4. s \notin Worker
      BY <1>4, <3>2, <3>3
    <3> QED
      BY <3>1, <3>4, Threads
  <2>2. ReplyAt(s, n)
    BY <1>2, <2>1 DEF Inv, Traffic, ReplyChain
  <2> DEFINE q == chan[<<s, n>>]
             ds == Owes(doing[s], n, TRUE)
  <2>3. ds.task = t
    BY <1>2, <1>4 DEF Owes, DueOf
  <2>4. ds # NoDue
    <3>1. NoDue.task # t
      BY <1>1 DEF NoDue
    <3> QED
      BY <2>3, <3>1
  <2>5. PICK w \in Worker : Here(w) = n /\ Asks(doing[w], s)
    BY <2>2, <2>4 DEF ReplyAt
  <2> DEFINE dr == DueOf(doing[w].task, doing[w].left)
  <2>6. ChainOf(q, TRUE, dr, ds, n, homenode)
    BY <2>2, <2>5 DEF ReplyAt
  <2>7. q \in Seq(Letter)
    BY <1>2, InvFacts
  <2>8. dr.task = t \/ \E p \in Lane(q, TRUE) : q[p].task = t /\ q[p].type # "data"
    <3> HIDE DEF q, dr, ds, n
    <3>1. \A L \in BOOLEAN : ChainOf(q, L, dr, ds, n, homenode) =>
            dr.task = t \/ \E p \in Lane(q, L) : q[p].task = t /\ q[p].type # "data"
      BY <2>3, <2>6, <2>7, Traced
    <3> QED
      BY <2>3, <2>6, <2>7, <3>1
  <2>9. CASE \E p \in Lane(q, TRUE) : q[p].task = t /\ q[p].type # "data"
    BY <1>1, <1>2, <2>9, BringsIt
  <2>10. CASE dr.task = t
    <3>1. w \in Thread /\ doing[w].task = t /\ doing[w].op \in {"asked", "receive"}
      BY <2>5, <2>10, Threads, DueTask DEF Asks
    <3>2. doing[w].op = "receive"
      BY <3>1, ThreadFacts DEF Busy
    <3> QED
      BY <1>1, <1>2, <2>1, <2>5, <3>1, <3>2
  <2> QED
    BY <2>8, <2>9, <2>10
<1>5. (d.tag >= 100) = FALSE \/ (d.tag >= 100) = TRUE
  <2>1. d.tag \in Nat
    BY <1>1, Tags DEF Activity
  <2> QED
    BY <2>1
<1> QED
  BY <1>3, <1>4, <1>5

LEMMA Mentioned ==
  ASSUME Inv, NEW y \in Thread, NEW t \in Task, Mentions(doing[y], t)
  PROVE  \/ At("thread", y, t)
         \/ \E m \in Node : m # Here(y) /\ At("chan", <<y, m>>, t)
         \/ \E r \in Thread : /\ Here(r) # Here(y) /\ At("thread", r, t) /\ doing[y].op \in {"send", "result"}
                              /\ doing[y].task = t /\ Here(r) = doing[y].peer
                              /\ doing[r].op = IF doing[y].op = "send" THEN "receive" ELSE "collect"
                              /\ y \in Worker => doing[r].tag = Tag(y) /\ doing[r].peer = Here(y)
<1>1. CASE Holds(doing[y], t)
  BY <1>1 DEF At
<1>2. CASE doing[y].op \in {"send", "result"} /\ doing[y].task = t
  <2>1. doing[y].peer \in Node /\ doing[y].peer # Here(y)
    BY <1>2, Toward
  <2>2. CASE Brings(chan[<<y, doing[y].peer>>], t)
    <3>1. At("chan", <<y, doing[y].peer>>, t)
      BY <2>1, <2>2 DEF At
    <3> QED
      BY <2>1, <3>1
  <2>3. CASE \E r \in Thread : /\ Here(r) = doing[y].peer /\ doing[r].task = t
                               /\ doing[r].op = IF doing[y].op = "send" THEN "receive" ELSE "collect"
                               /\ y \in Worker => doing[r].tag = Tag(y) /\ doing[r].peer = Here(y)
    <3>1. PICK r \in Thread : /\ Here(r) = doing[y].peer /\ doing[r].task = t
                              /\ doing[r].op = IF doing[y].op = "send" THEN "receive" ELSE "collect"
                              /\ y \in Worker => doing[r].tag = Tag(y) /\ doing[r].peer = Here(y)
      BY <2>3
    <3>2. Holds(doing[r], t)
      BY <3>1 DEF Holds
    <3>3. At("thread", r, t)
      BY <3>2 DEF At
    <3> QED
      BY <1>2, <2>1, <3>1, <3>3
  <2> QED
    BY <1>2, <2>2, <2>3, Toward
<1> QED
  BY <1>1, <1>2 DEF Mentions

\* A task on its way to node n, or with a thread there: no other thread of
\* the node has to do with it.
LEMMA NoneElse ==
  ASSUME Inv, NEW t \in Task, NEW n \in Node, NEW k, NEW i, At(k, i, t),
         \/ k = "chan" /\ \E x \in Thread : i = <<x, n>>
         \/ k = "thread" /\ i \in Thread /\ Here(i) = n
  PROVE  /\ \A y \in Thread : Here(y) = n /\ ~ (k = "thread" /\ i = y) => ~ Mentions(doing[y], t)
         /\ t \notin ready[n] /\ t \notin finished
<1>1. \A l, j : At(l, j, t) => l = k /\ j = i
  BY OnePlace
<1>2. t \notin ready[n] /\ t \notin finished
  <2>1. t \in ready[n] => At("ready", n, t)
    BY DEF At
  <2>2. t \in finished => At("done", 0, t)
    BY DEF At
  <2>3. k \in {"chan", "thread"}
    OBVIOUS
  <2> QED
    BY <1>1, <2>1, <2>2, <2>3
<1>3. ASSUME NEW y \in Thread, Here(y) = n, ~ (k = "thread" /\ i = y), Mentions(doing[y], t) PROVE FALSE
  <2>1. CASE At("thread", y, t)
    BY <1>1, <1>3, <2>1
  <2>2. CASE \E m \in Node : m # Here(y) /\ At("chan", <<y, m>>, t)
    <3>1. PICK m \in Node : m # Here(y) /\ At("chan", <<y, m>>, t)
      BY <2>2
    <3>2. k = "chan" /\ i = <<y, m>>
      BY <1>1, <3>1
    <3>3. PICK x \in Thread : i = <<x, n>>
      BY <3>2
    <3> QED
      BY <1>3, <3>1, <3>2, <3>3
  <2>3. CASE \E r \in Thread : Here(r) # Here(y) /\ At("thread", r, t)
    <3>1. PICK r \in Thread : Here(r) # Here(y) /\ At("thread", r, t)
      BY <2>3
    <3>2. k = "thread" /\ i = r
      BY <1>1, <3>1
    <3> QED
      BY <1>3, <3>1, <3>2
  <2> QED
    BY <1>3, <2>1, <2>2, <2>3, Mentioned
<1> QED
  BY <1>2, <1>3

\* The results of a task are in the buffers of one node, and one thread of
\* that node sends them.
LEMMA NoneElseSends ==
  ASSUME Inv, NEW s \in Thread, doing[s].op = "result", NEW t \in Task, doing[s].task = t
  PROVE  /\ \A y \in Thread : y # s /\ Here(y) = Here(s) => ~ Mentions(doing[y], t)
         /\ t \notin ready[Here(s)]
<1>1. /\ doing[s].peer \in Node /\ doing[s].peer # Here(s) /\ doing[s].peer = homenode[t] /\ s \in Worker
      /\ Mentions(doing[s], t)
  BY Toward DEF Mentions
<1>2. ~ At("thread", s, t)
  <2>1. doing[s].inside # t
    BY HoldsWhat
  <2> QED
    BY <2>1 DEF At, Holds
<1>3. \/ \E m \in Node : m # Here(s) /\ At("chan", <<s, m>>, t)
      \/ \E r \in Thread : /\ Here(r) # Here(s) /\ At("thread", r, t) /\ Here(r) = doing[s].peer
                           /\ doing[r].op = "collect" /\ doing[r].tag = Tag(s) /\ doing[r].peer = Here(s)
  BY <1>1, <1>2, Mentioned
<1>4. t \notin ready[Here(s)]
  <2>1. SUFFICES ASSUME t \in ready[Here(s)] PROVE FALSE
    OBVIOUS
  <2>2. At("ready", Here(s), t)
    BY <2>1, Threads DEF At
  <2>3. \A l, j : At(l, j, t) => l = "ready"
    BY <2>2, OnePlace
  <2> QED
    BY <1>3, <2>3
<1>5. ASSUME NEW y \in Thread, y # s, Here(y) = Here(s), Mentions(doing[y], t) PROVE FALSE
  <2>1. \/ At("thread", y, t)
        \/ \E m \in Node : m # Here(y) /\ At("chan", <<y, m>>, t)
        \/ \E r \in Thread : /\ Here(r) # Here(y) /\ At("thread", r, t) /\ doing[y].op \in {"send", "result"}
                             /\ doing[y].task = t /\ Here(r) = doing[y].peer
                             /\ doing[r].op = IF doing[y].op = "send" THEN "receive" ELSE "collect"
                             /\ y \in Worker => doing[r].tag = Tag(y) /\ doing[r].peer = Here(y)
    BY <1>5, Mentioned
  <2>2. CASE \E m \in Node : m # Here(s) /\ At("chan", <<s, m>>, t)
    <3>1. PICK m \in Node : m # Here(s) /\ At("chan", <<s, m>>, t)
      BY <2>2
    <3>2. \A l, j : At(l, j, t) => l = "chan" /\ j = <<s, m>>
      BY <3>1, OnePlace
    <3>3. ~ At("thread", y, t)
      BY <3>2
    <3>4. \A k \in Node : ~ At("chan", <<y, k>>, t)
      BY <1>5, <3>2
    <3>5. \A r \in Thread : ~ At("thread", r, t)
      BY <3>2
    <3> QED
      BY <2>1, <3>3, <3>4, <3>5
  <2>3. CASE \E r \in Thread : /\ Here(r) # Here(s) /\ At("thread", r, t) /\ Here(r) = doing[s].peer
                               /\ doing[r].op = "collect" /\ doing[r].tag = Tag(s) /\ doing[r].peer = Here(s)
    <3>1. PICK r \in Thread : /\ Here(r) # Here(s) /\ At("thread", r, t) /\ Here(r) = doing[s].peer
                              /\ doing[r].op = "collect" /\ doing[r].tag = Tag(s) /\ doing[r].peer = Here(s)
      BY <2>3
    <3>2. \A l, j : At(l, j, t) => l = "thread" /\ j = r
      BY <3>1, OnePlace
    <3>3. r # y
      BY <1>5, <3>1
    <3>4. /\ doing[y].op = "result" /\ doing[y].task = t
          /\ y \in Worker => doing[r].tag = Tag(y)
      BY <2>1, <3>1, <3>2, <3>3
    <3>5. y \in Worker
      BY <3>4, Toward
    <3> QED
      BY <1>1, <1>5, <3>1, <3>4, <3>5, Tags
  <2> QED
    BY <1>3, <2>2, <2>3
<1> QED
  BY <1>4, <1>5

----------------------------------------------------------------------------
(* The contents of the arguments.                                          *)

\* Inputs go out, results come home.
DataOK(m, n, home) ==
  m.type = "data" /\ m.task # NULL => m.value = IF home[m.task] = n THEN "out" ELSE "in"

Delivered ==
  \A s \in Thread, n \in Node : \A p \in DOMAIN chan[<<s, n>>] : DataOK(chan[<<s, n>>][p], n, homenode)

Collects(d, t) == d.op = "collect" /\ d.task = t

Carries(d, t) == (d.op = "run" /\ d.task = t) \/ d.inside = t

\* The arguments of t as its home node has them.
HomeOK(t) ==
  /\ \A i \in DOMAIN args[t] : localarg[t][i] # "freed twice"
  /\ homenode[t] # NULL /\ t \notin finished /\ (\A s \in Thread : ~ Collects(doing[s], t))
       => \A i \in Inputs(t) : localarg[t][i] = "in"
  /\ \A s \in Thread : Collects(doing[s], t) =>
       /\ \A i \in Args(t, {"COP2"}) : localarg[t][i] = "freed"
       /\ \A i \in Outputs(t) \ doing[s].left : localarg[t][i] = "out"
  /\ t \in finished =>
       /\ \A i \in Outputs(t) : localarg[t][i] = "out"
       /\ \A i \in Args(t, {"COP2"}) : localarg[t][i] = "freed"

\* A thread of node n with activity d uses the contents v of the arguments
\* of t, whose home is h, in the buffers of node n.
ThreadOK(d, t, n, h, v) ==
  /\ Carries(d, t) /\ h # n => \A i \in Inputs(t) : v[i] = "in"
  /\ d.op = "receive" /\ d.task = t => \A i \in Inputs(t) \ d.left : v[i] = "in"
  /\ d.op = "send" /\ d.task = t /\ h # n => \A i \in d.left : v[i] = "in"
  /\ d.op = "result" /\ d.task = t => \A i \in d.left : v[i] = "out"

AwayOK(n, t) ==
  /\ \A i \in DOMAIN args[t] : temparg[n][t][i] # "freed twice"
  /\ t \in ready[n] /\ homenode[t] # n => \A i \in Inputs(t) : temparg[n][t][i] = "in"
  /\ \A s \in Thread : Here(s) = n => ThreadOK(doing[s], t, n, homenode[t], temparg[n][t])

AllHome == \A t \in Task : HomeOK(t)
AllAway == \A t \in Task, n \in Node : AwayOK(n, t)

Values == Delivered /\ AllHome /\ AllAway

LEMMA OldData ==
  ASSUME Inv, Delivered, HomeKept(homenode, homenode'), NEW x \in Thread, NEW y \in Node, NEW r \in DOMAIN chan[<<x, y>>]
  PROVE  DataOK(chan[<<x, y>>][r], y, homenode')
<1>1. chan[<<x, y>>][r] \in Letter /\ MessageOK(chan[<<x, y>>][r], x, y, homenode)
  BY InvFacts
<1>2. DataOK(chan[<<x, y>>][r], y, homenode)
  BY DEF Delivered
<1>3. chan[<<x, y>>][r].task \in Task \cup {NULL}
  BY <1>1 DEF Letter, Message
<1> QED
  BY <1>1, <1>2, <1>3 DEF DataOK, MessageOK, HomeKept

LEMMA DeliveredKept == ASSUME Inv, Delivered, HomeKept(homenode, homenode'), chan' = chan PROVE Delivered'
BY OldData DEF Delivered

LEMMA DeliveredSent ==
  ASSUME Inv, Delivered, HomeKept(homenode, homenode'), NEW s \in Thread, NEW n \in Node, NEW m, Send(s, n, m),
         DataOK(m, n, homenode')
  PROVE  Delivered'
<1> SUFFICES ASSUME NEW x \in Thread, NEW y \in Node, NEW p \in DOMAIN chan'[<<x, y>>]
             PROVE  DataOK(chan'[<<x, y>>][p], y, homenode')
  BY DEF Delivered
<1>1. ChanType
  BY DEF Inv, Types
<1>2. \/ p \in DOMAIN chan[<<x, y>>] /\ chan'[<<x, y>>][p] = chan[<<x, y>>][p]
      \/ x = s /\ y = n /\ chan'[<<x, y>>][p] = m
  BY <1>1, SentOrOld
<1> QED
  BY <1>2, OldData

LEMMA DeliveredTaken ==
  ASSUME Inv, Delivered, homenode' = homenode, NEW s \in Thread, NEW n \in Node, NEW tag, Receive(s, n, tag)
  PROVE  Delivered'
<1> SUFFICES ASSUME NEW x \in Thread, NEW y \in Node, NEW p \in DOMAIN chan'[<<x, y>>]
             PROVE  DataOK(chan'[<<x, y>>][p], y, homenode')
  BY DEF Delivered
<1>1. ChanType
  BY DEF Inv, Types
<1>2. PICK r \in DOMAIN chan[<<x, y>>] : chan'[<<x, y>>][p] = chan[<<x, y>>][r]
  BY <1>1, TakenIsOld
<1> QED
  BY <1>2, OldData, SameHome

\* Nothing happens at home to a task.
LEMMA HomeStays ==
  ASSUME NEW t \in Task, HomeOK(t), homenode'[t] = homenode[t], localarg'[t] = localarg[t],
         t \in finished' <=> t \in finished,
         \A s \in Thread : \/ doing'[s] = doing[s]
                           \/ ~ Collects(doing[s], t) /\ ~ Collects(doing'[s], t)
  PROVE  HomeOK(t)'
<1>1. \A s \in Thread : /\ Collects(doing'[s], t) <=> Collects(doing[s], t)
                        /\ Collects(doing[s], t) => doing'[s] = doing[s]
  OBVIOUS
<1> QED
  BY <1>1 DEF HomeOK

\* Nothing happens to the buffers of a task on a node.
LEMMA AwayStays ==
  ASSUME NEW t \in Task, NEW n \in Node, AwayOK(n, t), homenode'[t] = homenode[t],
         temparg'[n][t] = temparg[n][t], t \in ready'[n] => t \in ready[n],
         \A s \in Thread : Here(s) = n =>
           doing'[s] = doing[s] \/ ThreadOK(doing'[s], t, n, homenode[t], temparg[n][t])
  PROVE  AwayOK(n, t)'
BY DEF AwayOK

LEMMA FreeThread ==
  ASSUME NEW d, NEW t, ~ Mentions(d, t), NEW n, NEW h, NEW v
  PROVE  ThreadOK(d, t, n, h, v)
BY DEF Mentions, Holds, ThreadOK, Carries

LEMMA SettledOneLess ==
  ASSUME Inv, NEW s \in Thread, doing[s].op \in {"send", "result"}, NEW t \in Task, NEW n, NEW h, NEW v,
         ThreadOK(doing[s], t, n, h, v)
  PROVE  ThreadOK(Settle(OneLess(s)), t, n, h, v) /\ ~ Collects(Settle(OneLess(s)), t)
<1> DEFINE e == OneLess(s)
<1>1. /\ e.op = doing[s].op /\ e.task = doing[s].task /\ e.left = doing[s].left \ {NextArg(s)} /\ e.inside = doing[s].inside
  BY OneLessIs DEF Inv, Types
<1>2. ThreadOK(e, t, n, h, v) /\ ~ Collects(e, t)
  <2> HIDE DEF e
  <2> QED
    BY <1>1 DEF ThreadOK, Carries, Collects
<1>3. CASE e.left # {}
  BY <1>2, <1>3 DEF Settle
<1>4. CASE e.left = {} /\ e.inside = NULL
  <2>1. Settle(e) = Idle
    BY <1>4 DEF Settle
  <2>2. ~ Mentions(Idle, t) /\ ~ Collects(Idle, t)
    BY IdleRun, DistinctAssumption DEF Mentions, Holds, Collects
  <2> QED
    BY <2>1, <2>2, FreeThread
<1>5. CASE e.left = {} /\ e.inside # NULL
  <2>1. Settle(e) = Run(e.inside)
    BY <1>5 DEF Settle
  <2> HIDE DEF e
  <2> DEFINE r == Run(e.inside)
  <2>2. r.op = "run" /\ r.task = e.inside /\ r.left = {} /\ r.inside = NULL
    BY IdleRun
  <2>3. t # NULL
    BY DistinctAssumption
  <2>4. ThreadOK(r, t, n, h, v) /\ ~ Collects(r, t)
    <3> HIDE DEF r
    <3> QED
      BY <1>2, <2>2, <2>3 DEF ThreadOK, Carries, Collects
  <2> QED
    BY <2>1, <2>4 DEF e
<1> QED
  BY <1>3, <1>4, <1>5

\* A thread goes on with d; tasks may leave ready queues.
LEMMA ThreadValues ==
  ASSUME Inv, Values, homenode' = homenode, finished' = finished, UNCHANGED values, Delivered',
         \A n \in Node : ready'[n] \subseteq ready[n],
         NEW s \in Thread, NEW d, Do(s, d),
         \A t \in Task : /\ ~ Collects(d, t) /\ ~ Collects(doing[s], t)
                         /\ ThreadOK(d, t, Here(s), homenode[t], temparg[Here(s)][t])
  PROVE  Values'
<1>1. DoingType
  BY DEF Inv, Types
<1>2. doing'[s] = d /\ \A x \in Thread : x # s => doing'[x] = doing[x]
  BY <1>1, DoFacts
<1>3. localarg' = localarg /\ temparg' = temparg
  BY DEF values
<1>4. ASSUME NEW t \in Task PROVE HomeOK(t)'
  <2>1. HomeOK(t)
    BY DEF Values, AllHome
  <2>2. ~ Collects(d, t) /\ ~ Collects(doing[s], t)
    OBVIOUS
  <2>3. \A x \in Thread : doing'[x] = doing[x] \/ (~ Collects(doing[x], t) /\ ~ Collects(doing'[x], t))
    BY <1>2, <2>2
  <2> QED
    BY <1>3, <2>1, <2>3, HomeStays
<1>5. ASSUME NEW t \in Task, NEW n \in Node PROVE AwayOK(n, t)'
  <2>1. AwayOK(n, t)
    BY DEF Values, AllAway
  <2>2. ThreadOK(d, t, Here(s), homenode[t], temparg[Here(s)][t])
    OBVIOUS
  <2>3. \A x \in Thread : Here(x) = n =>
          doing'[x] = doing[x] \/ ThreadOK(doing'[x], t, n, homenode[t], temparg[n][t])
    BY <1>2, <2>2
  <2>4. t \in ready'[n] => t \in ready[n]
    OBVIOUS
  <2> QED
    BY <1>3, <2>1, <2>3, <2>4, AwayStays
<1> QED
  BY <1>4, <1>5 DEF Values, AllHome, AllAway

\* A thread that has to do with no task, before and after.
LEMMA NoTaskValues ==
  ASSUME Inv, Values, homenode' = homenode, finished' = finished, ready' = ready, UNCHANGED values, Delivered',
         NEW s \in Thread, NEW d, Do(s, d), \A t \in Task : ~ Mentions(d, t) /\ ~ Mentions(doing[s], t)
  PROVE  Values'
<1>1. ASSUME NEW t \in Task
      PROVE  /\ ~ Collects(d, t) /\ ~ Collects(doing[s], t)
             /\ ThreadOK(d, t, Here(s), homenode[t], temparg[Here(s)][t])
  <2>1. ~ Mentions(d, t) /\ ~ Mentions(doing[s], t)
    OBVIOUS
  <2>2. ~ Collects(d, t) /\ ~ Collects(doing[s], t)
    BY <2>1 DEF Mentions, Holds, Collects
  <2> QED
    BY <2>1, <2>2, FreeThread
<1> HIDE DEF values
<1> QED
  BY <1>1, ThreadValues

LEMMA SameValues == ASSUME Inv, Values, UNCHANGED <<chan, doing, homenode, ready, finished, localarg, temparg>> PROVE Values'
<1>1. Delivered'
  BY SameHome, DeliveredKept DEF Values
<1>2. ASSUME NEW t \in Task PROVE HomeOK(t)'
  BY HomeStays DEF Values, AllHome
<1>3. ASSUME NEW t \in Task, NEW n \in Node PROVE AwayOK(n, t)'
  BY AwayStays DEF Values, AllAway
<1> QED
  BY <1>1, <1>2, <1>3 DEF Values, AllHome, AllAway

LEMMA EnterToReceiveValues == ASSUME Inv, Values, NEW s \in Thread, EnterToReceive(s) PROVE Values'
BY SameValues DEF EnterToReceive, tasks, values

\* Threads that have no task.
LEMMA Taskless ==
  ASSUME Inv, NEW s \in Thread, NEW t \in Task,
         doing[s].op \in {"idle", "asked", "refused", "bcast", "ssend", "telling", "buffer", "arriving"}
  PROVE  ~ Mentions(doing[s], t)
<1>1. doing[s].inside # t
  BY HoldsWhat
<1> QED
  BY <1>1 DEF Mentions, Holds

LEMMA TasklessAct ==
  ASSUME NEW op \in {"idle", "asked", "refused", "bcast", "ssend", "telling", "buffer", "arriving", "collect"},
         NEW u, NEW A, NEW n, NEW g, NEW t \in Task, op = "collect" => u # t
  PROVE  ~ Mentions(Act(op, u, A, n, g, NULL), t)
<1> DEFINE e == Act(op, u, A, n, g, NULL)
<1>1. e.op = op /\ e.inside = NULL /\ e.task = u
  BY ActIs
<1>2. t # NULL
  BY DistinctAssumption
<1> HIDE DEF e
<1>3. ~ Mentions(e, t)
  BY <1>1, <1>2 DEF Mentions, Holds
<1> QED
  BY <1>3 DEF e

LEMMA TasklessIdle == \A t \in Task : ~ Mentions(Idle, t)
<1>1. \A t \in Task : t # NULL
  BY DistinctAssumption
<1> QED
  BY <1>1, IdleRun DEF Mentions, Holds

LEMMA TasklessOp ==
  ASSUME Inv, NEW s \in Thread, doing[s].op \in {"asked", "bcast", "buffer"},
         NEW op \in {"refused", "ssend", "arriving"}, NEW t \in Task
  PROVE  ~ Mentions([doing[s] EXCEPT !.op = op], t)
<1> DEFINE e == [doing[s] EXCEPT !.op = op]
<1>1. e.op = op /\ e.inside = NULL
  BY OpActivities
<1>2. t # NULL
  BY DistinctAssumption
<1> HIDE DEF e
<1>3. ~ Mentions(e, t)
  BY <1>1, <1>2 DEF Mentions, Holds
<1> QED
  BY <1>3 DEF e

LEMMA GiveUpValues == ASSUME Inv, Values, NEW w \in Worker, GiveUp(w) PROVE Values'
<1>1. Delivered'
  BY SameHome, DeliveredKept DEF Values, GiveUp, tasks
<1>2. w \in Thread /\ doing[w].op = "refused" /\ Do(w, Idle)
  BY Threads DEF GiveUp
<1>3. \A t \in Task : ~ Mentions(Idle, t) /\ ~ Mentions(doing[w], t)
  BY <1>2, Taskless, TasklessIdle
<1> QED
  BY <1>1, <1>2, <1>3, NoTaskValues DEF GiveUp, tasks

LEMMA AskForWorkValues == ASSUME Inv, Values, NEW w \in Worker, AskForWork(w) PROVE Values'
<1> DEFINE v == ((IF doing[w].op = "refused" THEN doing[w].peer ELSE Here(w)) + 1) % N
           m == Descriptor(MAX_NVPS, "STEALING_REQUEST", NULL)
           d == Act("asked", NULL, {}, v, ReplyTag(w), NULL)
<1>1. w \in Thread /\ doing[w].op \in {"idle", "refused"} /\ Do(w, d) /\ Send(w, v, m)
  BY Threads DEF AskForWork
<1>2. v \in Node
  <2>1. doing[w].op = "refused" => doing[w].peer \in Node
    BY <1>1, ThreadFacts DEF Busy
  <2> QED
    BY <1>1, <2>1, Threads, NextNode
<1>3. DataOK(m, v, homenode')
  BY Fields DEF DataOK
<1>4. homenode' = homenode /\ finished' = finished /\ ready' = ready /\ UNCHANGED values
  BY DEF AskForWork, tasks
<1>5. \A t \in Task : ~ Mentions(d, t) /\ ~ Mentions(doing[w], t)
  BY <1>1, Taskless, TasklessAct
<1> HIDE DEF m, d, v
<1>6. Delivered'
  BY <1>1, <1>2, <1>3, <1>4, SameHome, DeliveredSent DEF Values
<1> QED
  BY <1>1, <1>4, <1>5, <1>6, NoTaskValues

LEMMA RefusedValues == ASSUME Inv, Values, NEW w \in Worker, Refused(w) PROVE Values'
<1> DEFINE d == [doing[w] EXCEPT !.op = "refused"]
<1>1. /\ w \in Thread /\ doing[w].op = "asked" /\ doing[w].peer \in Thread /\ Here(w) \in Node
      /\ Receive(doing[w].peer, Here(w), doing[w].tag)
  BY AnsweredFacts DEF Refused, Inv
<1>2. homenode' = homenode /\ finished' = finished /\ ready' = ready /\ UNCHANGED values /\ Do(w, d)
  BY DEF Refused, tasks
<1>3. \A t \in Task : ~ Mentions(d, t) /\ ~ Mentions(doing[w], t)
  BY <1>1, Taskless, TasklessOp
<1> HIDE DEF d
<1>4. Delivered'
  BY <1>1, <1>2, DeliveredTaken DEF Values
<1> QED
  BY <1>1, <1>2, <1>3, <1>4, NoTaskValues

LEMMA BroadcastValues == ASSUME Inv, Values, NEW w \in Worker, Broadcast(w) PROVE Values'
<1> DEFINE v == Min(Others(w) \ told)
           m == Descriptor(MAX_NVPS, "TORC_BCAST", NULL)
           d == Act("bcast", NULL, {}, v, Tag(w), NULL)
<1>1. w \in Thread /\ doing[w].op \in {"idle", "telling"} /\ Do(w, d) /\ Send(w, v, m)
  BY Threads DEF Broadcast
<1>2. v \in Node
  BY NextToTell DEF Broadcast
<1>3. DataOK(m, v, homenode')
  BY Fields DEF DataOK
<1>4. homenode' = homenode /\ finished' = finished /\ ready' = ready /\ UNCHANGED values
  BY DEF Broadcast, tasks
<1>5. \A t \in Task : ~ Mentions(d, t) /\ ~ Mentions(doing[w], t)
  BY <1>1, Taskless, TasklessAct
<1> HIDE DEF m, d, v
<1>6. Delivered'
  BY <1>1, <1>2, <1>3, <1>4, SameHome, DeliveredSent DEF Values
<1> QED
  BY <1>1, <1>4, <1>5, <1>6, NoTaskValues

LEMMA SsendValues == ASSUME Inv, Values, NEW w \in Worker, Ssend(w) PROVE Values'
<1> DEFINE v == doing[w].peer
           m == Data(doing[w].tag, NULL, 0, buffer[Here(w)])
           d == [doing[w] EXCEPT !.op = "ssend"]
<1>1. w \in Thread /\ doing[w].op = "bcast" /\ Do(w, d) /\ Send(w, v, m)
  BY Threads DEF Ssend
<1>2. v \in Node
  BY <1>1, ThreadFacts DEF Busy
<1>3. DataOK(m, v, homenode')
  BY Fields DEF DataOK
<1>4. homenode' = homenode /\ finished' = finished /\ ready' = ready /\ UNCHANGED values
  BY DEF Ssend, tasks
<1>5. \A t \in Task : ~ Mentions(d, t) /\ ~ Mentions(doing[w], t)
  BY <1>1, Taskless, TasklessOp
<1> HIDE DEF m, d, v
<1>6. Delivered'
  BY <1>1, <1>2, <1>3, <1>4, SameHome, DeliveredSent DEF Values
<1> QED
  BY <1>1, <1>4, <1>5, <1>6, NoTaskValues

LEMMA ToldValues == ASSUME Inv, Values, NEW w \in Worker, Told(w) PROVE Values'
<1>1. /\ w \in Thread /\ doing[w].op = "ssend" /\ chan' = chan
      /\ homenode' = homenode /\ finished' = finished /\ ready' = ready /\ UNCHANGED values
  BY Threads DEF Told, SsendDone, tasks
<1>2. PICK d \in {Idle, Act("telling", NULL, {}, NULL, 0, NULL)} : Do(w, d)
  BY DEF Told
<1>3. \A t \in Task : ~ Mentions(d, t) /\ ~ Mentions(doing[w], t)
  BY <1>1, <1>2, Taskless, TasklessAct, TasklessIdle
<1>4. Delivered'
  BY <1>1, SameHome, DeliveredKept DEF Values
<1> QED
  BY <1>1, <1>2, <1>3, <1>4, NoTaskValues

LEMMA RecvBcastValues ==
  ASSUME Inv, Values, NEW n \in Node, NEW s \in Thread, RecvBcast(n, s) PROVE Values'
<1> DEFINE d == Act("buffer", NULL, {0}, Here(s), Tag(s), NULL)
<1>1. n \in Thread /\ doing[n].op = "idle" /\ Receive(s, n, MAX_NVPS) /\ Do(n, d)
  BY Threads DEF RecvBcast, Accepts
<1>2. homenode' = homenode /\ finished' = finished /\ ready' = ready /\ UNCHANGED values
  BY DEF RecvBcast, tasks
<1>3. \A t \in Task : ~ Mentions(d, t) /\ ~ Mentions(doing[n], t)
  BY <1>1, Taskless, TasklessAct
<1> HIDE DEF d
<1>4. Delivered'
  BY <1>1, <1>2, DeliveredTaken DEF Values
<1> QED
  BY <1>1, <1>2, <1>3, <1>4, NoTaskValues

LEMMA MatchBufferValues ==
  ASSUME Inv, Values, NEW n \in Node, NEW s \in Thread, MatchBuffer(n, s) PROVE Values'
<1> DEFINE d == [doing[n] EXCEPT !.op = "arriving"]
<1>1. n \in Thread /\ doing[n].op = "buffer" /\ Do(n, d) /\ Matches(n, s)
  BY Threads DEF MatchBuffer
<1>2. homenode' = homenode /\ finished' = finished /\ ready' = ready /\ UNCHANGED values
  BY DEF MatchBuffer, tasks
<1>3. \A t \in Task : ~ Mentions(d, t) /\ ~ Mentions(doing[n], t)
  BY <1>1, Taskless, TasklessOp
<1>4. Here(n) \in Node /\ Receive(s, Here(n), doing[n].tag)
  BY <1>1, MatchesFacts DEF Inv
<1> HIDE DEF d
<1>5. Delivered'
  BY <1>2, <1>4, DeliveredTaken DEF Values
<1> QED
  BY <1>1, <1>2, <1>3, <1>5, NoTaskValues

LEMMA BufferArrivesValues == ASSUME Inv, Values, NEW n \in Node, BufferArrives(n) PROVE Values'
<1>1. /\ n \in Thread /\ doing[n].op = "arriving" /\ chan' = chan /\ Do(n, Idle)
      /\ homenode' = homenode /\ finished' = finished /\ ready' = ready /\ UNCHANGED values
  BY Threads DEF BufferArrives, tasks
<1>2. \A t \in Task : ~ Mentions(Idle, t) /\ ~ Mentions(doing[n], t)
  BY <1>1, Taskless, TasklessIdle
<1>3. Delivered'
  BY <1>1, SameHome, DeliveredKept DEF Values
<1> QED
  BY <1>1, <1>2, <1>3, NoTaskValues

\* The arguments of a task that is not on its way home, as its creator has them.
LEMMA HomeInputs ==
  ASSUME Inv, Values, NEW t \in Task, NEW k, NEW i, At(k, i, t), k # "done",
         k = "thread" => ~ Collects(doing[i], t)
  PROVE  \A j \in Inputs(t) : localarg[t][j] = "in"
<1>1. homenode[t] # NULL /\ \A l, j : At(l, j, t) => l = k /\ j = i
  BY OnePlace
<1>2. t \notin finished
  BY <1>1 DEF At
<1>3. \A s \in Thread : ~ Collects(doing[s], t)
  <2>1. SUFFICES ASSUME NEW s \in Thread, Collects(doing[s], t) PROVE FALSE
    OBVIOUS
  <2>2. At("thread", s, t)
    BY <2>1 DEF Collects, At, Holds
  <2> QED
    BY <1>1, <2>1, <2>2
<1>4. HomeOK(t)
  BY DEF Values, AllHome
<1> QED
  BY <1>1, <1>2, <1>3, <1>4 DEF HomeOK

\* What a thread uses of the buffers of its node.
LEMMA OwnBuffers ==
  ASSUME Inv, Values, NEW s \in Thread, NEW t \in Task
  PROVE  ThreadOK(doing[s], t, Here(s), homenode[t], temparg[Here(s)][t])
<1>1. Here(s) \in Node
  BY Threads
<1> QED
  BY <1>1 DEF Values, AllAway, AwayOK

LEMMA SendArgumentValues == ASSUME Inv, Values, NEW s \in Thread, SendArgument(s) PROVE Values'
<1> DEFINE t == doing[s].task
           i == NextArg(s)
           n == doing[s].peer
           h == Here(s)
           v == IF homenode[t] # h THEN temparg[h][t][i] ELSE localarg[t][i]
           m == Data(doing[s].tag, t, i, v)
           d == Settle(OneLess(s))
<1>1. /\ doing[s].op = "send" /\ Send(s, n, m) /\ Do(s, d)
      /\ homenode' = homenode /\ finished' = finished /\ ready' = ready /\ UNCHANGED values
  BY DEF SendArgument, tasks
<1>2. /\ Busy(doing[s], s) /\ t \in Task /\ doing[s].left # {} /\ DoingType
  BY <1>1, ThreadFacts DEF Busy
<1>3. i \in doing[s].left /\ i \in Inputs(t)
  BY <1>1, <1>2, NextArgFacts, Pairing
<1>4. n \in Node /\ n # homenode[t]
  BY <1>1, <1>2, Toward
<1>5. v = "in"
  <2>1. CASE homenode[t] # h
    BY <1>1, <1>2, <1>3, <2>1, OwnBuffers DEF ThreadOK
  <2>2. CASE homenode[t] = h
    <3>1. CASE Brings(chan[<<s, n>>], t)
      <4>1. At("chan", <<s, n>>, t)
        BY <1>4, <3>1 DEF At
      <4>2. \A j \in Inputs(t) : localarg[t][j] = "in"
        BY <1>2, <4>1, HomeInputs
      <4> QED
        BY <1>3, <2>2, <4>2
    <3>2. CASE \E r \in Thread : doing[r].task = t /\ doing[r].op = "receive"
      <4>1. PICK r \in Thread : doing[r].task = t /\ doing[r].op = "receive"
        BY <3>2
      <4>2. At("thread", r, t) /\ ~ Collects(doing[r], t)
        BY <4>1 DEF At, Holds, Collects
      <4>3. \A j \in Inputs(t) : localarg[t][j] = "in"
        BY <1>2, <4>2, HomeInputs
      <4> QED
        BY <1>3, <2>2, <4>3
    <3> QED
      BY <1>1, <1>2, <3>1, <3>2, Toward
  <2> QED
    BY <2>1, <2>2
<1>6. DataOK(m, n, homenode')
  BY <1>1, <1>4, <1>5, Fields DEF DataOK
<1>7. ASSUME NEW u \in Task
      PROVE  /\ ~ Collects(d, u) /\ ~ Collects(doing[s], u)
             /\ ThreadOK(d, u, Here(s), homenode[u], temparg[Here(s)][u])
  <2>1. ThreadOK(doing[s], u, Here(s), homenode[u], temparg[Here(s)][u])
    BY OwnBuffers
  <2>2. doing[s].op \in {"send", "result"}
    BY <1>1
  <2>3. ~ Collects(doing[s], u)
    BY <1>1 DEF Collects
  <2> QED
    BY <2>1, <2>2, <2>3, SettledOneLess
<1> HIDE DEF m, d, v, n
<1>8. Delivered'
  BY <1>1, <1>4, <1>6, SameHome, DeliveredSent DEF Values
<1>9. \A y \in Node : ready'[y] \subseteq ready[y]
  BY <1>1
<1> QED
  BY <1>1, <1>7, <1>8, <1>9, ThreadValues

LEMMA RunThread ==
  ASSUME NEW t \in Task, NEW u \in Task, NEW n, NEW h, NEW v,
         u = t /\ h # n => \A i \in Inputs(t) : v[i] = "in"
  PROVE  ThreadOK(Run(u), t, n, h, v) /\ ~ Collects(Run(u), t)
<1> DEFINE r == Run(u)
<1>1. r.op = "run" /\ r.task = u /\ r.left = {} /\ r.inside = NULL
  BY IdleRun
<1>2. t # NULL
  BY DistinctAssumption
<1> HIDE DEF r
<1>3. ThreadOK(r, t, n, h, v) /\ ~ Collects(r, t)
  BY <1>1, <1>2 DEF ThreadOK, Carries, Collects
<1> QED
  BY <1>3 DEF r

LEMMA TakeReadyValues ==
  ASSUME Inv, Values, NEW w \in Worker, NEW t \in Task, TakeReady(w, t) PROVE Values'
<1> DEFINE n == Here(w)
<1>1. /\ w \in Thread /\ n \in Node /\ doing[w].op = "idle" /\ t \in ready[n] /\ Do(w, Run(t))
      /\ ready' = [ready EXCEPT ![n] = @ \ {t}] /\ chan' = chan
      /\ homenode' = homenode /\ finished' = finished /\ UNCHANGED values
  BY Threads DEF TakeReady
<1>2. ready \in [Node -> SUBSET Task]
  BY DEF Inv, Types, TaskType
<1>3. \A y \in Node : ready'[y] \subseteq ready[y]
  BY <1>1, <1>2
<1>4. Delivered'
  BY <1>1, SameHome, DeliveredKept DEF Values
<1>5. ASSUME NEW u \in Task
      PROVE  /\ ~ Collects(Run(t), u) /\ ~ Collects(doing[w], u)
             /\ ThreadOK(Run(t), u, Here(w), homenode[u], temparg[Here(w)][u])
  <2>1. AwayOK(n, u)
    BY <1>1 DEF Values, AllAway
  <2>2. t = u /\ homenode[u] # n => \A i \in Inputs(u) : temparg[n][u][i] = "in"
    BY <1>1, <2>1 DEF AwayOK
  <2> QED
    BY <1>1, <2>2, RunThread DEF Collects
<1> QED
  BY <1>1, <1>3, <1>4, <1>5, ThreadValues

\* What a thread does that starts to send a task, or its results.
LEMMA SettledAct ==
  ASSUME NEW op \in {"send", "result"}, NEW t \in Task, NEW A, NEW n, NEW g, NEW c \in Task \cup {NULL},
         NEW u \in Task, NEW h, NEW k, NEW v,
         c = u /\ h # k => \A i \in Inputs(u) : v[i] = "in",
         u = t => IF op = "send" THEN h # k => \A i \in A : v[i] = "in" ELSE \A i \in A : v[i] = "out"
  PROVE  LET e == Settle(Act(op, t, A, n, g, c))
         IN  ThreadOK(e, u, k, h, v) /\ ~ Collects(e, u)
<1> DEFINE a == Act(op, t, A, n, g, c)
<1>1. a.op = op /\ a.task = t /\ a.left = A /\ a.inside = c
  BY ActIs
<1>2. u # NULL
  BY DistinctAssumption
<1>3. ThreadOK(a, u, k, h, v) /\ ~ Collects(a, u)
  <2> HIDE DEF a
  <2> QED
    BY <1>1, <1>2 DEF ThreadOK, Carries, Collects
<1>4. CASE A # {}
  <2>1. Settle(a) = a
    BY <1>1, <1>4 DEF Settle
  <2> QED
    BY <1>3, <2>1
<1>5. CASE A = {} /\ c = NULL
  <2>1. Settle(a) = Idle
    BY <1>1, <1>5 DEF Settle
  <2>2. ~ Mentions(Idle, u) /\ ~ Collects(Idle, u)
    BY TasklessIdle, IdleRun DEF Collects
  <2>3. ThreadOK(Idle, u, k, h, v)
    BY <2>2, FreeThread
  <2> QED
    BY <2>1, <2>2, <2>3
<1>6. CASE A = {} /\ c # NULL
  <2>1. Settle(a) = Run(c)
    BY <1>1, <1>6 DEF Settle
  <2>2. ThreadOK(Run(c), u, k, h, v) /\ ~ Collects(Run(c), u)
    BY <1>6, RunThread
  <2> QED
    BY <2>1, <2>2
<1> QED
  BY <1>4, <1>5, <1>6

Writes(n, t, g) == temparg' = [temparg EXCEPT ![n] = [temparg[n] EXCEPT ![t] = g]]

LEMMA BufferWritten ==
  ASSUME Types, NEW n \in Node, NEW t \in Task, NEW g, Writes(n, t, g)
  PROVE  /\ temparg'[n][t] = g
         /\ \A m \in Node, u \in Task : ~ (m = n /\ u = t) => temparg'[m][u] = temparg[m][u]
<1>1. temparg[n] \in Memory /\ temparg \in [Node -> Memory]
  BY DEF Types, MemoryType
<1>2. DOMAIN temparg[n] = Task
  BY <1>1 DEF Memory
<1> DEFINE f == [temparg[n] EXCEPT ![t] = g]
<1>3. f[t] = g /\ \A u \in Task : u # t => f[u] = temparg[n][u]
  BY <1>2
<1>4. temparg'[n] = f /\ \A m \in Node : m # n => temparg'[m] = temparg[m]
  BY <1>1 DEF Writes
<1> HIDE DEF f
<1> QED
  BY <1>3, <1>4

LEMMA HomeWritten ==
  ASSUME Types, NEW t \in Task, NEW g, localarg' = [localarg EXCEPT ![t] = g]
  PROVE  localarg'[t] = g /\ \A u \in Task : u # t => localarg'[u] = localarg[u]
<1>1. DOMAIN localarg = Task
  BY DEF Types, MemoryType, Memory
<1> QED
  BY <1>1

\* A thread changes its node's buffers of a task no other thread there is
\* busy with.
LEMMA BuffersChange ==
  ASSUME Inv, Values, homenode' = homenode, finished' = finished, ready' = ready, localarg' = localarg, Delivered',
         NEW s \in Thread, NEW d, Do(s, d), NEW t \in Task,
         \A m \in Node, u \in Task : ~ (m = Here(s) /\ u = t) => temparg'[m][u] = temparg[m][u],
         \A y \in Thread : y # s /\ Here(y) = Here(s) => ~ Mentions(doing[y], t),
         t \notin ready[Here(s)],
         \A i \in DOMAIN args[t] : temparg'[Here(s)][t][i] # "freed twice",
         ThreadOK(d, t, Here(s), homenode[t], temparg'[Here(s)][t]),
         \A u \in Task : u # t => ThreadOK(d, u, Here(s), homenode[u], temparg[Here(s)][u]),
         \A u \in Task : ~ Collects(d, u) /\ ~ Collects(doing[s], u)
  PROVE  Values'
<1>1. doing'[s] = d /\ \A x \in Thread : x # s => doing'[x] = doing[x]
  BY DoFacts DEF Inv, Types
<1>2. ASSUME NEW u \in Task PROVE HomeOK(u)'
  <2>1. HomeOK(u)
    BY DEF Values, AllHome
  <2>2. ~ Collects(d, u) /\ ~ Collects(doing[s], u)
    OBVIOUS
  <2>3. \A x \in Thread : doing'[x] = doing[x] \/ (~ Collects(doing[x], u) /\ ~ Collects(doing'[x], u))
    BY <1>1, <2>2
  <2> QED
    BY <2>1, <2>3, HomeStays
<1>3. ASSUME NEW u \in Task, NEW n \in Node, ~ (n = Here(s) /\ u = t) PROVE AwayOK(n, u)'
  <2>1. AwayOK(n, u) /\ temparg'[n][u] = temparg[n][u]
    BY <1>3 DEF Values, AllAway
  <2>2. Here(s) = n => ThreadOK(d, u, Here(s), homenode[u], temparg[Here(s)][u])
    BY <1>3
  <2>3. \A x \in Thread : Here(x) = n =>
          doing'[x] = doing[x] \/ ThreadOK(doing'[x], u, n, homenode[u], temparg[n][u])
    BY <1>1, <2>2
  <2> QED
    BY <2>1, <2>3, AwayStays
<1>4. AwayOK(Here(s), t)'
  <2> DEFINE n == Here(s)
             v == temparg'[n][t]
  <2>1. ASSUME NEW y \in Thread, Here(y) = n PROVE ThreadOK(doing'[y], t, n, homenode[t], v)
    <3>1. CASE y = s
      BY <1>1, <3>1
    <3>2. CASE y # s
      <4>1. ~ Mentions(doing'[y], t)
        BY <1>1, <2>1, <3>2
      <4> QED
        BY <4>1, FreeThread
    <3> QED
      BY <3>1, <3>2
  <2>2. t \notin ready'[n]
    OBVIOUS
  <2> QED
    BY <2>1, <2>2 DEF AwayOK
<1> QED
  BY <1>2, <1>3, <1>4 DEF Values, AllHome, AllAway

\* A thread changes a task's arguments at home, or finishes the task.
LEMMA HomeChange ==
  ASSUME Inv, Values, homenode' = homenode, temparg' = temparg, ready' = ready, Delivered',
         NEW s \in Thread, NEW d, Do(s, d), NEW t \in Task,
         \A u \in Task : u # t => /\ localarg'[u] = localarg[u] /\ (u \in finished' <=> u \in finished)
                                  /\ ~ Collects(doing[s], u) /\ ~ Collects(d, u),
         \A u \in Task : ThreadOK(d, u, Here(s), homenode[u], temparg[Here(s)][u]),
         HomeOK(t)'
  PROVE  Values'
<1>1. doing'[s] = d /\ \A x \in Thread : x # s => doing'[x] = doing[x]
  BY DoFacts DEF Inv, Types
<1>2. ASSUME NEW u \in Task PROVE HomeOK(u)'
  <2>1. CASE u = t
    BY <2>1
  <2>2. CASE u # t
    <3>1. HomeOK(u)
      BY DEF Values, AllHome
    <3>2. /\ ~ Collects(d, u) /\ ~ Collects(doing[s], u)
          /\ localarg'[u] = localarg[u] /\ (u \in finished' <=> u \in finished)
      BY <2>2
    <3>3. \A x \in Thread : doing'[x] = doing[x] \/ (~ Collects(doing[x], u) /\ ~ Collects(doing'[x], u))
      BY <1>1, <3>2
    <3> QED
      BY <3>1, <3>2, <3>3, HomeStays
  <2> QED
    BY <2>1, <2>2
<1>3. ASSUME NEW u \in Task, NEW n \in Node PROVE AwayOK(n, u)'
  <2>1. AwayOK(n, u)
    BY DEF Values, AllAway
  <2>2. ThreadOK(d, u, Here(s), homenode[u], temparg[Here(s)][u])
    OBVIOUS
  <2>3. \A x \in Thread : Here(x) = n =>
          doing'[x] = doing[x] \/ ThreadOK(doing'[x], u, n, homenode[u], temparg[n][u])
    BY <1>1, <2>2
  <2> QED
    BY <2>1, <2>3, AwayStays
<1> QED
  BY <1>2, <1>3 DEF Values, AllHome, AllAway

\* The message a receiver takes is the one it waits for.
LEMMA AwaitedData ==
  ASSUME Inv, NEW r \in Thread, NEW s \in Thread, doing[r].op \in {"receive", "collect"},
         doing[r].left # {}, Matches(r, s)
  PROVE  /\ doing[r].task \in Task /\ Here(r) \in Node
         /\ Receive(s, Here(r), doing[r].tag)
         /\ Received(s, Here(r), doing[r].tag).type = "data"
         /\ Received(s, Here(r), doing[r].tag).task = doing[r].task
         /\ Received(s, Here(r), doing[r].tag).i = NextArg(r)
<1>1. Busy(doing[r], r) /\ doing[r].task \in Task
  BY ThreadFacts DEF Busy
<1>2. Here(r) \in Node /\ Receive(s, Here(r), doing[r].tag)
  BY MatchesFacts DEF Inv, Types
<1>3. CASE r \in Worker
  <2>1. doing[r].op = "receive"
    BY <1>1, <1>3, Threads DEF Busy
  <2>2. /\ doing[r].tag = ReplyTag(r)
        /\ Received(s, Here(r), ReplyTag(r)).type = "data"
        /\ Received(s, Here(r), ReplyTag(r)).task = doing[r].task
        /\ Received(s, Here(r), ReplyTag(r)).i = NextArg(r)
    BY <1>3, <2>1, FromServer
  <2> QED
    BY <1>1, <1>2, <2>2
<1>4. CASE r \in Node
  <2>1. Here(r) = r
    BY <1>4, Threads
  <2>2. /\ Received(s, r, doing[r].tag).type = "data"
        /\ Received(s, r, doing[r].tag).task = doing[r].task
        /\ Received(s, r, doing[r].tag).i = NextArg(r)
    BY <1>4, FirstData
  <2> QED
    BY <1>1, <1>2, <2>1, <2>2
<1> QED
  BY <1>3, <1>4, Threads

\* What a receiver gets is what it waits for.
LEMMA ReceivedData ==
  ASSUME Inv, Delivered, NEW r \in Thread, NEW s \in Thread, doing[r].op \in {"receive", "collect"},
         doing[r].left # {}, Matches(r, s)
  PROVE  /\ doing[r].task \in Task /\ Here(r) \in Node
         /\ Receive(s, Here(r), doing[r].tag)
         /\ ArgValue(Received(s, Here(r), doing[r].tag), doing[r].task, NextArg(r))
              = IF homenode[doing[r].task] = Here(r) THEN "out" ELSE "in"
<1> DEFINE n == Here(r)
           m == Received(s, n, doing[r].tag)
           t == doing[r].task
<1>1. t \in Task /\ n \in Node /\ Receive(s, n, doing[r].tag)
  BY AwaitedData
<1>2. m.type = "data" /\ m.task = t /\ m.i = NextArg(r)
  BY AwaitedData
<1>3. ChanType
  BY DEF Inv, Types
<1>4. First(s, n, doing[r].tag) \in DOMAIN chan[<<s, n>>] /\ chan[<<s, n>>][First(s, n, doing[r].tag)] = m
  BY <1>1, <1>3, TakenFacts
<1>5. DataOK(m, n, homenode)
  BY <1>1, <1>4 DEF Delivered
<1>6. t # NULL
  BY <1>1, DistinctAssumption
<1>7. m.value = IF homenode[t] = n THEN "out" ELSE "in"
  <2> HIDE DEF m, n, t
  <2> QED
    BY <1>2, <1>5, <1>6 DEF DataOK
<1> QED
  BY <1>1, <1>2, <1>7 DEF ArgValue

LEMMA RecvArgumentValues ==
  ASSUME Inv, Values, NEW r \in Thread, NEW s \in Thread, RecvArgument(r, s) PROVE Values'
<1> DEFINE n == Here(r)
           t == doing[r].task
           i == NextArg(r)
           v == ArgValue(Received(s, n, doing[r].tag), t, i)
           g == [temparg[n][t] EXCEPT ![i] = v]
           d == OneLess(r)
<1>1. /\ doing[r].op = "receive" /\ doing[r].left # {} /\ Matches(r, s) /\ Do(r, d)
      /\ homenode' = homenode /\ finished' = finished /\ ready' = ready /\ localarg' = localarg
      /\ Writes(n, t, g)
  BY DEF RecvArgument, tasks, Writes
<1>2. /\ t \in Task /\ n \in Node /\ Receive(s, n, doing[r].tag)
      /\ v = IF homenode[t] = n THEN "out" ELSE "in"
  BY <1>1, ReceivedData DEF Values
<1>3. homenode[t] # n /\ doing[r].inside = NULL
  BY <1>1, ThreadFacts, HoldsWhat DEF ActivityOK, Busy
<1>4. i \in DOMAIN args[t] /\ i \in doing[r].left
  BY <1>1, NextArgFacts DEF Inv, Types
<1>5. /\ d.op = "receive" /\ d.task = t /\ d.left = doing[r].left \ {i} /\ d.inside = NULL
  BY <1>1, <1>3, OneLessIs DEF Inv, Types
<1>6. At("thread", r, t)
  BY <1>1 DEF At, Holds
<1>7. (\A y \in Thread : Here(y) = n /\ y # r => ~ Mentions(doing[y], t)) /\ t \notin ready[n]
  BY <1>2, <1>6, NoneElse
<1>8. temparg[n][t] \in [DOMAIN args[t] -> Content] /\ AwayOK(n, t)
  BY <1>2 DEF Inv, Types, MemoryType, Memory, Values, AllAway
<1>9. g[i] = "in" /\ \A j \in DOMAIN args[t] : j # i => g[j] = temparg[n][t][j]
  BY <1>2, <1>3, <1>4, <1>8
<1>10. \A j \in Inputs(t) : j \in DOMAIN args[t]
  BY <1>2, ArgFacts DEF Inputs
<1>11. \A j \in Inputs(t) \ doing[r].left : temparg[n][t][j] = "in"
  BY <1>1, <1>8 DEF AwayOK, ThreadOK
<1>12. \A j \in Inputs(t) \ d.left : g[j] = "in"
  BY <1>5, <1>9, <1>10, <1>11
<1>13. t # NULL
  BY <1>2, DistinctAssumption
<1> HIDE DEF d, g, v
<1>14. ThreadOK(d, t, n, homenode[t], g)
  BY <1>5, <1>12, <1>13 DEF ThreadOK, Carries
<1>15. \A u \in Task : u # t => ~ Mentions(d, u)
  <2>1. \A u \in Task : u # NULL
    BY DistinctAssumption
  <2> QED
    BY <1>5, <2>1 DEF Mentions, Holds
<1>16. \A u \in Task : u # t => ThreadOK(d, u, n, homenode[u], temparg[n][u])
  BY <1>15, FreeThread
<1>17. \A u \in Task : ~ Collects(d, u) /\ ~ Collects(doing[r], u)
  BY <1>1, <1>5 DEF Collects
<1>18. temparg'[n][t] = g /\ \A m \in Node, u \in Task : ~ (m = n /\ u = t) => temparg'[m][u] = temparg[m][u]
  BY <1>1, <1>2, BufferWritten DEF Inv
<1>19. \A j \in DOMAIN args[t] : g[j] # "freed twice"
  BY <1>8, <1>9 DEF AwayOK
<1>20. Delivered'
  BY <1>1, <1>2, DeliveredTaken DEF Values
<1> HIDE DEF t, n
<1>21. ThreadOK(d, t, n, homenode[t], temparg'[n][t]) /\ \A j \in DOMAIN args[t] : temparg'[n][t][j] # "freed twice"
  BY <1>14, <1>18, <1>19
<1> QED
  BY <1>1, <1>2, <1>7, <1>16, <1>17, <1>18, <1>20, <1>21, BuffersChange DEF n

LEMMA HaveArgumentsValues == ASSUME Inv, Values, NEW r \in Thread, HaveArguments(r) PROVE Values'
<1> DEFINE t == doing[r].task
           n == Here(r)
<1>1. /\ doing[r].op = "receive" /\ doing[r].left = {} /\ chan' = chan
      /\ homenode' = homenode /\ finished' = finished /\ UNCHANGED values
  BY DEF HaveArguments
<1>2. t \in Task /\ n \in Node
  BY <1>1, ThreadFacts DEF Busy
<1>3. \A i \in Inputs(t) : temparg[n][t][i] = "in"
  BY <1>1, <1>2, OwnBuffers DEF ThreadOK
<1>4. Delivered'
  BY <1>1, SameHome, DeliveredKept DEF Values
<1>5. CASE Do(r, Run(t)) /\ ready' = ready
  <2>1. ASSUME NEW u \in Task
        PROVE  /\ ~ Collects(Run(t), u) /\ ~ Collects(doing[r], u)
               /\ ThreadOK(Run(t), u, Here(r), homenode[u], temparg[Here(r)][u])
    BY <1>1, <1>2, <1>3, RunThread DEF Collects
  <2> QED
    BY <1>1, <1>4, <1>5, <2>1, ThreadValues
<1>6. CASE r \in Node /\ Do(r, Idle) /\ ready' = [ready EXCEPT ![r] = @ \cup {t}]
  <2>1. doing'[r] = Idle /\ \A x \in Thread : x # r => doing'[x] = doing[x]
    BY <1>6, DoFacts DEF Inv, Types
  <2>2. localarg' = localarg /\ temparg' = temparg /\ n = r
    BY <1>1, <1>6, Threads DEF values
  <2>3. ASSUME NEW u \in Task PROVE HomeOK(u)'
    <3>1. HomeOK(u)
      BY DEF Values, AllHome
    <3>2. ~ Collects(Idle, u) /\ ~ Collects(doing[r], u)
      BY <1>1, IdleRun DEF Collects
    <3>3. \A x \in Thread : doing'[x] = doing[x] \/ (~ Collects(doing[x], u) /\ ~ Collects(doing'[x], u))
      BY <2>1, <3>2
    <3> QED
      BY <1>1, <2>2, <3>1, <3>3, HomeStays
  <2>4. ASSUME NEW u \in Task, NEW m \in Node PROVE AwayOK(m, u)'
    <3>1. AwayOK(m, u)
      BY DEF Values, AllAway
    <3>2. ThreadOK(Idle, u, m, homenode[u], temparg[m][u])
      BY TasklessIdle, FreeThread
    <3>3. \A x \in Thread : Here(x) = m =>
            doing'[x] = doing[x] \/ ThreadOK(doing'[x], u, m, homenode[u], temparg[m][u])
      BY <2>1, <3>2
    <3>4. CASE u = t /\ m = r
      <4>1. \A x \in Thread : Here(x) = m => ThreadOK(doing'[x], u, m, homenode[u], temparg[m][u])
        BY <3>1, <3>3 DEF AwayOK
      <4> QED
        BY <1>1, <1>3, <2>2, <3>1, <3>4, <4>1 DEF AwayOK
    <3>5. CASE ~ (u = t /\ m = r)
      <4>1. u \in ready'[m] => u \in ready[m]
        <5>1. ready \in [Node -> SUBSET Task]
          BY DEF Inv, Types, TaskType
        <5> QED
          BY <1>6, <3>5, <5>1
      <4> QED
        BY <1>1, <2>2, <3>1, <3>3, <4>1, AwayStays
    <3> QED
      BY <3>4, <3>5
  <2> QED
    BY <1>4, <2>3, <2>4 DEF Values, AllHome, AllAway
<1> QED
  BY <1>5, <1>6, Threads DEF HaveArguments

LEMMA CollectingThread ==
  ASSUME NEW d, d.op \in {"collect", "idle"}, d.inside = NULL, NEW u \in Task, NEW n, NEW h, NEW v
  PROVE  ThreadOK(d, u, n, h, v)
<1>1. u # NULL
  BY DistinctAssumption
<1> QED
  BY <1>1 DEF ThreadOK, Carries

\* The thread that collects the results of a task is the only one.
LEMMA OneCollector ==
  ASSUME Inv, NEW r \in Thread, NEW t \in Task, Holds(doing[r], t)
  PROVE  /\ homenode[t] # NULL /\ t \notin finished
         /\ \A x \in Thread : x # r => ~ Holds(doing[x], t) /\ ~ Collects(doing[x], t)
<1>1. At("thread", r, t)
  BY DEF At
<1>2. homenode[t] # NULL /\ \A l, j : At(l, j, t) => l = "thread" /\ j = r
  BY <1>1, OnePlace
<1>3. t \in finished => At("done", 0, t)
  BY DEF At
<1>4. \A x \in Thread : Holds(doing[x], t) => At("thread", x, t)
  BY DEF At
<1>5. \A x \in Thread : Collects(doing[x], t) => Holds(doing[x], t)
  BY DEF Collects, Holds
<1> QED
  BY <1>2, <1>3, <1>4, <1>5

LEMMA ArgKinds ==
  ASSUME NEW t \in Task
  PROVE  /\ \A i \in Outputs(t) : i \notin Args(t, {"COP2"}) /\ i \in DOMAIN args[t]
         /\ \A i \in Args(t, {"COP2"}) : i \in Inputs(t) /\ i \in DOMAIN args[t] /\ i \notin Outputs(t)
         /\ \A i \in Inputs(t) : i \in DOMAIN args[t]
BY DEF Outputs, Inputs, Args

LEMMA CollectResultValues ==
  ASSUME Inv, Values, NEW r \in Node, NEW s \in Thread, CollectResult(r, s) PROVE Values'
<1>0. PICK t \in Task : t = doing[r].task
  BY Threads, ThreadFacts DEF CollectResult, Busy
<1> DEFINE i == NextArg(r)
           v == ArgValue(Received(s, Here(r), doing[r].tag), t, i)
           g == [localarg[t] EXCEPT ![i] = v]
           d == OneLess(r)
<1>1. /\ doing[r].op = "collect" /\ doing[r].left # {} /\ Matches(r, s) /\ Do(r, d)
      /\ homenode' = homenode /\ finished' = finished /\ ready' = ready /\ temparg' = temparg
      /\ localarg' = [localarg EXCEPT ![t] = g]
  BY <1>0 DEF CollectResult, tasks
<1>2. /\ r \in Thread /\ Here(r) = r
  BY Threads
<1>3. /\ t \in Task /\ Receive(s, Here(r), doing[r].tag) /\ Here(r) \in Node
      /\ v = IF homenode[t] = Here(r) THEN "out" ELSE "in"
  BY <1>0, <1>1, <1>2, ReceivedData DEF Values
<1>4. homenode[t] = r /\ doing[r].inside = NULL
  BY <1>0, <1>1, <1>2, ThreadFacts, HoldsWhat DEF ActivityOK, Busy
<1>5. i \in Outputs(t) /\ i \in doing[r].left
  BY <1>0, <1>1, <1>2, <1>3, NextArgFacts, Pairing DEF Inv, Types
<1>6. /\ d.op = "collect" /\ d.task = t /\ d.left = doing[r].left \ {i} /\ d.inside = NULL
  BY <1>0, <1>1, <1>2, <1>4, OneLessIs DEF Inv, Types
<1>7. /\ t \notin finished
      /\ \A x \in Thread : x # r => ~ Collects(doing[x], t)
  BY <1>0, <1>1, <1>2, <1>3, OneCollector DEF Holds
<1>8. localarg[t] \in [DOMAIN args[t] -> Content] /\ HomeOK(t)
  BY <1>0, <1>3 DEF Inv, Types, MemoryType, Memory, Values, AllHome
<1>9. g[i] = "out" /\ \A j \in DOMAIN args[t] : j # i => g[j] = localarg[t][j]
  BY <1>2, <1>3, <1>4, <1>5, <1>8, ArgKinds
<1>10. localarg'[t] = g /\ \A u \in Task : u # t => localarg'[u] = localarg[u]
  BY <1>0, <1>1, <1>3, HomeWritten DEF Inv
<1>11. Delivered'
  BY <1>0, <1>1, <1>3, DeliveredTaken DEF Values
<1> HIDE DEF d, g, v
<1>12. doing'[r] = d /\ \A x \in Thread : x # r => doing'[x] = doing[x]
  BY <1>0, <1>1, <1>2, DoFacts DEF Inv, Types
<1>13. /\ \A j \in Args(t, {"COP2"}) : localarg[t][j] = "freed"
       /\ \A j \in Outputs(t) \ doing[r].left : localarg[t][j] = "out"
  BY <1>0, <1>1, <1>2, <1>8 DEF HomeOK, Collects
<1>14. /\ \A j \in Args(t, {"COP2"}) : g[j] = "freed"
       /\ \A j \in Outputs(t) \ d.left : g[j] = "out"
  BY <1>3, <1>5, <1>6, <1>9, <1>13, ArgKinds
<1>15. Collects(doing'[r], t) /\ \A x \in Thread : x # r => ~ Collects(doing'[x], t)
  BY <1>0, <1>6, <1>7, <1>12 DEF Collects
<1>16. HomeOK(t)'
  <2>1. \A j \in DOMAIN args[t] : g[j] # "freed twice"
    BY <1>8, <1>9 DEF HomeOK
  <2> QED
    BY <1>0, <1>1, <1>2, <1>7, <1>10, <1>12, <1>14, <1>15, <2>1 DEF HomeOK
<1>17. \A u \in Task : ThreadOK(d, u, Here(r), homenode[u], temparg[Here(r)][u])
  BY <1>6, CollectingThread
<1>18. \A u \in Task : u # t => ~ Collects(doing[r], u) /\ ~ Collects(d, u)
  BY <1>0, <1>6 DEF Collects
<1> QED
  BY <1>0, <1>1, <1>2, <1>3, <1>10, <1>11, <1>16, <1>17, <1>18, HomeChange

LEMMA HaveResultsValues == ASSUME Inv, Values, NEW r \in Node, HaveResults(r) PROVE Values'
<1>0. PICK t \in Task : t = doing[r].task
  BY Threads, ThreadFacts DEF HaveResults, Busy
<1>1. /\ doing[r].op = "collect" /\ doing[r].left = {} /\ Do(r, Idle) /\ chan' = chan
      /\ homenode' = homenode /\ ready' = ready /\ temparg' = temparg /\ localarg' = localarg
      /\ finished' = finished \cup {t}
  BY <1>0 DEF HaveResults, values
<1>2. /\ r \in Thread /\ Here(r) = r
  BY Threads
<1>3. t \in Task
  BY <1>0, <1>1, <1>2, ThreadFacts DEF Busy
<1>4. \A x \in Thread : x # r => ~ Collects(doing[x], t)
  BY <1>0, <1>1, <1>2, <1>3, OneCollector DEF Holds
<1>5. HomeOK(t)
  BY <1>3 DEF Values, AllHome
<1>6. /\ \A j \in Args(t, {"COP2"}) : localarg[t][j] = "freed"
      /\ \A j \in Outputs(t) : localarg[t][j] = "out"
  BY <1>0, <1>1, <1>2, <1>5 DEF HomeOK, Collects
<1>7. doing'[r] = Idle /\ \A x \in Thread : x # r => doing'[x] = doing[x]
  BY <1>0, <1>1, <1>2, DoFacts DEF Inv, Types
<1>8. \A x \in Thread : ~ Collects(doing'[x], t)
  BY <1>4, <1>7, IdleRun DEF Collects
<1>9. HomeOK(t)'
  BY <1>0, <1>1, <1>5, <1>6, <1>8 DEF HomeOK
<1>10. Delivered'
  BY <1>0, <1>1, SameHome, DeliveredKept DEF Values
<1>11. \A u \in Task : ThreadOK(Idle, u, Here(r), homenode[u], temparg[Here(r)][u])
  BY TasklessIdle, FreeThread
<1>12. \A u \in Task : u # t => ~ Collects(doing[r], u) /\ ~ Collects(Idle, u)
  BY <1>0, IdleRun DEF Collects
<1>13. \A u \in Task : u # t => (u \in finished' <=> u \in finished)
  BY <1>1
<1> QED
  BY <1>0, <1>1, <1>2, <1>3, <1>9, <1>10, <1>11, <1>12, <1>13, HomeChange

\* What a task leaves in its arguments.
LEMMA RunLeaves ==
  ASSUME NEW t \in Task, NEW v \in [DOMAIN args[t] -> Content]
  PROVE  /\ \A i \in Outputs(t) : AfterRun(t, v)[i] = "out"
         /\ \A i \in Args(t, {"COP2"}) : v[i] = "in" => AfterRun(t, v)[i] = "freed"
         /\ \A i \in DOMAIN args[t] :
              i \notin Args(t, {"COP2"}) /\ v[i] # "freed twice" => AfterRun(t, v)[i] # "freed twice"
<1>1. DOMAIN v = DOMAIN args[t]
  OBVIOUS
<1>2. \A i \in DOMAIN args[t] :
        AfterRun(t, v)[i] = IF i \in Outputs(t) THEN "out"
                            ELSE IF i \in Args(t, {"COP2"}) THEN Freed(v[i]) ELSE v[i]
  BY <1>1 DEF AfterRun
<1>3. Freed("in") = "freed"
  BY DEF Freed
<1> QED
  BY <1>2, <1>3, ArgKinds

LEMMA FinishAtHomeValues == ASSUME Inv, Values, NEW s \in Thread, FinishAtHome(s) PROVE Values'
<1>0. PICK t \in Task : t = doing[s].task
  BY ThreadFacts DEF FinishAtHome, Busy
<1> DEFINE g == AfterRun(t, localarg[t])
<1>1. /\ doing[s].op = "run" /\ homenode[t] = Here(s) /\ Do(s, Idle) /\ chan' = chan
      /\ homenode' = homenode /\ ready' = ready /\ temparg' = temparg
      /\ localarg' = [localarg EXCEPT ![t] = g] /\ finished' = finished \cup {t}
  BY <1>0 DEF FinishAtHome
<1>2. t \in Task
  BY <1>0, <1>1, ThreadFacts DEF Busy
<1>3. \A x \in Thread : x # s => ~ Collects(doing[x], t)
  BY <1>0, <1>1, <1>2, OneCollector DEF Holds
<1>4. localarg[t] \in [DOMAIN args[t] -> Content]
  BY <1>2 DEF Inv, Types, MemoryType, Memory
<1>5. \A j \in Inputs(t) : localarg[t][j] = "in"
  <2>1. At("thread", s, t) /\ ~ Collects(doing[s], t)
    BY <1>0, <1>1 DEF At, Holds, Collects
  <2> QED
    BY <1>2, <2>1, HomeInputs
<1>6. (\A j \in Outputs(t) : g[j] = "out") /\ (\A j \in Args(t, {"COP2"}) : g[j] = "freed")
  <2>1. /\ \A j \in Outputs(t) : g[j] = "out"
        /\ \A j \in Args(t, {"COP2"}) : localarg[t][j] = "in" => g[j] = "freed"
    <3>1. \A v \in [DOMAIN args[t] -> Content] :
            /\ \A j \in Outputs(t) : AfterRun(t, v)[j] = "out"
            /\ \A j \in Args(t, {"COP2"}) : v[j] = "in" => AfterRun(t, v)[j] = "freed"
      BY RunLeaves
    <3> QED
      BY <1>4, <3>1
  <2>2. \A j \in Args(t, {"COP2"}) : localarg[t][j] = "in"
    BY <1>5, ArgKinds
  <2> QED
    BY <2>1, <2>2
<1>7. localarg'[t] = g /\ \A u \in Task : u # t => localarg'[u] = localarg[u]
  BY <1>0, <1>1, <1>2, HomeWritten DEF Inv
<1>15. \A j \in DOMAIN args[t] : g[j] # "freed twice"
  <2>1. /\ \A j \in DOMAIN args[t] : localarg[t][j] # "freed twice"
        /\ \A j \in DOMAIN args[t] \ (Outputs(t) \cup Args(t, {"COP2"})) : g[j] = localarg[t][j]
    BY <1>2, <1>4 DEF Values, AllHome, HomeOK, AfterRun
  <2> QED
    BY <1>6, <2>1
<1> HIDE DEF g
<1>8. doing'[s] = Idle /\ \A x \in Thread : x # s => doing'[x] = doing[x]
  BY <1>0, <1>1, DoFacts DEF Inv, Types
<1>9. \A x \in Thread : ~ Collects(doing'[x], t)
  BY <1>3, <1>8, IdleRun DEF Collects
<1>10. HomeOK(t)'
  BY <1>0, <1>1, <1>6, <1>7, <1>9, <1>15 DEF HomeOK
<1>11. Delivered'
  BY <1>0, <1>1, SameHome, DeliveredKept DEF Values
<1>12. \A u \in Task : ThreadOK(Idle, u, Here(s), homenode[u], temparg[Here(s)][u])
  BY TasklessIdle, FreeThread
<1>13. \A u \in Task : u # t => ~ Collects(doing[s], u) /\ ~ Collects(Idle, u)
  BY <1>0, <1>1, IdleRun DEF Collects
<1>14. \A u \in Task : u # t => (u \in finished' <=> u \in finished)
  BY <1>1
<1> QED
  BY <1>0, <1>1, <1>2, <1>7, <1>10, <1>11, <1>12, <1>13, <1>14, HomeChange

LEMMA ServeThiefValues ==
  ASSUME Inv, Values, NEW n \in Node, NEW s \in Thread, ServeThief(n, s) PROVE Values'
<1>1. /\ s \in Worker /\ First(s, n, MAX_NVPS) # 0 /\ doing[n].op = "idle" /\ homenode' = homenode
      /\ n \in Thread /\ Here(n) = n /\ ChanType
  BY ThiefFacts, Threads DEF Inv, Types
<1>2. finished' = finished /\ UNCHANGED values
  BY DEF ServeThief
<1>3. PICK m \in Letter :
        /\ Replies(n, s, m)
        /\ \/ /\ m.type = "stolen" /\ m.task \in ready[n] /\ m.task \in Task
              /\ ready' = [ready EXCEPT ![n] = @ \ {m.task}]
              /\ Do(n, IF homenode[m.task] = Here(s) THEN Idle
                       ELSE Settle(Act("send", m.task, SentArgs(m.task), Here(s), ReplyTag(s), NULL)))
           \/ /\ m.type = "TORC_NO_WORK" /\ doing' = doing /\ ready' = ready
  BY ReplyFacts
<1>4. Delivered'
  <2>1. SUFFICES ASSUME NEW x \in Thread, NEW y \in Node, NEW p \in DOMAIN chan'[<<x, y>>]
                 PROVE  DataOK(chan'[<<x, y>>][p], y, homenode')
    BY DEF Delivered
  <2>2. \/ \E r \in DOMAIN chan[<<x, y>>] : chan'[<<x, y>>][p] = chan[<<x, y>>][r]
        \/ chan'[<<x, y>>][p] = m
    BY <1>1, <1>3, RepliesOrOld
  <2>3. DataOK(m, y, homenode')
    BY <1>3 DEF DataOK
  <2>4. \A r \in DOMAIN chan[<<x, y>>] : DataOK(chan[<<x, y>>][r], y, homenode')
    BY <1>1, SameHome, OldData DEF Values
  <2> QED
    BY <2>2, <2>3, <2>4
<1>5. \A u \in Task : ~ Collects(doing[n], u)
  BY <1>1 DEF Collects
<1>6. ready \in [Node -> SUBSET Task]
  BY DEF Inv, Types, TaskType
<1>7. CASE doing' = doing /\ ready' = ready
  <2>1. Do(n, doing[n])
    BY <1>1, <1>7 DEF Do, Inv, Types, DoingType
  <2>2. \A u \in Task : ThreadOK(doing[n], u, Here(n), homenode[u], temparg[Here(n)][u])
    BY <1>1, OwnBuffers
  <2>3. \A y \in Node : ready'[y] \subseteq ready[y]
    BY <1>7
  <2> QED
    BY <1>1, <1>2, <1>4, <1>5, <2>1, <2>2, <2>3, ThreadValues
<1>8. CASE /\ m.task \in ready[n] /\ m.task \in Task
           /\ ready' = [ready EXCEPT ![n] = @ \ {m.task}]
           /\ Do(n, IF homenode[m.task] = Here(s) THEN Idle
                    ELSE Settle(Act("send", m.task, SentArgs(m.task), Here(s), ReplyTag(s), NULL)))
  <2>0. PICK t \in Task : t = m.task
    BY <1>8
  <2> DEFINE e == Settle(Act("send", t, SentArgs(t), Here(s), ReplyTag(s), NULL))
             d == IF homenode[t] = Here(s) THEN Idle ELSE e
  <2>1. Do(n, d) /\ t \in ready[n]
    BY <1>8, <2>0
  <2>2. \A y \in Node : ready'[y] \subseteq ready[y]
    BY <1>6, <1>8
  <2>3. homenode[t] # n => \A i \in SentArgs(t) : temparg[n][t][i] = "in"
    BY <2>1, Pairing DEF Values, AllAway, AwayOK
  <2>4. ASSUME NEW u \in Task
        PROVE  ~ Collects(d, u) /\ ThreadOK(d, u, n, homenode[u], temparg[n][u])
    <3>1. ~ Collects(Idle, u) /\ ThreadOK(Idle, u, n, homenode[u], temparg[n][u])
      BY IdleRun, TasklessIdle, FreeThread DEF Collects
    <3>2. NULL # u
      BY DistinctAssumption
    <3>3. u = t /\ homenode[u] # n => \A i \in SentArgs(t) : temparg[n][u][i] = "in"
      BY <2>3
    <3>4. ~ Collects(e, u) /\ ThreadOK(e, u, n, homenode[u], temparg[n][u])
      BY <3>2, <3>3, SettledAct
    <3> QED
      BY <3>1, <3>4
  <2> HIDE DEF d
  <2>5. \A u \in Task : /\ ~ Collects(d, u) /\ ~ Collects(doing[n], u)
                        /\ ThreadOK(d, u, Here(n), homenode[u], temparg[Here(n)][u])
    BY <1>1, <1>5, <2>4
  <2> QED
    BY <1>1, <1>2, <1>4, <2>1, <2>2, <2>5, ThreadValues
<1> QED
  BY <1>3, <1>7, <1>8

LEMMA SendResultValues == ASSUME Inv, Values, NEW s \in Thread, SendResult(s) PROVE Values'
<1>0. PICK t \in Task : t = doing[s].task
  BY ThreadFacts DEF SendResult, Busy
<1> DEFINE n == Here(s)
           i == NextArg(s)
           g == [temparg[n][t] EXCEPT ![i] = Freed(@)]
           m == Data(doing[s].tag, t, i, temparg[n][t][i])
           d == Settle(OneLess(s))
<1>1. /\ doing[s].op = "result" /\ Send(s, doing[s].peer, m) /\ Do(s, d)
      /\ homenode' = homenode /\ finished' = finished /\ ready' = ready /\ localarg' = localarg
      /\ temparg' = temparg \/ Writes(n, t, g)
  BY <1>0 DEF SendResult, tasks, Writes
<1>2. n \in Node /\ doing[s].left # {} /\ doing[s].inside = NULL
  BY <1>1, ThreadFacts, HoldsWhat DEF Busy
<1>3. i \in doing[s].left /\ i \in DOMAIN args[t]
  BY <1>0, <1>1, <1>2, NextArgFacts DEF Inv, Types
<1>4. doing[s].peer \in Node /\ doing[s].peer = homenode[t]
  BY <1>0, <1>1, Toward
<1>5. \A j \in doing[s].left : temparg[n][t][j] = "out"
  BY <1>0, <1>1, OwnBuffers DEF ThreadOK
<1>6. DataOK(m, doing[s].peer, homenode')
  BY <1>1, <1>3, <1>4, <1>5, Fields DEF DataOK
<1>7. temparg[n][t] \in [DOMAIN args[t] -> Content] /\ AwayOK(n, t)
  BY <1>2 DEF Inv, Types, MemoryType, Memory, Values, AllAway
<1>8. g[i] = "freed" /\ \A j \in DOMAIN args[t] : j # i => g[j] = temparg[n][t][j]
  BY <1>3, <1>5, <1>7 DEF Freed
<1>9. (\A y \in Thread : y # s /\ Here(y) = n => ~ Mentions(doing[y], t)) /\ t \notin ready[n]
  BY <1>0, <1>1, NoneElseSends
<1>10. \A m2 \in Node, u \in Task : ~ (m2 = n /\ u = t) => temparg'[m2][u] = temparg[m2][u]
  <2>1. Types
    BY DEF Inv
  <2> HIDE DEF g, n
  <2> QED
    BY <1>1, <1>2, <2>1, BufferWritten
<1>11. temparg'[n][t] = temparg[n][t] \/ temparg'[n][t] = g
  <2>1. Types
    BY DEF Inv
  <2> HIDE DEF g, n
  <2> QED
    BY <1>1, <1>2, <2>1, BufferWritten
<1>12. \A j \in DOMAIN args[t] : temparg'[n][t][j] # "freed twice"
  <2>1. \A j \in DOMAIN args[t] : g[j] # "freed twice" /\ temparg[n][t][j] # "freed twice"
    BY <1>7, <1>8 DEF AwayOK
  <2> HIDE DEF g
  <2> QED
    BY <1>11, <2>1
<1>13. \A j \in doing[s].left \ {i} : temparg'[n][t][j] = "out"
  <2>1. \A j \in doing[s].left : j \in DOMAIN args[t]
    BY <1>0, <1>1, ThreadFacts, ArgFacts DEF Busy, Upper
  <2>2. \A j \in doing[s].left \ {i} : g[j] = "out"
    BY <1>5, <1>8, <2>1
  <2> HIDE DEF g
  <2> QED
    BY <1>5, <1>11, <2>2
<1>14. ThreadOK(d, t, n, homenode[t], temparg'[n][t])
  <2> DEFINE e == OneLess(s)
  <2>1. e.op = "result" /\ e.task = t /\ e.left = doing[s].left \ {i} /\ e.inside = NULL
    BY <1>0, <1>1, <1>2, OneLessIs DEF Inv, Types
  <2>2. d = e \/ d = Idle
    BY <2>1 DEF Settle
  <2>3. ThreadOK(Idle, t, n, homenode[t], temparg'[n][t])
    BY TasklessIdle, FreeThread
  <2>4. t # NULL
    BY DistinctAssumption
  <2> HIDE DEF e, d, n
  <2>5. ThreadOK(e, t, n, homenode[t], temparg'[n][t])
    BY <1>13, <2>1, <2>4 DEF ThreadOK, Carries
  <2> QED
    BY <2>2, <2>3, <2>5
<1>15. ASSUME NEW u \in Task
       PROVE  /\ ~ Collects(d, u) /\ ~ Collects(doing[s], u)
              /\ ThreadOK(d, u, n, homenode[u], temparg[n][u])
  <2>1. ThreadOK(doing[s], u, n, homenode[u], temparg[n][u])
    BY OwnBuffers
  <2>2. ~ Collects(doing[s], u) /\ doing[s].op \in {"send", "result"}
    BY <1>1 DEF Collects
  <2> HIDE DEF n
  <2> QED
    BY <2>1, <2>2, SettledOneLess
<1> HIDE DEF m, d, g
<1>16. Delivered'
  BY <1>1, <1>4, <1>6, SameHome, DeliveredSent DEF Values
<1> QED
  BY <1>1, <1>9, <1>10, <1>12, <1>14, <1>15, <1>16, BuffersChange

LEMMA FinishAwayValues == ASSUME Inv, Values, NEW s \in Thread, FinishAway(s) PROVE Values'
<1>0. PICK t \in Task : t = doing[s].task
  BY AwayFacts
<1> DEFINE n == Here(s)
           g == AfterRun(t, temparg[n][t])
           m == Descriptor(MAX_NVPS, "TORC_ANSWER", t)
           d == Settle(Act("result", t, SentResults(t), homenode[t], Tag(s), NULL))
<1>1. /\ doing[s].op = "run" /\ homenode[t] # n /\ homenode[t] \in Node /\ n \in Node
      /\ Send(s, homenode[t], m) /\ Do(s, d) /\ Writes(n, t, g)
      /\ homenode' = homenode /\ finished' = finished /\ ready' = ready /\ localarg' = localarg
  BY <1>0, AwayFacts, Threads DEF FinishAway, tasks, Writes
<1>2. \A j \in Inputs(t) : temparg[n][t][j] = "in"
  BY <1>0, <1>1, OwnBuffers DEF ThreadOK, Carries
<1>3. temparg[n][t] \in [DOMAIN args[t] -> Content] /\ AwayOK(n, t)
  BY <1>1 DEF Inv, Types, MemoryType, Memory, Values, AllAway
<1>4. /\ \A j \in Outputs(t) : g[j] = "out"
      /\ \A j \in Args(t, {"COP2"}) : temparg[n][t][j] = "in" => g[j] = "freed"
      /\ \A j \in DOMAIN args[t] :
           j \notin Args(t, {"COP2"}) /\ temparg[n][t][j] # "freed twice" => g[j] # "freed twice"
  <2>1. \A v \in [DOMAIN args[t] -> Content] :
          /\ \A j \in Outputs(t) : AfterRun(t, v)[j] = "out"
          /\ \A j \in Args(t, {"COP2"}) : v[j] = "in" => AfterRun(t, v)[j] = "freed"
          /\ \A j \in DOMAIN args[t] :
               j \notin Args(t, {"COP2"}) /\ v[j] # "freed twice" => AfterRun(t, v)[j] # "freed twice"
    BY RunLeaves
  <2> QED
    BY <1>3, <2>1
<1>5. \A j \in Args(t, {"COP2"}) : temparg[n][t][j] = "in"
  BY <1>2, ArgKinds
<1> HIDE DEF g
<1>6. \A j \in DOMAIN args[t] : g[j] # "freed twice"
  BY <1>3, <1>4, <1>5 DEF AwayOK
<1>7. (\A y \in Thread : Here(y) = n /\ y # s => ~ Mentions(doing[y], t)) /\ t \notin ready[n]
  <2>1. At("thread", s, t)
    BY <1>0, <1>1 DEF At, Holds
  <2> QED
    BY <1>1, <2>1, NoneElse
<1>8. temparg'[n][t] = g /\ \A m2 \in Node, u \in Task : ~ (m2 = n /\ u = t) => temparg'[m2][u] = temparg[m2][u]
  <2>1. Types
    BY DEF Inv
  <2> HIDE DEF n
  <2> QED
    BY <1>1, <2>1, BufferWritten
<1>9. ASSUME NEW u \in Task, NEW v, u = t => v = g PROVE ThreadOK(d, u, n, homenode[u], v) /\ ~ Collects(d, u)
  <2>1. NULL # u
    BY DistinctAssumption
  <2>2. u = t => \A j \in SentResults(t) : v[j] = "out"
    BY <1>4, <1>9, Pairing
  <2> HIDE DEF n
  <2> QED
    BY <2>1, <2>2, SettledAct
<1>10. DataOK(m, homenode[t], homenode')
  BY Fields DEF DataOK
<1> HIDE DEF m, d, n
<1>11. Delivered'
  BY <1>1, <1>10, SameHome, DeliveredSent DEF Values
<1>12. ThreadOK(d, t, n, homenode[t], temparg'[n][t])
  BY <1>8, <1>9
<1>13. \A u \in Task : u # t => ThreadOK(d, u, n, homenode[u], temparg[n][u])
  BY <1>9
<1>14. \A u \in Task : ~ Collects(d, u) /\ ~ Collects(doing[s], u)
  <2>1. \A u \in Task : ~ Collects(doing[s], u)
    BY <1>1 DEF Collects
  <2>2. ASSUME NEW u \in Task PROVE ~ Collects(d, u)
    BY <1>9
  <2> QED
    BY <2>1, <2>2
<1>15. \A j \in DOMAIN args[t] : temparg'[n][t][j] # "freed twice"
  BY <1>6, <1>8
<1> QED
  BY <1>1, <1>7, <1>8, <1>11, <1>12, <1>13, <1>14, <1>15, BuffersChange DEF n

\* The buffers of a task that has just come to a node.
LEMMA AllocateValues ==
  ASSUME Inv, Values, NEW r \in Thread, NEW x \in Thread, NEW t \in Task, At("chan", <<x, Here(r)>>, t),
         NEW peer, NEW tag, Allocate(r, t, peer, tag), doing[r].op \in {"idle", "asked"},
         homenode' = homenode, finished' = finished, ready' = ready, localarg' = localarg, Delivered'
  PROVE  Values'
<1> DEFINE n == Here(r)
           g == [i \in DOMAIN temparg[n][t] |-> IF i \in Args(t, {"COP", "VAD"}) THEN localarg[t][i] ELSE "none"]
           d == Act("receive", t, AwaitedArgs(t), peer, tag, NULL)
<1>1. Do(r, d) /\ Writes(n, t, g) /\ n \in Node
  BY Threads DEF Allocate, Writes
<1>2. (\A y \in Thread : Here(y) = n /\ y # r => ~ Mentions(doing[y], t)) /\ t \notin ready[n]
  BY <1>1, NoneElse
<1>3. DOMAIN temparg[n][t] = DOMAIN args[t]
  BY <1>1 DEF Inv, Types, MemoryType, Memory
<1>4. \A j \in Inputs(t) : localarg[t][j] = "in"
  BY HomeInputs
<1>5. \A j \in DOMAIN args[t] : g[j] = IF j \in Args(t, {"COP", "VAD"}) THEN localarg[t][j] ELSE "none"
  BY <1>3
<1>6. \A j \in Args(t, {"COP", "VAD"}) : j \in Inputs(t) /\ j \in DOMAIN args[t]
  BY Pairing, ArgKinds
<1> HIDE DEF g
<1>7. /\ \A j \in DOMAIN args[t] : g[j] # "freed twice"
      /\ \A j \in Args(t, {"COP", "VAD"}) : g[j] = "in"
  BY <1>4, <1>5, <1>6
<1>8. \A j \in Inputs(t) \ AwaitedArgs(t) : g[j] = "in"
  BY <1>7, Pairing
<1>9. d.op = "receive" /\ d.task = t /\ d.left = AwaitedArgs(t) /\ d.inside = NULL
  BY ActIs
<1>10. t # NULL /\ \A u \in Task : u # NULL
  BY DistinctAssumption
<1> HIDE DEF d, n
<1>11. ThreadOK(d, t, n, homenode[t], g)
  BY <1>8, <1>9, <1>10 DEF ThreadOK, Carries
<1>12. \A u \in Task : u # t => ~ Mentions(d, u)
  BY <1>9, <1>10 DEF Mentions, Holds
<1>13. \A u \in Task : u # t => ThreadOK(d, u, n, homenode[u], temparg[n][u])
  BY <1>12, FreeThread
<1>14. \A u \in Task : ~ Collects(d, u) /\ ~ Collects(doing[r], u)
  BY <1>9 DEF Collects
<1>15. temparg'[n][t] = g /\ \A m2 \in Node, u \in Task : ~ (m2 = n /\ u = t) => temparg'[m2][u] = temparg[m2][u]
  BY <1>1, BufferWritten DEF Inv
<1>16. ThreadOK(d, t, n, homenode[t], temparg'[n][t]) /\ \A j \in DOMAIN args[t] : temparg'[n][t][j] # "freed twice"
  BY <1>7, <1>11, <1>15
<1> QED
  BY <1>1, <1>2, <1>13, <1>14, <1>15, <1>16, BuffersChange DEF n

LEMMA RecvWorkValues ==
  ASSUME Inv, Values, NEW n \in Node, NEW s \in Thread, RecvWork(n, s) PROVE Values'
<1>1. Accepts(n, s, "TORC_NORMAL_ENQUEUE") /\ Receive(s, n, MAX_NVPS)
      /\ homenode' = homenode /\ ready' = ready /\ finished' = finished /\ localarg' = localarg
      /\ n \in Thread /\ Here(n) = n /\ doing[n].op = "idle"
  BY Threads DEF RecvWork, tasks, Accepts
<1>2. Received(s, n, MAX_NVPS).type \in Descriptors /\ AcceptedTask(n, s) \in Task
  BY <1>1, AcceptedOK, KindsApart DEF AcceptedTask
<1>3. PICK t \in Task : t = AcceptedTask(n, s)
  BY <1>2
<1>4. At("chan", <<s, Here(n)>>, t)
  BY <1>1, <1>2, <1>3, TakenGone DEF At, AcceptedTask
<1>5. Allocate(n, t, Here(s), Tag(s))
  BY <1>3 DEF RecvWork
<1>6. Delivered'
  BY <1>1, DeliveredTaken DEF Values
<1> QED
  BY <1>1, <1>4, <1>5, <1>6, AllocateValues

LEMMA StolenValues == ASSUME Inv, Values, NEW w \in Worker, Stolen(w) PROVE Values'
<1> DEFINE k == doing[w].peer
           n == Here(w)
<1>1. Answered(w, "stolen") /\ homenode' = homenode /\ ready' = ready /\ finished' = finished /\ localarg' = localarg
      /\ w \in Thread /\ n \in Node /\ doing[w].op = "asked"
  BY Threads DEF Stolen, tasks, Answered
<1>2. /\ k \in Node /\ k \in Thread /\ doing[w].tag = ReplyTag(w) /\ Receive(k, n, ReplyTag(w))
      /\ Received(k, n, ReplyTag(w)).type = "stolen" /\ Received(k, n, ReplyTag(w)).task \in Task
  BY <1>1, AnswerFacts, Threads
<1>3. PICK t \in Task : t = Received(k, n, ReplyTag(w)).task
  BY <1>2
<1>4. At("chan", <<k, n>>, t)
  BY <1>1, <1>2, <1>3, TakenGone, KindsApart DEF At
<1>5. Delivered'
  BY <1>1, <1>2, DeliveredTaken DEF Values
<1>6. CASE Allocate(w, t, k, doing[w].tag)
  BY <1>1, <1>2, <1>4, <1>5, <1>6, AllocateValues
<1>7. CASE homenode[t] = n /\ Do(w, Run(t)) /\ temparg' = temparg
  <2>1. ASSUME NEW u \in Task
        PROVE  /\ ~ Collects(Run(t), u) /\ ~ Collects(doing[w], u)
               /\ ThreadOK(Run(t), u, Here(w), homenode[u], temparg[Here(w)][u])
    BY <1>1, <1>7, RunThread DEF Collects
  <2>2. \A y \in Node : ready'[y] \subseteq ready[y]
    BY <1>1
  <2>3. UNCHANGED values
    BY <1>1, <1>7 DEF values
  <2> QED
    BY <1>1, <1>5, <1>7, <2>1, <2>2, <2>3, ThreadValues
<1> QED
  BY <1>2, <1>3, <1>6, <1>7 DEF Stolen

LEMMA RecvAnswerValues ==
  ASSUME Inv, Values, NEW n \in Node, NEW s \in Thread, RecvAnswer(n, s) PROVE Values'
<1>1. Accepts(n, s, "TORC_ANSWER") /\ Receive(s, n, MAX_NVPS)
      /\ homenode' = homenode /\ ready' = ready /\ finished' = finished /\ temparg' = temparg
      /\ n \in Thread /\ Here(n) = n /\ doing[n].op = "idle"
  BY Threads DEF RecvAnswer, tasks, Accepts
<1>2. Received(s, n, MAX_NVPS).type \in Descriptors /\ AcceptedTask(n, s) \in Task
  BY <1>1, AcceptedOK, KindsApart DEF AcceptedTask
<1>3. PICK t \in Task : t = AcceptedTask(n, s)
  BY <1>2
<1> DEFINE d == Act("collect", t, AwaitedResults(t), Here(s), Tag(s), NULL)
           g == [i \in DOMAIN localarg[t] |-> IF i \in Args(t, {"COP2"}) THEN Freed(localarg[t][i]) ELSE localarg[t][i]]
<1>4. At("chan", <<s, n>>, t)
  BY <1>1, <1>2, <1>3, TakenGone DEF At, AcceptedTask
<1>5. Do(n, d) /\ localarg' = [localarg EXCEPT ![t] = g]
  BY <1>3 DEF RecvAnswer
<1>6. Delivered'
  BY <1>1, DeliveredTaken DEF Values
<1>7. \A l, j : At(l, j, t) => l = "chan"
  BY <1>4, OnePlace
<1>8. t \notin finished /\ \A x \in Thread : ~ Collects(doing[x], t)
  <2>1. t \in finished => At("done", 0, t)
    BY DEF At
  <2>2. \A x \in Thread : Collects(doing[x], t) => At("thread", x, t)
    BY DEF Collects, At, Holds
  <2> QED
    BY <1>7, <2>1, <2>2
<1>9. DOMAIN localarg[t] = DOMAIN args[t]
  BY DEF Inv, Types, MemoryType, Memory
<1>10. \A j \in Inputs(t) : localarg[t][j] = "in"
  BY <1>4, HomeInputs
<1>11. \A j \in Args(t, {"COP2"}) : g[j] = "freed"
  <2>1. \A j \in Args(t, {"COP2"}) : j \in DOMAIN args[t] /\ localarg[t][j] = "in"
    BY <1>10, ArgKinds
  <2> QED
    BY <1>9, <2>1 DEF Freed
<1>22. \A j \in DOMAIN args[t] : g[j] # "freed twice"
  <2>1. \A j \in DOMAIN args[t] : localarg[t][j] # "freed twice"
    BY DEF Values, AllHome, HomeOK
  <2>2. \A j \in DOMAIN args[t] \ Args(t, {"COP2"}) : g[j] = localarg[t][j]
    BY <1>9
  <2> QED
    BY <1>11, <2>1, <2>2
<1> HIDE DEF g
<1>12. localarg'[t] = g /\ \A u \in Task : u # t => localarg'[u] = localarg[u]
  BY <1>5, HomeWritten DEF Inv
<1>13. d.op = "collect" /\ d.task = t /\ d.left = AwaitedResults(t) /\ d.inside = NULL
  BY ActIs
<1>14. Outputs(t) \ d.left = {}
  BY <1>13, Pairing
<1> HIDE DEF d
<1>15. doing'[n] = d /\ \A x \in Thread : x # n => doing'[x] = doing[x]
  BY <1>1, <1>5, DoFacts DEF Inv, Types
<1>16. Collects(doing'[n], t) /\ \A x \in Thread : x # n => ~ Collects(doing'[x], t)
  BY <1>8, <1>13, <1>15 DEF Collects
<1>17. HomeOK(t)'
  BY <1>1, <1>8, <1>11, <1>12, <1>14, <1>15, <1>16, <1>22 DEF HomeOK
<1>18. \A u \in Task : ThreadOK(d, u, Here(n), homenode[u], temparg[Here(n)][u])
  BY <1>13, CollectingThread
<1>19. \A u \in Task : u # t => ~ Collects(doing[n], u) /\ ~ Collects(d, u)
  BY <1>1, <1>13 DEF Collects
<1> QED
  BY <1>1, <1>5, <1>6, <1>12, <1>17, <1>18, <1>19, HomeChange

\* A task that has not been created is not anywhere.
LEMMA Unborn ==
  ASSUME Inv, NEW t \in Task, homenode[t] = NULL
  PROVE  /\ \A x \in Thread : ~ Mentions(doing[x], t) /\ ~ Collects(doing[x], t)
         /\ t \notin finished /\ \A n \in Node : t \notin ready[n]
<1>1. \A k, i : ~ At(k, i, t)
  BY OnePlace
<1>2. t \notin finished
  BY <1>1 DEF At
<1>3. \A n \in Node : t \notin ready[n]
  BY <1>1 DEF At
<1>4. ASSUME NEW x \in Thread PROVE ~ Mentions(doing[x], t) /\ ~ Collects(doing[x], t)
  <2>1. doing[x].task # t /\ doing[x].inside # t
    BY ThreadFacts, DistinctAssumption
  <2> QED
    BY <2>1 DEF Mentions, Holds, Collects
<1> QED
  BY <1>2, <1>3, <1>4

LEMMA CreateValues ==
  ASSUME Inv, Values, NEW s \in Thread, NEW t \in Task, Create(s, t) PROVE Values'
<1> DEFINE n0 == Here(s)
           m == Descriptor(MAX_NVPS, "TORC_NORMAL_ENQUEUE", t)
           c == doing[s].task
           d == Settle(Act("send", t, SentArgs(t), target[t], Tag(s), c))
<1>1. /\ HomeKept(homenode, homenode') /\ homenode[t] = NULL /\ homenode'[t] = n0 /\ n0 \in Node
      /\ target[t] \in Node /\ \A u \in Task : u # t => homenode'[u] = homenode[u]
  BY CreateHome DEF Inv
<1>2. /\ doing[s].op \in {"idle", "run"} /\ c \in Task \cup {NULL}
      /\ doing[s].op = "idle" => c = NULL
      /\ doing[s].inside = NULL
  BY CallerIs, DistinctAssumption DEF Inv
<1>3. /\ finished' = finished /\ temparg' = temparg
      /\ localarg' = [localarg EXCEPT ![t] = [i \in DOMAIN @ |-> IF i \in Inputs(t) THEN "in" ELSE "none"]]
  BY DEF Create
<1>4. \/ chan' = chan /\ doing' = doing /\ ready' = [ready EXCEPT ![n0] = @ \cup {t}]
      \/ Send(s, target[t], m) /\ Do(s, d) /\ ready' = ready
  BY DEF Create
<1>5. /\ \A x \in Thread : ~ Mentions(doing[x], t) /\ ~ Collects(doing[x], t)
      /\ t \notin finished /\ \A n \in Node : t \notin ready[n]
  BY <1>1, Unborn
<1>6. Delivered'
  <2>1. DataOK(m, target[t], homenode')
    BY Fields DEF DataOK
  <2> HIDE DEF m
  <2> QED
    BY <1>1, <1>4, <2>1, DeliveredKept, DeliveredSent DEF Values
<1>7. /\ \A j \in Inputs(t) : localarg'[t][j] = "in"
      /\ \A j \in DOMAIN args[t] : localarg'[t][j] # "freed twice"
  <2> DEFINE g == [i \in DOMAIN localarg[t] |-> IF i \in Inputs(t) THEN "in" ELSE "none"]
  <2>1. localarg' = [localarg EXCEPT ![t] = g]
    BY <1>3
  <2>2. DOMAIN localarg[t] = DOMAIN args[t]
    BY DEF Inv, Types, MemoryType, Memory
  <2>3. /\ \A j \in Inputs(t) : g[j] = "in"
        /\ \A j \in DOMAIN args[t] : g[j] # "freed twice"
    BY <2>2, ArgKinds
  <2> HIDE DEF g
  <2> QED
    BY <2>1, <2>3, HomeWritten DEF Inv
<1>8. \A u \in Task : u # t => localarg'[u] = localarg[u]
  BY <1>3
<1>9. \A n \in Node, u \in Task : u \in ready'[n] => u \in ready[n] \/ (u = t /\ n = n0)
  <2>1. ready \in [Node -> SUBSET Task]
    BY DEF Inv, Types, TaskType
  <2> HIDE DEF n0, m, d
  <2> QED
    BY <1>4, <2>1
<1>10. ASSUME NEW u \in Task, NEW h, u = t => h = n0, u # t => h = homenode[u]
       PROVE  ~ Collects(d, u) /\ ThreadOK(d, u, n0, h, temparg[n0][u])
  <2>1. c = u /\ h # n0 => \A i \in Inputs(u) : temparg[n0][u][i] = "in"
    <3>1. SUFFICES ASSUME c = u, h # n0 PROVE \A i \in Inputs(u) : temparg[n0][u][i] = "in"
      OBVIOUS
    <3>2. doing[s].op = "run" /\ u # t
      BY <1>2, <1>10, <3>1, DistinctAssumption
    <3>3. ThreadOK(doing[s], u, n0, homenode[u], temparg[n0][u])
      BY OwnBuffers
    <3> QED
      BY <1>10, <3>1, <3>2, <3>3 DEF ThreadOK, Carries
  <2>2. u = t => (h # n0 => \A i \in SentArgs(t) : temparg[n0][u][i] = "in")
    BY <1>10
  <2> HIDE DEF n0, c
  <2> QED
    BY <1>2, <2>1, <2>2, SettledAct
<1> HIDE DEF m, d
<1>11. /\ \A x \in Thread : x # s => doing'[x] = doing[x]
       /\ doing'[s] \in {doing[s], d}
  BY <1>4, DoFacts DEF Inv, Types
<1>12. ASSUME NEW u \in Task PROVE HomeOK(u)'
  <2>1. CASE u = t
    <3>1. \A x \in Thread : ~ Collects(doing'[x], t)
      BY <1>1, <1>5, <1>10, <1>11
    <3> QED
      BY <1>3, <1>5, <1>7, <2>1, <3>1 DEF HomeOK
  <2>2. CASE u # t
    <3>1. HomeOK(u)
      BY DEF Values, AllHome
    <3>2. ~ Collects(doing[s], u) /\ ~ Collects(d, u)
      BY <1>2, <1>10, <2>2 DEF Collects
    <3>3. \A x \in Thread : doing'[x] = doing[x] \/ (~ Collects(doing[x], u) /\ ~ Collects(doing'[x], u))
      BY <1>11, <3>2
    <3> QED
      BY <1>1, <1>3, <1>8, <2>2, <3>1, <3>3, HomeStays
  <2> QED
    BY <2>1, <2>2
<1>13. ASSUME NEW n \in Node, NEW u \in Task PROVE AwayOK(n, u)'
  <2>0. AwayOK(n, u)
    BY DEF Values, AllAway
  <2>1. CASE u = t
    <3>1. ASSUME NEW x \in Thread, Here(x) = n PROVE ThreadOK(doing'[x], t, n, n0, temparg[n][t])
      <4>1. ThreadOK(doing[x], t, n, n0, temparg[n][t])
        BY <1>5, FreeThread
      <4>2. n = n0 => ThreadOK(d, t, n, n0, temparg[n][t])
        BY <1>10
      <4> QED
        BY <1>11, <3>1, <4>1, <4>2
    <3>2. t \in ready'[n] => n = n0
      BY <1>5, <1>9
    <3> QED
      BY <1>1, <1>3, <2>0, <2>1, <3>1, <3>2 DEF AwayOK
  <2>2. CASE u # t
    <3>1. n = n0 => ThreadOK(d, u, n, homenode[u], temparg[n][u])
      BY <1>10, <2>2
    <3>2. \A x \in Thread : Here(x) = n =>
            doing'[x] = doing[x] \/ ThreadOK(doing'[x], u, n, homenode[u], temparg[n][u])
      BY <1>11, <3>1
    <3>3. u \in ready'[n] => u \in ready[n]
      BY <1>9, <2>2
    <3> QED
      BY <1>1, <1>3, <2>0, <2>2, <3>2, <3>3, AwayStays
  <2> QED
    BY <2>1, <2>2
<1> QED
  BY <1>6, <1>12, <1>13 DEF Values, AllHome, AllAway

LEMMA InitValues == ASSUME Init PROVE Values
<1>1. Delivered
  BY DEF Init, Delivered
<1>2. \A s \in Thread, t \in Task : ~ Mentions(doing[s], t) /\ ~ Collects(doing[s], t)
  <2>1. \A s \in Thread : doing[s] = Idle
    BY DEF Init
  <2>2. \A t \in Task : ~ Mentions(Idle, t)
    BY TasklessIdle
  <2>3. \A t \in Task : ~ Collects(Idle, t)
    BY IdleRun DEF Collects
  <2> QED
    BY <2>1, <2>2, <2>3
<1>3. AllHome
  <2>1. \A t \in Task : /\ homenode[t] = NULL /\ t \notin finished
                        /\ \A i \in DOMAIN args[t] : localarg[t][i] = "none"
    BY DEF Init
  <2> QED
    BY <1>2, <2>1 DEF AllHome, HomeOK
<1>4. AllAway
  <2> SUFFICES ASSUME NEW t \in Task, NEW n \in Node PROVE AwayOK(n, t)
    BY DEF AllAway
  <2>1. t \notin ready[n] /\ \A i \in DOMAIN args[t] : temparg[n][t][i] = "none"
    BY DEF Init
  <2>2. \A s \in Thread : ThreadOK(doing[s], t, n, homenode[t], temparg[n][t])
    BY <1>2, FreeThread
  <2> QED
    BY <2>1, <2>2 DEF AwayOK
<1> QED
  BY <1>1, <1>3, <1>4 DEF Values

LEMMA ServerValues == ASSUME Inv, Values, NEW n \in Node, ServerStep(n) PROVE Values'
<1>1. ASSUME NEW s \in Thread, RecvWork(n, s) \/ RecvAnswer(n, s) \/ ServeThief(n, s) PROVE Values'
  BY <1>1, RecvWorkValues, RecvAnswerValues, ServeThiefValues
<1>2. ASSUME NEW s \in Thread, RecvBcast(n, s) \/ CollectResult(n, s) \/ MatchBuffer(n, s) PROVE Values'
  BY <1>2, RecvBcastValues, CollectResultValues, MatchBufferValues
<1> QED
  BY <1>1, <1>2, HaveResultsValues, BufferArrivesValues DEF ServerStep

LEMMA WorkerValues == ASSUME Inv, Values, NEW w \in Worker, WorkerStep(w) PROVE Values'
<1>1. (\E t \in Task : TakeReady(w, t)) \/ AskForWork(w) \/ GiveUp(w) \/ Refused(w) => Values'
  BY TakeReadyValues, AskForWorkValues, GiveUpValues, RefusedValues
<1>2. Stolen(w) \/ Broadcast(w) \/ Ssend(w) \/ Told(w) => Values'
  BY StolenValues, BroadcastValues, SsendValues, ToldValues
<1> QED
  BY <1>1, <1>2 DEF WorkerStep

LEMMA StepValues == ASSUME Inv, Values, [Next]_vars PROVE Values'
<1>1. ASSUME NEW s \in Thread, ThreadStep(s) PROVE Values'
  <2>1. (\E t \in Task : Create(s, t)) \/ SendArgument(s) \/ EnterToReceive(s) \/ HaveArguments(s) => Values'
    BY CreateValues, SendArgumentValues, EnterToReceiveValues, HaveArgumentsValues
  <2>2. (\E r \in Thread : RecvArgument(s, r)) \/ FinishAtHome(s) => Values'
    BY RecvArgumentValues, FinishAtHomeValues
  <2>3. FinishAway(s) \/ SendResult(s) => Values'
    BY FinishAwayValues, SendResultValues
  <2>4. (s \in Node /\ ServerStep(s)) \/ (s \in Worker /\ WorkerStep(s)) => Values'
    BY ServerValues, WorkerValues
  <2> QED
    BY <1>1, <2>1, <2>2, <2>3, <2>4 DEF ThreadStep
<1>2. ASSUME UNCHANGED vars PROVE Values'
  <2>1. UNCHANGED <<chan, doing, homenode, ready, finished, localarg, temparg>>
    BY <1>2 DEF vars, tasks, values
  <2> QED
    BY <2>1, SameValues
<1> QED
  BY <1>1, <1>2 DEF Next

\* Arguments and results are where they should be, in every state.
THEOREM AlwaysValues == QuietServers => (Spec => [](Inv /\ Values))
<1> SUFFICES ASSUME QuietServers PROVE Spec => [](Inv /\ Values)
  OBVIOUS
<1>1. Init => Inv /\ Values
  BY InitInv, InitValues
<1>2. Inv /\ Values /\ [Next]_vars => (Inv /\ Values)'
  BY StepInv, StepValues
<1> QED
  BY <1>1, <1>2, PTL DEF Spec

----------------------------------------------------------------------------
(* What the invariant says of the arguments.                               *)

LEMMA InputsThere == ASSUME Inv, Values PROVE InputsArrive
<1> SUFFICES ASSUME NEW s \in Thread, NEW t \in Task, Runs(s, t), NEW i \in Inputs(t)
             PROVE  (IF homenode[t] = Here(s) THEN localarg[t][i] ELSE temparg[Here(s)][t][i]) = "in"
  BY DEF InputsArrive
<1>1. doing[s].op = "run" /\ doing[s].task = t
  BY DEF Runs
<1>2. CASE homenode[t] = Here(s)
  <2>1. At("thread", s, t) /\ ~ Collects(doing[s], t)
    BY <1>1 DEF At, Holds, Collects
  <2>2. \A j \in Inputs(t) : localarg[t][j] = "in"
    BY <2>1, HomeInputs
  <2> QED
    BY <1>2, <2>2
<1>3. CASE homenode[t] # Here(s)
  <2>1. ThreadOK(doing[s], t, Here(s), homenode[t], temparg[Here(s)][t])
    BY OwnBuffers
  <2>2. Carries(doing[s], t)
    BY <1>1 DEF Carries
  <2> QED
    BY <1>3, <2>1, <2>2 DEF ThreadOK
<1> QED
  BY <1>2, <1>3

LEMMA ResultsThere == ASSUME Inv, Values PROVE ResultsArrive
<1> SUFFICES ASSUME NEW t \in finished
             PROVE  /\ \A i \in Outputs(t) : localarg[t][i] = "out"
                    /\ \A i \in Args(t, {"COP2"}) : localarg[t][i] = "freed"
  BY DEF ResultsArrive
<1>1. t \in Task
  BY DEF Inv, Types, TaskType
<1>2. HomeOK(t)
  BY <1>1 DEF Values, AllHome
<1> QED
  BY <1>2 DEF HomeOK

LEMMA NothingFreedTwice == ASSUME Inv, Values PROVE FreedOnce
<1>0. ASSUME NEW t \in Task PROVE "freed twice" \notin Range(localarg[t])
  <2>1. DOMAIN localarg[t] = DOMAIN args[t]
    BY DEF Inv, Types, MemoryType, Memory
  <2>2. \A i \in DOMAIN args[t] : localarg[t][i] # "freed twice"
    BY DEF Values, AllHome, HomeOK
  <2> QED
    BY <2>1, <2>2 DEF Range
<1>1. ASSUME NEW n \in Node, NEW t \in Task PROVE "freed twice" \notin Range(temparg[n][t])
  <2>1. DOMAIN temparg[n][t] = DOMAIN args[t]
    <3>1. temparg[n][t] \in [DOMAIN args[t] -> Content]
      BY DEF Inv, Types, MemoryType, Memory
    <3> QED
      BY <3>1
  <2>2. \A i \in DOMAIN args[t] : temparg[n][t][i] # "freed twice"
    BY DEF Values, AllAway, AwayOK
  <2> QED
    BY <2>1, <2>2 DEF Range
<1>2. ASSUME NEW s \in Thread, NEW n \in Node, NEW p \in DOMAIN chan[<<s, n>>]
      PROVE  chan[<<s, n>>][p].value \notin {"freed", "freed twice"}
  <2> DEFINE m == chan[<<s, n>>][p]
  <2>1. m \in Letter
    BY InvFacts
  <2>2. DataOK(m, n, homenode)
    BY DEF Values, Delivered
  <2> HIDE DEF m
  <2>3. m.type = "data" /\ m.task # NULL => m.value \in {"in", "out"}
    BY <2>2 DEF DataOK
  <2>4. ~ (m.type = "data" /\ m.task # NULL) => m.value \in {NULL, "old", "new"}
    BY <2>1 DEF Letter
  <2> QED
    BY <2>3, <2>4, DistinctAssumption DEF m
<1>3. ASSUME NEW c \in Thread \X Node, NEW m \in Range(chan[c]) PROVE m.value \notin {"freed", "freed twice"}
  <2>1. PICK s \in Thread, n \in Node : c = <<s, n>>
    OBVIOUS
  <2>2. PICK p \in DOMAIN chan[<<s, n>>] : m = chan[<<s, n>>][p]
    BY <2>1 DEF Range
  <2> QED
    BY <1>2, <2>2
<1> QED
  BY <1>0, <1>1, <1>3 DEF FreedOnce

\* A task finds in its arguments what its creator passed, wherever it runs.
THEOREM AlwaysInputsArrive == QuietServers => (Spec => []InputsArrive)
<1> SUFFICES ASSUME QuietServers PROVE Spec => []InputsArrive
  OBVIOUS
<1>1. Spec => [](Inv /\ Values)
  BY AlwaysValues
<1>2. Inv /\ Values => InputsArrive
  BY InputsThere
<1> QED
  BY <1>1, <1>2, PTL

\* When the parent is told, the results are home and the copies are freed once.
THEOREM AlwaysResultsArrive == QuietServers => (Spec => []ResultsArrive)
<1> SUFFICES ASSUME QuietServers PROVE Spec => []ResultsArrive
  OBVIOUS
<1>1. Spec => [](Inv /\ Values)
  BY AlwaysValues
<1>2. Inv /\ Values => ResultsArrive
  BY ResultsThere
<1> QED
  BY <1>1, <1>2, PTL

\* No buffer is freed twice, nor sent after it was freed.
THEOREM AlwaysFreedOnce == QuietServers => (Spec => []FreedOnce)
<1> SUFFICES ASSUME QuietServers PROVE Spec => []FreedOnce
  OBVIOUS
<1>1. Spec => [](Inv /\ Values)
  BY AlwaysValues
<1>2. Inv /\ Values => FreedOnce
  BY NothingFreedTwice
<1> QED
  BY <1>1, <1>2, PTL

----------------------------------------------------------------------------
(* The broadcast.                                                          *)

\* What is sent in a broadcast: the descriptor, and the buffer.
IsBuffer(m) == m.type = "data" /\ m.task = NULL
IsBcast(m)  == m.type = "TORC_BCAST" \/ IsBuffer(m)

Announces(m, t) == m.type = "TORC_NORMAL_ENQUEUE" /\ m.task = t

\* Messages of a broadcast are under way only during torc_broadcast.
Underway ==
  \A s \in Thread, n \in Node : \A p \in DOMAIN chan[<<s, n>>] :
    IsBcast(chan[<<s, n>>][p]) => doing[s].op \in {"bcast", "ssend"} /\ doing[s].peer = n

\* The server of node n has the buffer, or is just getting it.
Reached(n) == buffer[n] = "new" \/ doing[n].op = "arriving"

\* A synchronous send has reached its node, or is on the channel.
InSsend ==
  \A s \in Thread, n \in Node : doing[s].op = "ssend" /\ doing[s].peer = n =>
    Reached(n) \/ \E p \in DOMAIN chan[<<s, n>>] : IsBuffer(chan[<<s, n>>][p])

ToldOK ==
  /\ \A n \in told : Reached(n)
  /\ told # {} => Broadcaster \in Worker /\ told \subseteq Others(Broadcaster)
  /\ Broadcaster \in Worker => buffer[Here(Broadcaster)] = "new"
  /\ after # {} => Broadcaster \in Worker /\ told = Others(Broadcaster)

\* A task created after the broadcast comes to its node behind the buffer.
BehindAt(t) ==
  /\ homenode[t] # NULL
  /\ \/ homenode[t] = target[t]
     \/ buffer[target[t]] = "new"
     \/ \E s \in Thread : \E p \in DOMAIN chan[<<s, target[t]>>] : Announces(chan[<<s, target[t]>>][p], t)

Behind == \A t \in after : BehindAt(t)

Broadcasting == Underway /\ InSsend /\ ToldOK /\ Behind

\* What a step does to the channels that has no part in the broadcast: it
\* sends none of its messages, and a server takes a buffer only when it then
\* waits for its contents, and a task only when it has nothing else to do.
Spares ==
  \A x \in Thread, y \in Node :
    /\ \A p \in DOMAIN chan'[<<x, y>>] :
         IsBcast(chan'[<<x, y>>][p]) => \E r \in DOMAIN chan[<<x, y>>] : chan[<<x, y>>][r] = chan'[<<x, y>>][p]
    /\ \A p \in DOMAIN chan[<<x, y>>] :
         \/ \E r \in DOMAIN chan'[<<x, y>>] : chan'[<<x, y>>][r] = chan[<<x, y>>][p]
         \/ /\ IsBuffer(chan[<<x, y>>][p]) => doing'[y].op = "arriving"
            /\ chan[<<x, y>>][p].type = "TORC_NORMAL_ENQUEUE" => doing[y].op = "idle"

LEMMA SparesSame == ASSUME chan' = chan PROVE Spares
BY DEF Spares

LEMMA SparesSent ==
  ASSUME Inv, NEW s \in Thread, NEW n \in Node, NEW m, Send(s, n, m), ~ IsBcast(m) PROVE Spares
<1>1. ChanType
  BY DEF Inv, Types
<1>2. ASSUME NEW x \in Thread, NEW y \in Node, NEW p \in DOMAIN chan'[<<x, y>>], IsBcast(chan'[<<x, y>>][p])
      PROVE  \E r \in DOMAIN chan[<<x, y>>] : chan[<<x, y>>][r] = chan'[<<x, y>>][p]
  <2>1. \/ p \in DOMAIN chan[<<x, y>>] /\ chan'[<<x, y>>][p] = chan[<<x, y>>][p]
        \/ x = s /\ y = n /\ chan'[<<x, y>>][p] = m
    BY <1>1, SentOrOld
  <2> QED
    BY <1>2, <2>1
<1>3. ASSUME NEW x \in Thread, NEW y \in Node, NEW p \in DOMAIN chan[<<x, y>>]
      PROVE  \E r \in DOMAIN chan'[<<x, y>>] : chan'[<<x, y>>][r] = chan[<<x, y>>][p]
  BY <1>1, SentFacts
<1> QED
  BY <1>2, <1>3 DEF Spares

\* A message that is removed at f leaves all the others.
LEMMA OthersStay ==
  ASSUME NEW q \in Seq(Letter), NEW f \in DOMAIN q, NEW p \in DOMAIN q, p # f
  PROVE  \E r \in DOMAIN RemoveAt(q, f) : RemoveAt(q, f)[r] = q[p]
<1>1. PICK r \in DOMAIN RemoveAt(q, f) : Shift(f, r) = p
  BY RemoveFacts
<1>2. RemoveAt(q, f)[r] = q[p]
  BY <1>1, RemoveFacts
<1> QED
  BY <1>2

LEMMA SparesTaken ==
  ASSUME Inv, NEW s \in Thread, NEW n \in Node, NEW tag, Receive(s, n, tag),
         IsBuffer(Received(s, n, tag)) => doing'[n].op = "arriving",
         Received(s, n, tag).type = "TORC_NORMAL_ENQUEUE" => doing[n].op = "idle"
  PROVE  Spares
<1>1. ChanType
  BY DEF Inv, Types
<1>2. ASSUME NEW x \in Thread, NEW y \in Node, NEW p \in DOMAIN chan'[<<x, y>>]
      PROVE  \E r \in DOMAIN chan[<<x, y>>] : chan[<<x, y>>][r] = chan'[<<x, y>>][p]
  BY <1>1, TakenIsOld
<1>3. ASSUME NEW x \in Thread, NEW y \in Node, NEW p \in DOMAIN chan[<<x, y>>]
      PROVE  \/ \E r \in DOMAIN chan'[<<x, y>>] : chan'[<<x, y>>][r] = chan[<<x, y>>][p]
             \/ /\ IsBuffer(chan[<<x, y>>][p]) => doing'[y].op = "arriving"
                /\ chan[<<x, y>>][p].type = "TORC_NORMAL_ENQUEUE" => doing[y].op = "idle"
  <2>1. CASE ~ (x = s /\ y = n)
    <3>1. chan'[<<x, y>>] = chan[<<x, y>>]
      BY <1>1, <2>1, TakenFacts
    <3> QED
      BY <3>1
  <2>2. CASE x = s /\ y = n /\ p = First(s, n, tag)
    <3>1. chan[<<s, n>>][First(s, n, tag)] = Received(s, n, tag)
      BY <1>1, TakenFacts
    <3>2. chan[<<x, y>>][p] = Received(s, n, tag)
      BY <2>2, <3>1
    <3> QED
      BY <2>2, <3>2
  <2>3. CASE x = s /\ y = n /\ p # First(s, n, tag)
    <3> DEFINE q == chan[<<s, n>>]
               f == First(s, n, tag)
    <3>1. q \in Seq(Letter) /\ f \in DOMAIN q /\ chan'[<<s, n>>] = RemoveAt(q, f)
      BY <1>1, TakenFacts
    <3>2. p \in DOMAIN q /\ p # f
      BY <2>3
    <3> HIDE DEF q, f
    <3>3. \E r \in DOMAIN RemoveAt(q, f) : RemoveAt(q, f)[r] = q[p]
      BY <3>1, <3>2, OthersStay
    <3> QED
      BY <2>3, <3>1, <3>3 DEF q
  <2> QED
    BY <2>1, <2>2, <2>3
<1> QED
  BY <1>2, <1>3 DEF Spares

\* After the broadcast every node has the buffer, or is just getting it.
LEMMA AllReached ==
  ASSUME Inv, Broadcasting, after # {}, NEW n \in Node
  PROVE  Reached(n)
<1>1. /\ Broadcaster \in Worker /\ told = Others(Broadcaster)
      /\ buffer[Here(Broadcaster)] = "new" /\ \A k \in told : Reached(k)
  BY DEF Broadcasting, ToldOK
<1> QED
  BY <1>1 DEF Others, Reached

\* A step that has no part in the broadcast; it may create a task.
LEMMA QuietStep ==
  ASSUME Inv, Broadcasting, buffer' = buffer, HomeKept(homenode, homenode'), Spares,
         \A x \in Thread : \/ doing'[x] = doing[x]
                           \/ doing[x].op \notin {"arriving", "bcast", "ssend"} /\ doing'[x].op # "ssend"
  PROVE  /\ Underway' /\ InSsend'
         /\ \A n \in Node : Reached(n) => Reached(n)'
         /\ \A t \in after : BehindAt(t)'
<1>1. ASSUME NEW n \in Node, Reached(n) PROVE Reached(n)'
  <2>1. n \in Thread
    BY Threads
  <2> QED
    BY <1>1, <2>1 DEF Reached
<1>2. Underway'
  <2> SUFFICES ASSUME NEW s \in Thread, NEW n \in Node, NEW p \in DOMAIN chan'[<<s, n>>], IsBcast(chan'[<<s, n>>][p])
               PROVE  doing'[s].op \in {"bcast", "ssend"} /\ doing'[s].peer = n
    BY DEF Underway
  <2>1. PICK r \in DOMAIN chan[<<s, n>>] : chan[<<s, n>>][r] = chan'[<<s, n>>][p]
    BY DEF Spares
  <2>2. doing[s].op \in {"bcast", "ssend"} /\ doing[s].peer = n
    BY <2>1 DEF Broadcasting, Underway
  <2> QED
    BY <2>2
<1>3. InSsend'
  <2> SUFFICES ASSUME NEW s \in Thread, NEW n \in Node, doing'[s].op = "ssend" /\ doing'[s].peer = n
               PROVE  Reached(n)' \/ \E p \in DOMAIN chan'[<<s, n>>] : IsBuffer(chan'[<<s, n>>][p])
    BY DEF InSsend
  <2>1. doing'[s] = doing[s]
    OBVIOUS
  <2>2. Reached(n) \/ \E p \in DOMAIN chan[<<s, n>>] : IsBuffer(chan[<<s, n>>][p])
    BY <2>1 DEF Broadcasting, InSsend
  <2>3. ASSUME NEW p \in DOMAIN chan[<<s, n>>], IsBuffer(chan[<<s, n>>][p])
        PROVE  Reached(n)' \/ \E r \in DOMAIN chan'[<<s, n>>] : IsBuffer(chan'[<<s, n>>][r])
    BY <2>3 DEF Spares, Reached
  <2> QED
    BY <1>1, <2>2, <2>3
<1>4. ASSUME NEW t \in after PROVE BehindAt(t)'
  <2>1. t \in Task /\ target[t] \in Node
    BY TasksAssumption DEF Inv, Types, TaskType
  <2>2. BehindAt(t)
    BY DEF Broadcasting, Behind
  <2>3. homenode[t] # NULL /\ homenode'[t] = homenode[t]
    BY <2>1, <2>2 DEF BehindAt, HomeKept
  <2>4. ASSUME NEW s \in Thread, NEW p \in DOMAIN chan[<<s, target[t]>>], Announces(chan[<<s, target[t]>>][p], t)
        PROVE  \/ buffer[target[t]] = "new"
               \/ \E r \in DOMAIN chan'[<<s, target[t]>>] : Announces(chan'[<<s, target[t]>>][r], t)
    <3>1. \/ \E r \in DOMAIN chan'[<<s, target[t]>>] : chan'[<<s, target[t]>>][r] = chan[<<s, target[t]>>][p]
          \/ doing[target[t]].op = "idle"
      BY <2>1, <2>4 DEF Spares, Announces
    <3>2. Reached(target[t])
      BY <2>1, AllReached
    <3> QED
      BY <2>4, <3>1, <3>2 DEF Reached
  <2> QED
    BY <2>2, <2>3, <2>4 DEF BehindAt
<1> QED
  BY <1>1, <1>2, <1>3, <1>4

LEMMA QuietBroadcast ==
  ASSUME Inv, Broadcasting, buffer' = buffer, told' = told, after' = after,
         HomeKept(homenode, homenode'), Spares,
         \A x \in Thread : \/ doing'[x] = doing[x]
                           \/ doing[x].op \notin {"arriving", "bcast", "ssend"} /\ doing'[x].op # "ssend"
  PROVE  Broadcasting'
<1>1. Underway' /\ InSsend' /\ (\A n \in Node : Reached(n) => Reached(n)') /\ \A t \in after : BehindAt(t)'
  BY QuietStep
<1>2. ToldOK'
  <2>1. told \subseteq Node
    BY DEF Inv, Types, RestType
  <2>2. \A n \in told : Reached(n)'
    BY <1>1, <2>1 DEF Broadcasting, ToldOK
  <2> QED
    BY <2>2 DEF Broadcasting, ToldOK, Reached
<1>3. Behind'
  BY <1>1 DEF Behind
<1> QED
  BY <1>1, <1>2, <1>3 DEF Broadcasting

\* The activities in which a thread has no part in the broadcast.
Aside == {"idle", "run", "send", "result", "receive", "collect", "asked", "refused", "telling", "buffer"}

\* A thread with no part in the broadcast takes a step.
LEMMA AsideBroadcast ==
  ASSUME Inv, Broadcasting, UNCHANGED bcast, homenode' = homenode, Spares,
         NEW s \in Thread, NEW d, doing' = doing \/ (Do(s, d) /\ doing[s].op \in Aside /\ d.op # "ssend")
  PROVE  Broadcasting'
<1>1. buffer' = buffer /\ told' = told /\ after' = after
  BY DEF bcast
<1>2. \A x \in Thread : \/ doing'[x] = doing[x]
                        \/ doing[x].op \notin {"arriving", "bcast", "ssend"} /\ doing'[x].op # "ssend"
  <2>1. CASE doing' = doing
    BY <2>1
  <2>2. CASE Do(s, d) /\ doing[s].op \in Aside /\ d.op # "ssend"
    <3>1. DOMAIN doing = Thread
      BY DEF Inv, Types, DoingType
    <3>2. doing'[s] = d /\ \A x \in Thread : x # s => doing'[x] = doing[x]
      BY <2>2, <3>1 DEF Do
    <3>3. doing[s].op \notin {"arriving", "bcast", "ssend"}
      BY <2>2 DEF Aside
    <3> QED
      BY <2>2, <3>2, <3>3
  <2> QED
    BY <2>1, <2>2
<1>3. HomeKept(homenode, homenode')
  BY SameHome
<1> QED
  BY <1>1, <1>2, <1>3, QuietBroadcast

LEMMA ActOp ==
  ASSUME NEW op, NEW t, NEW A, NEW n, NEW g, NEW u
  PROVE  /\ Act(op, t, A, n, g, u).op = op
         /\ op # "ssend" => Settle(Act(op, t, A, n, g, u)).op # "ssend"
BY IdleRun DEF Act, Settle

LEMMA OneLessOp ==
  ASSUME Inv, NEW s \in Thread, doing[s].op \in {"send", "result", "receive", "collect"}
  PROVE  OneLess(s).op # "ssend" /\ Settle(OneLess(s)).op # "ssend"
<1>1. OneLess(s) = Act(doing[s].op, doing[s].task, doing[s].left \ {NextArg(s)},
                       doing[s].peer, doing[s].tag, doing[s].inside)
  BY OneLessFields DEF Inv, Types
<1>2. doing[s].op # "ssend"
  OBVIOUS
<1> QED
  BY <1>1, <1>2, ActOp

----------------------------------------------------------------------------
(* Steps that send and take nothing.                                       *)

LEMMA EnterToReceiveBroadcast == ASSUME Inv, Broadcasting, NEW s \in Thread, EnterToReceive(s) PROVE Broadcasting'
<1>1. chan' = chan /\ doing' = doing /\ homenode' = homenode /\ UNCHANGED bcast
  BY DEF EnterToReceive, tasks
<1> QED
  BY <1>1, SparesSame, AsideBroadcast

LEMMA HaveArgumentsBroadcast == ASSUME Inv, Broadcasting, NEW r \in Thread, HaveArguments(r) PROVE Broadcasting'
<1>1. chan' = chan /\ homenode' = homenode /\ UNCHANGED bcast /\ doing[r].op \in Aside
  BY DEF HaveArguments, Aside
<1>2. Do(r, Idle) \/ Do(r, Run(doing[r].task))
  BY DEF HaveArguments
<1>3. Idle.op # "ssend" /\ Run(doing[r].task).op # "ssend"
  BY IdleRun
<1> QED
  BY <1>1, <1>2, <1>3, SparesSame, AsideBroadcast

LEMMA HaveResultsBroadcast == ASSUME Inv, Broadcasting, NEW r \in Node, HaveResults(r) PROVE Broadcasting'
<1>1. /\ chan' = chan /\ homenode' = homenode /\ UNCHANGED bcast /\ doing[r].op \in Aside /\ r \in Thread
      /\ Do(r, Idle)
  BY Threads DEF HaveResults, Aside
<1>2. Idle.op # "ssend"
  BY IdleRun
<1> QED
  BY <1>1, <1>2, SparesSame, AsideBroadcast

LEMMA TakeReadyBroadcast ==
  ASSUME Inv, Broadcasting, NEW w \in Worker, NEW t \in Task, TakeReady(w, t) PROVE Broadcasting'
<1>1. /\ chan' = chan /\ homenode' = homenode /\ UNCHANGED bcast /\ doing[w].op \in Aside /\ w \in Thread
      /\ Do(w, Run(t))
  BY Threads DEF TakeReady, Aside
<1>2. Run(t).op # "ssend"
  BY IdleRun
<1> QED
  BY <1>1, <1>2, SparesSame, AsideBroadcast

LEMMA FinishAtHomeBroadcast == ASSUME Inv, Broadcasting, NEW s \in Thread, FinishAtHome(s) PROVE Broadcasting'
<1>1. /\ chan' = chan /\ homenode' = homenode /\ UNCHANGED bcast /\ doing[s].op \in Aside /\ Do(s, Idle)
  BY DEF FinishAtHome, Aside
<1>2. Idle.op # "ssend"
  BY IdleRun
<1> QED
  BY <1>1, <1>2, SparesSame, AsideBroadcast

LEMMA GiveUpBroadcast == ASSUME Inv, Broadcasting, NEW w \in Worker, GiveUp(w) PROVE Broadcasting'
<1>1. /\ chan' = chan /\ homenode' = homenode /\ UNCHANGED bcast /\ doing[w].op \in Aside /\ w \in Thread
      /\ Do(w, Idle)
  BY Threads DEF GiveUp, Aside, tasks
<1>2. Idle.op # "ssend"
  BY IdleRun
<1> QED
  BY <1>1, <1>2, SparesSame, AsideBroadcast

----------------------------------------------------------------------------
(* Steps that send.                                                        *)

LEMMA NotBcast ==
  ASSUME NEW g, NEW t, NEW i, NEW v
  PROVE  /\ \A type : type \notin {"TORC_BCAST", "data"} => ~ IsBcast(Descriptor(g, type, t))
         /\ t # NULL => ~ IsBcast(Data(g, t, i, v))
BY Fields DEF IsBcast, IsBuffer

LEMMA SendArgumentBroadcast == ASSUME Inv, Broadcasting, NEW s \in Thread, SendArgument(s) PROVE Broadcasting'
<1> DEFINE d == doing[s]
<1>1. /\ homenode' = homenode /\ UNCHANGED bcast /\ d.op \in Aside /\ Do(s, Settle(OneLess(s)))
      /\ d.op \in {"send", "result", "receive", "collect"}
  BY DEF SendArgument, Aside, tasks
<1>2. d.task \in Task /\ d.task # NULL /\ d.peer \in Node
  <2>1. Busy(d, s)
    BY ThreadFacts
  <2>2. d.op = "send"
    BY DEF SendArgument
  <2> QED
    BY <2>1, <2>2, DistinctAssumption DEF Busy
<1>3. Spares
  <2>1. PICK v : Send(s, d.peer, Data(d.tag, d.task, NextArg(s), v))
    BY DEF SendArgument
  <2>2. ~ IsBcast(Data(d.tag, d.task, NextArg(s), v))
    BY <1>2, NotBcast
  <2> HIDE DEF d
  <2> QED
    BY <1>2, <2>1, <2>2, SparesSent
<1>4. Settle(OneLess(s)).op # "ssend"
  BY <1>1, OneLessOp
<1> QED
  BY <1>1, <1>3, <1>4, AsideBroadcast

LEMMA SendResultBroadcast == ASSUME Inv, Broadcasting, NEW s \in Thread, SendResult(s) PROVE Broadcasting'
<1> DEFINE d == doing[s]
<1>1. /\ homenode' = homenode /\ UNCHANGED bcast /\ d.op \in Aside /\ Do(s, Settle(OneLess(s)))
      /\ d.op \in {"send", "result", "receive", "collect"}
  BY DEF SendResult, Aside, tasks
<1>2. d.task \in Task /\ d.task # NULL /\ d.peer \in Node
  <2>1. Busy(d, s) /\ ActivityOK(d, s, homenode) /\ homenode \in [Task -> Node \cup {NULL}]
    BY ThreadFacts DEF Inv, Types, TaskType
  <2>2. d.op = "result"
    BY DEF SendResult
  <2> QED
    BY <2>1, <2>2, DistinctAssumption DEF Busy, ActivityOK
<1>3. Spares
  <2>1. PICK v : Send(s, d.peer, Data(d.tag, d.task, NextArg(s), v))
    BY DEF SendResult
  <2>2. ~ IsBcast(Data(d.tag, d.task, NextArg(s), v))
    BY <1>2, NotBcast
  <2> HIDE DEF d
  <2> QED
    BY <1>2, <2>1, <2>2, SparesSent
<1>4. Settle(OneLess(s)).op # "ssend"
  BY <1>1, OneLessOp
<1> QED
  BY <1>1, <1>3, <1>4, AsideBroadcast

LEMMA FinishAwayBroadcast == ASSUME Inv, Broadcasting, NEW s \in Thread, FinishAway(s) PROVE Broadcasting'
<1> DEFINE t == doing[s].task
           e == Settle(Act("result", t, SentResults(t), homenode[t], Tag(s), NULL))
<1>1. homenode' = homenode /\ UNCHANGED bcast /\ doing[s].op \in Aside /\ Do(s, e)
  BY DEF FinishAway, Aside, tasks
<1>2. homenode[t] \in Node
  <2>1. Busy(doing[s], s) /\ homenode \in [Task -> Node \cup {NULL}] /\ (t # NULL => homenode[t] # NULL)
    BY ThreadFacts DEF Inv, Types, TaskType
  <2>2. doing[s].op = "run"
    BY DEF FinishAway
  <2>3. t \in Task
    BY <2>1, <2>2 DEF Busy
  <2> QED
    BY <2>1, <2>3, DistinctAssumption
<1>3. Spares
  <2>1. Send(s, homenode[t], Descriptor(MAX_NVPS, "TORC_ANSWER", t))
    BY DEF FinishAway
  <2>2. ~ IsBcast(Descriptor(MAX_NVPS, "TORC_ANSWER", t))
    BY NotBcast
  <2> HIDE DEF t
  <2> QED
    BY <1>2, <2>1, <2>2, SparesSent
<1>4. e.op # "ssend"
  BY ActOp
<1> HIDE DEF e
<1> QED
  BY <1>1, <1>3, <1>4, AsideBroadcast

LEMMA AskForWorkBroadcast == ASSUME Inv, Broadcasting, NEW w \in Worker, AskForWork(w) PROVE Broadcasting'
<1> DEFINE v == ((IF doing[w].op = "refused" THEN doing[w].peer ELSE Here(w)) + 1) % N
           e == Act("asked", NULL, {}, v, ReplyTag(w), NULL)
<1>1. w \in Thread /\ homenode' = homenode /\ UNCHANGED bcast /\ doing[w].op \in Aside /\ Do(w, e)
  BY Threads DEF AskForWork, Aside, tasks
<1>2. v \in Node
  <2>1. Here(w) \in Node /\ (doing[w].op = "refused" => doing[w].peer \in Node)
    BY <1>1, ThreadFacts DEF Busy
  <2> QED
    BY <2>1, NextNode
<1>3. Spares
  <2>1. Send(w, v, Descriptor(MAX_NVPS, "STEALING_REQUEST", NULL))
    BY DEF AskForWork
  <2>2. ~ IsBcast(Descriptor(MAX_NVPS, "STEALING_REQUEST", NULL))
    BY NotBcast
  <2> HIDE DEF v
  <2> QED
    BY <1>1, <1>2, <2>1, <2>2, SparesSent
<1>4. e.op # "ssend"
  BY ActOp
<1> HIDE DEF e
<1> QED
  BY <1>1, <1>3, <1>4, AsideBroadcast

----------------------------------------------------------------------------
(* Steps that take a message.                                              *)

LEMMA AcceptsSpares ==
  ASSUME Inv, NEW n \in Node, NEW s \in Thread, NEW type, type # "data", Accepts(n, s, type), Receive(s, n, MAX_NVPS)
  PROVE  Spares /\ n \in Thread /\ doing[n].op \in Aside
<1>1. Received(s, n, MAX_NVPS).type = type /\ doing[n].op = "idle"
  BY DEF Accepts
<1>2. ~ IsBuffer(Received(s, n, MAX_NVPS))
  BY <1>1 DEF IsBuffer
<1> QED
  BY <1>1, <1>2, SparesTaken, Threads DEF Aside

LEMMA RecvWorkBroadcast ==
  ASSUME Inv, Broadcasting, NEW n \in Node, NEW s \in Thread, RecvWork(n, s) PROVE Broadcasting'
<1> DEFINE t == AcceptedTask(n, s)
           e == Act("receive", t, AwaitedArgs(t), Here(s), Tag(s), NULL)
<1>1. Accepts(n, s, "TORC_NORMAL_ENQUEUE") /\ Receive(s, n, MAX_NVPS) /\ homenode' = homenode /\ UNCHANGED bcast
  BY DEF RecvWork, tasks
<1>2. Do(n, e)
  BY DEF RecvWork, Allocate
<1>3. e.op # "ssend"
  BY ActOp
<1> HIDE DEF e
<1> QED
  BY <1>1, <1>2, <1>3, AcceptsSpares, AsideBroadcast

LEMMA RecvAnswerBroadcast ==
  ASSUME Inv, Broadcasting, NEW n \in Node, NEW s \in Thread, RecvAnswer(n, s) PROVE Broadcasting'
<1> DEFINE t == AcceptedTask(n, s)
           e == Act("collect", t, AwaitedResults(t), Here(s), Tag(s), NULL)
<1>1. Accepts(n, s, "TORC_ANSWER") /\ Receive(s, n, MAX_NVPS) /\ homenode' = homenode /\ UNCHANGED bcast
  BY DEF RecvAnswer, tasks
<1>2. Do(n, e)
  BY DEF RecvAnswer
<1>3. e.op # "ssend"
  BY ActOp
<1> HIDE DEF e
<1> QED
  BY <1>1, <1>2, <1>3, AcceptsSpares, AsideBroadcast

LEMMA RecvBcastBroadcast ==
  ASSUME Inv, Broadcasting, NEW n \in Node, NEW s \in Thread, RecvBcast(n, s) PROVE Broadcasting'
<1> DEFINE e == Act("buffer", NULL, {0}, Here(s), Tag(s), NULL)
<1>1. Accepts(n, s, "TORC_BCAST") /\ Receive(s, n, MAX_NVPS) /\ homenode' = homenode /\ UNCHANGED bcast /\ Do(n, e)
  BY DEF RecvBcast, tasks
<1>2. e.op # "ssend"
  BY ActOp
<1> HIDE DEF e
<1> QED
  BY <1>1, <1>2, AcceptsSpares, AsideBroadcast

LEMMA AwaitedSpares ==
  ASSUME Inv, NEW r \in Thread, NEW s \in Thread, doing[r].op \in {"receive", "collect"},
         doing[r].left # {}, Matches(r, s)
  PROVE  Spares
<1>1. /\ doing[r].task \in Task /\ Here(r) \in Node /\ Receive(s, Here(r), doing[r].tag)
      /\ Received(s, Here(r), doing[r].tag).type = "data"
      /\ Received(s, Here(r), doing[r].tag).task = doing[r].task
  BY AwaitedData
<1>2. ~ IsBuffer(Received(s, Here(r), doing[r].tag))
  BY <1>1, DistinctAssumption DEF IsBuffer
<1> QED
  BY <1>1, <1>2, SparesTaken

LEMMA RecvArgumentBroadcast ==
  ASSUME Inv, Broadcasting, NEW r \in Thread, NEW s \in Thread, RecvArgument(r, s) PROVE Broadcasting'
<1>1. /\ doing[r].op \in {"receive", "collect"} /\ doing[r].op \in Aside /\ doing[r].left # {} /\ Matches(r, s)
      /\ homenode' = homenode /\ UNCHANGED bcast /\ Do(r, OneLess(r))
  BY DEF RecvArgument, tasks, Aside
<1>2. OneLess(r).op # "ssend"
  BY <1>1, OneLessOp
<1> QED
  BY <1>1, <1>2, AwaitedSpares, AsideBroadcast

LEMMA CollectResultBroadcast ==
  ASSUME Inv, Broadcasting, NEW r \in Node, NEW s \in Thread, CollectResult(r, s) PROVE Broadcasting'
<1>1. /\ doing[r].op \in {"receive", "collect"} /\ doing[r].op \in Aside /\ doing[r].left # {} /\ Matches(r, s)
      /\ homenode' = homenode /\ UNCHANGED bcast /\ Do(r, OneLess(r)) /\ r \in Thread
  BY Threads DEF CollectResult, tasks, Aside
<1>2. OneLess(r).op # "ssend"
  BY <1>1, OneLessOp
<1> QED
  BY <1>1, <1>2, AwaitedSpares, AsideBroadcast

LEMMA AnsweredSpares ==
  ASSUME Inv, NEW w \in Worker, NEW type \in {"stolen", "TORC_NO_WORK"}, Answered(w, type)
  PROVE  Spares /\ w \in Thread /\ doing[w].op \in Aside
<1>1. /\ doing[w].peer \in Node
      /\ Receive(doing[w].peer, Here(w), ReplyTag(w))
      /\ Received(doing[w].peer, Here(w), ReplyTag(w)).type = type
  BY AnswerFacts
<1>2. ~ IsBuffer(Received(doing[w].peer, Here(w), ReplyTag(w)))
  BY <1>1 DEF IsBuffer
<1>3. doing[w].peer \in Thread /\ w \in Thread /\ Here(w) \in Node
  BY <1>1, Threads
<1>4. Spares
  BY <1>1, <1>2, <1>3, SparesTaken
<1>5. doing[w].op = "asked"
  BY DEF Answered
<1> QED
  BY <1>3, <1>4, <1>5 DEF Aside

LEMMA RefusedBroadcast == ASSUME Inv, Broadcasting, NEW w \in Worker, Refused(w) PROVE Broadcasting'
<1> DEFINE e == [doing[w] EXCEPT !.op = "refused"]
<1>1. Answered(w, "TORC_NO_WORK") /\ homenode' = homenode /\ UNCHANGED bcast /\ Do(w, e)
  BY DEF Refused, tasks
<1>2. Spares /\ w \in Thread /\ doing[w].op \in Aside
  BY <1>1, AnsweredSpares
<1>3. e.op = "refused"
  <2>1. doing[w] \in Activity
    BY <1>2, ThreadFacts
  <2> QED
    BY <2>1 DEF Activity
<1> HIDE DEF e
<1> QED
  BY <1>1, <1>2, <1>3, AsideBroadcast

LEMMA StolenBroadcast == ASSUME Inv, Broadcasting, NEW w \in Worker, Stolen(w) PROVE Broadcasting'
<1>1. Answered(w, "stolen") /\ homenode' = homenode /\ UNCHANGED bcast
  BY DEF Stolen, tasks
<1>2. Spares /\ w \in Thread /\ doing[w].op \in Aside
  BY <1>1, AnsweredSpares
<1>3. PICK e : Do(w, e) /\ e.op # "ssend"
  <2> DEFINE t == Received(doing[w].peer, Here(w), doing[w].tag).task
             a == Act("receive", t, AwaitedArgs(t), doing[w].peer, doing[w].tag, NULL)
  <2>1. Do(w, a) \/ Do(w, Run(t))
    BY DEF Stolen, Allocate
  <2>2. a.op # "ssend" /\ Run(t).op # "ssend"
    BY ActOp, IdleRun
  <2> HIDE DEF a, t
  <2> QED
    BY <2>1, <2>2
<1> QED
  BY <1>1, <1>2, <1>3, AsideBroadcast

LEMMA SparesReplies ==
  ASSUME Inv, NEW n \in Node, NEW s \in Worker, First(s, n, MAX_NVPS) # 0, NEW m, Replies(n, s, m),
         ~ IsBcast(m), Received(s, n, MAX_NVPS).type = "STEALING_REQUEST", Here(s) # n
  PROVE  Spares
<1>1. ChanType /\ n \in Thread /\ s \in Thread /\ Here(s) \in Node
  BY Threads DEF Inv, Types
<1>2. ASSUME NEW x \in Thread, NEW y \in Node, NEW p \in DOMAIN chan'[<<x, y>>], IsBcast(chan'[<<x, y>>][p])
      PROVE  \E r \in DOMAIN chan[<<x, y>>] : chan[<<x, y>>][r] = chan'[<<x, y>>][p]
  <2>1. \/ \E r \in DOMAIN chan[<<x, y>>] : chan'[<<x, y>>][p] = chan[<<x, y>>][r]
        \/ x = n /\ y = Here(s) /\ chan'[<<x, y>>][p] = m
    BY <1>1, RepliesOrOld
  <2> QED
    BY <1>2, <2>1
<1>3. ASSUME NEW x \in Thread, NEW y \in Node, NEW p \in DOMAIN chan[<<x, y>>]
      PROVE  \/ \E r \in DOMAIN chan'[<<x, y>>] : chan'[<<x, y>>][r] = chan[<<x, y>>][p]
             \/ chan[<<x, y>>][p].type = "STEALING_REQUEST"
  <2> DEFINE q == chan[<<s, n>>]
             f == First(s, n, MAX_NVPS)
  <2>1. /\ q \in Seq(Letter) /\ chan[<<n, Here(s)>>] \in Seq(Letter) /\ f \in DOMAIN q
        /\ q[f] = Received(s, n, MAX_NVPS)
        /\ chan'[<<s, n>>] = RemoveAt(q, f)
        /\ chan'[<<n, Here(s)>>] = Append(chan[<<n, Here(s)>>], m)
        /\ \A a \in Thread, b \in Node :
             ~ (a = s /\ b = n) /\ ~ (a = n /\ b = Here(s)) => chan'[<<a, b>>] = chan[<<a, b>>]
    BY <1>1, RepliesFacts
  <2> HIDE DEF q, f
  <2>2. CASE x = s /\ y = n
    <3>1. p \in DOMAIN q
      BY <2>2 DEF q
    <3>2. CASE p = f
      BY <2>1, <2>2, <3>2 DEF q
    <3>3. CASE p # f
      <4>1. \E r \in DOMAIN RemoveAt(q, f) : RemoveAt(q, f)[r] = q[p]
        BY <2>1, <3>1, <3>3, OthersStay
      <4> QED
        BY <2>1, <2>2, <4>1 DEF q
    <3> QED
      BY <3>2, <3>3
  <2>3. CASE x = n /\ y = Here(s)
    <3>1. p \in DOMAIN Append(chan[<<x, y>>], m) /\ Append(chan[<<x, y>>], m)[p] = chan[<<x, y>>][p]
      BY <2>1, <2>3, AppendFacts
    <3> QED
      BY <2>1, <2>3, <3>1
  <2>4. CASE ~ (x = s /\ y = n) /\ ~ (x = n /\ y = Here(s))
    <3>1. chan'[<<x, y>>] = chan[<<x, y>>]
      BY <2>1, <2>4
    <3> QED
      BY <3>1
  <2> QED
    BY <2>2, <2>3, <2>4
<1>4. \A x \in Thread, y \in Node : \A p \in DOMAIN chan[<<x, y>>] :
        chan[<<x, y>>][p].type = "STEALING_REQUEST" =>
          ~ IsBuffer(chan[<<x, y>>][p]) /\ chan[<<x, y>>][p].type # "TORC_NORMAL_ENQUEUE"
  BY DEF IsBuffer
<1> QED
  BY <1>2, <1>3, <1>4 DEF Spares

LEMMA ServeThiefBroadcast ==
  ASSUME Inv, Broadcasting, NEW n \in Node, NEW s \in Thread, ServeThief(n, s) PROVE Broadcasting'
<1>1. /\ s \in Worker /\ First(s, n, MAX_NVPS) # 0 /\ doing[n].op = "idle" /\ homenode' = homenode
      /\ n \in Thread /\ Here(s) # n
  BY ThiefFacts, Threads
<1>2. UNCHANGED bcast /\ Received(s, n, MAX_NVPS).type = "STEALING_REQUEST"
  BY DEF ServeThief, Accepts
<1>3. PICK m \in Letter :
        /\ Replies(n, s, m)
        /\ \/ /\ m.type = "stolen"
              /\ Do(n, IF homenode[m.task] = Here(s) THEN Idle
                       ELSE Settle(Act("send", m.task, SentArgs(m.task), Here(s), ReplyTag(s), NULL)))
           \/ m.type = "TORC_NO_WORK" /\ doing' = doing
  BY ReplyFacts
<1>4. Spares
  <2>1. ~ IsBcast(m)
    BY <1>3 DEF IsBcast, IsBuffer
  <2> QED
    BY <1>1, <1>2, <1>3, <2>1, SparesReplies
<1>5. \E e : doing' = doing \/ (Do(n, e) /\ doing[n].op \in Aside /\ e.op # "ssend")
  <2> DEFINE e == Settle(Act("send", m.task, SentArgs(m.task), Here(s), ReplyTag(s), NULL))
  <2>1. e.op # "ssend" /\ Idle.op # "ssend"
    BY ActOp, IdleRun
  <2>2. doing' = doing \/ Do(n, e) \/ Do(n, Idle)
    BY <1>3
  <2>3. doing[n].op \in Aside
    BY <1>1 DEF Aside
  <2> HIDE DEF e
  <2> QED
    BY <2>1, <2>2, <2>3
<1> QED
  BY <1>1, <1>2, <1>4, <1>5, AsideBroadcast

----------------------------------------------------------------------------
(* The steps of the broadcast.                                             *)

LEMMA MatchBufferBroadcast ==
  ASSUME Inv, Broadcasting, NEW n \in Node, NEW s \in Thread, MatchBuffer(n, s) PROVE Broadcasting'
<1> DEFINE e == [doing[n] EXCEPT !.op = "arriving"]
<1>1. /\ doing[n].op = "buffer" /\ Matches(n, s) /\ homenode' = homenode /\ UNCHANGED bcast /\ Do(n, e)
      /\ n \in Thread
  BY Threads DEF MatchBuffer, tasks
<1>2. doing[n].op \in Aside /\ e.op = "arriving" /\ doing[n].left # {}
  <2>1. doing[n] \in Activity /\ Busy(doing[n], n)
    BY <1>1, ThreadFacts
  <2> QED
    BY <1>1, <2>1 DEF Aside, Activity, Busy
<1> HIDE DEF e
<1>3. doing'[n].op = "arriving"
  <2>1. DOMAIN doing = Thread
    BY DEF Inv, Types, DoingType
  <2> QED
    BY <1>1, <1>2, <2>1 DEF Do
<1>4. Receive(s, n, doing[n].tag) /\ Received(s, n, doing[n].tag).type = "data"
  BY <1>1, <1>2, FirstData
<1>5. Spares
  BY <1>3, <1>4, SparesTaken
<1> QED
  BY <1>1, <1>2, <1>5, AsideBroadcast

LEMMA BufferArrivesBroadcast ==
  ASSUME Inv, Broadcasting, NEW n \in Node, BufferArrives(n) PROVE Broadcasting'
<1>1. /\ doing[n].op = "arriving" /\ chan' = chan /\ homenode' = homenode /\ told' = told /\ after' = after
      /\ buffer' = [buffer EXCEPT ![n] = "new"] /\ Do(n, Idle) /\ n \in Thread
  BY Threads DEF BufferArrives, tasks
<1>2. /\ doing'[n] = Idle /\ Idle.op = "idle" /\ \A x \in Thread : x # n => doing'[x] = doing[x]
  <2>1. DOMAIN doing = Thread
    BY DEF Inv, Types, DoingType
  <2> QED
    BY <1>1, <2>1, IdleRun DEF Do
<1>3. \A k \in Node : buffer[k] = "new" \/ k = n => buffer'[k] = "new"
  <2>1. DOMAIN buffer = Node
    BY DEF Inv, Types, RestType
  <2> QED
    BY <1>1, <2>1
<1>4. \A k \in Node : Reached(k) => Reached(k)'
  <2>1. \A k \in Node : k \in Thread
    BY Threads
  <2> QED
    BY <1>2, <1>3, <2>1 DEF Reached
<1>5. Underway'
  BY <1>1, <1>2 DEF Broadcasting, Underway
<1>6. InSsend'
  <2> SUFFICES ASSUME NEW s \in Thread, NEW k \in Node, doing'[s].op = "ssend" /\ doing'[s].peer = k
               PROVE  Reached(k)' \/ \E p \in DOMAIN chan'[<<s, k>>] : IsBuffer(chan'[<<s, k>>][p])
    BY DEF InSsend
  <2>1. doing'[s] = doing[s]
    BY <1>2
  <2>2. Reached(k) \/ \E p \in DOMAIN chan[<<s, k>>] : IsBuffer(chan[<<s, k>>][p])
    BY <2>1 DEF Broadcasting, InSsend
  <2> QED
    BY <1>1, <1>4, <2>2
<1>7. ToldOK'
  <2>1. told \subseteq Node
    BY DEF Inv, Types, RestType
  <2>2. \A k \in told : Reached(k)'
    BY <1>4, <2>1 DEF Broadcasting, ToldOK
  <2>3. Broadcaster \in Worker => buffer'[Here(Broadcaster)] = "new"
    BY <1>3, Threads DEF Broadcasting, ToldOK
  <2> QED
    BY <1>1, <2>2, <2>3 DEF Broadcasting, ToldOK
<1>8. Behind'
  <2> SUFFICES ASSUME NEW t \in after PROVE BehindAt(t)'
    BY <1>1 DEF Behind
  <2>1. BehindAt(t)
    BY DEF Broadcasting, Behind
  <2>2. target[t] \in Node
    BY TasksAssumption DEF Inv, Types, TaskType
  <2> QED
    BY <1>1, <1>3, <2>1, <2>2 DEF BehindAt
<1> QED
  BY <1>5, <1>6, <1>7, <1>8 DEF Broadcasting

\* The broadcaster sends the descriptor or the buffer to node n.
LEMMA BroadcasterSends ==
  ASSUME Inv, Broadcasting, UNCHANGED bcast, homenode' = homenode,
         NEW w \in Worker, NEW n \in Node, NEW m, Send(w, n, m), m.type # "TORC_NORMAL_ENQUEUE",
         NEW e, Do(w, e), e.op \in {"bcast", "ssend"}, e.peer = n, e.op = "ssend" => IsBuffer(m),
         doing[w].op \in {"idle", "telling"} \/ (doing[w].op = "bcast" /\ doing[w].peer = n)
  PROVE  Broadcasting'
<1>1. /\ w \in Thread /\ w \notin Node /\ ChanType /\ DOMAIN doing = Thread
      /\ buffer' = buffer /\ told' = told /\ after' = after
  BY Threads DEF Inv, Types, DoingType, bcast
<1>2. doing'[w] = e /\ \A x \in Thread : x # w => doing'[x] = doing[x]
  BY <1>1 DEF Do
<1>3. \A x \in Thread, y \in Node : \A p \in DOMAIN chan[<<x, y>>] :
        p \in DOMAIN chan'[<<x, y>>] /\ chan'[<<x, y>>][p] = chan[<<x, y>>][p]
  BY <1>1, SentFacts
<1>4. \A k \in Node : Reached(k) => Reached(k)'
  <2>1. \A k \in Node : k \in Thread /\ k # w
    BY <1>1, Threads
  <2> QED
    BY <1>1, <1>2, <2>1 DEF Reached
<1>5. Underway'
  <2> SUFFICES ASSUME NEW x \in Thread, NEW y \in Node, NEW p \in DOMAIN chan'[<<x, y>>], IsBcast(chan'[<<x, y>>][p])
               PROVE  doing'[x].op \in {"bcast", "ssend"} /\ doing'[x].peer = y
    BY DEF Underway
  <2>1. CASE x = w /\ y = n
    BY <1>2, <2>1
  <2>2. CASE ~ (x = w /\ y = n)
    <3>1. p \in DOMAIN chan[<<x, y>>] /\ chan'[<<x, y>>][p] = chan[<<x, y>>][p]
      BY <1>1, <2>2, SentOrOld
    <3>2. doing[x].op \in {"bcast", "ssend"} /\ doing[x].peer = y
      BY <3>1 DEF Broadcasting, Underway
    <3>3. x # w
      BY <2>2, <3>2
    <3> QED
      BY <1>2, <3>2, <3>3
  <2> QED
    BY <2>1, <2>2
<1>6. chan'[<<w, n>>] = Append(chan[<<w, n>>], m) /\ chan[<<w, n>>] \in Seq(Letter)
  <2>1. ChanType /\ w \in Thread /\ Send(w, n, m)
    BY <1>1
  <2> QED
    BY <2>1, SentFacts
<1>7. InSsend'
  <2> SUFFICES ASSUME NEW x \in Thread, NEW y \in Node, doing'[x].op = "ssend" /\ doing'[x].peer = y
               PROVE  Reached(y)' \/ \E p \in DOMAIN chan'[<<x, y>>] : IsBuffer(chan'[<<x, y>>][p])
    BY DEF InSsend
  <2>1. CASE x = w
    <3>1. y = n /\ IsBuffer(m)
      BY <1>2, <2>1
    <3>2. \E p \in DOMAIN chan'[<<w, n>>] : chan'[<<w, n>>][p] = m
      BY <1>6, AppendFacts
    <3> QED
      BY <2>1, <3>1, <3>2
  <2>2. CASE x # w
    <3>1. Reached(y) \/ \E p \in DOMAIN chan[<<x, y>>] : IsBuffer(chan[<<x, y>>][p])
      BY <1>2, <2>2 DEF Broadcasting, InSsend
    <3> QED
      BY <1>3, <1>4, <3>1
  <2> QED
    BY <2>1, <2>2
<1>8. ToldOK'
  <2>1. told \subseteq Node
    BY DEF Inv, Types, RestType
  <2>2. \A k \in told : Reached(k)'
    BY <1>4, <2>1 DEF Broadcasting, ToldOK
  <2> QED
    BY <1>1, <2>2 DEF Broadcasting, ToldOK
<1>9. Behind'
  <2> SUFFICES ASSUME NEW t \in after PROVE BehindAt(t)'
    BY <1>1 DEF Behind
  <2>1. BehindAt(t)
    BY DEF Broadcasting, Behind
  <2>2. target[t] \in Node
    BY TasksAssumption DEF Inv, Types, TaskType
  <2>3. ASSUME NEW s \in Thread, NEW p \in DOMAIN chan[<<s, target[t]>>], Announces(chan[<<s, target[t]>>][p], t)
        PROVE  \E r \in DOMAIN chan'[<<s, target[t]>>] : Announces(chan'[<<s, target[t]>>][r], t)
    BY <1>3, <2>2, <2>3
  <2> QED
    BY <1>1, <2>1, <2>3 DEF BehindAt
<1> QED
  BY <1>5, <1>7, <1>8, <1>9 DEF Broadcasting

LEMMA BroadcastBroadcast == ASSUME Inv, Broadcasting, NEW w \in Worker, Broadcast(w) PROVE Broadcasting'
<1> DEFINE n == Min(Others(w) \ told)
           m == Descriptor(MAX_NVPS, "TORC_BCAST", NULL)
           e == Act("bcast", NULL, {}, n, Tag(w), NULL)
<1>1. /\ UNCHANGED bcast /\ homenode' = homenode /\ Send(w, n, m) /\ Do(w, e)
      /\ doing[w].op \in {"idle", "telling"}
  BY DEF Broadcast, tasks
<1>2. n \in Node
  BY NextToTell DEF Broadcast
<1>3. m.type = "TORC_BCAST" /\ e.op = "bcast" /\ e.peer = n
  BY Fields DEF Act
<1> HIDE DEF n, m, e
<1> QED
  BY <1>1, <1>2, <1>3, BroadcasterSends

LEMMA SsendBroadcast == ASSUME Inv, Broadcasting, NEW w \in Worker, Ssend(w) PROVE Broadcasting'
<1> DEFINE n == doing[w].peer
           m == Data(doing[w].tag, NULL, 0, buffer[Here(w)])
           e == [doing[w] EXCEPT !.op = "ssend"]
<1>1. /\ UNCHANGED bcast /\ homenode' = homenode /\ Send(w, n, m) /\ Do(w, e)
      /\ doing[w].op = "bcast" /\ w \in Thread
  BY Threads DEF Ssend, tasks
<1>2. n \in Node /\ e.op = "ssend" /\ e.peer = n
  <2>1. doing[w] \in Activity /\ Busy(doing[w], w)
    BY <1>1, ThreadFacts
  <2> QED
    BY <1>1, <2>1 DEF Activity, Busy
<1>3. m.type = "data" /\ m.task = NULL
  BY Fields
<1> HIDE DEF m, e
<1>4. IsBuffer(m)
  BY <1>3 DEF IsBuffer
<1> QED
  BY <1>1, <1>2, <1>3, <1>4, BroadcasterSends

\* The synchronous send is over: its node has the buffer, and nothing of the
\* broadcast is left on the channel.
LEMMA SendOver ==
  ASSUME Inv, Broadcasting, NEW w \in Worker, SsendDone(w)
  PROVE  LET n == doing[w].peer
         IN  /\ n \in Node /\ n # Here(w) /\ w = Broadcaster /\ Reached(n)
             /\ \A p \in DOMAIN chan[<<w, n>>] : ~ IsBcast(chan[<<w, n>>][p])
<1>1. PICK n \in Node : n = doing[w].peer /\ n # Here(w) /\ w = Broadcaster /\ doing[w].tag = Tag(w)
  <2>1. Busy(doing[w], w) /\ doing[w].op = "ssend"
    BY Threads, ThreadFacts DEF SsendDone
  <2> QED
    BY <2>1 DEF Busy
<1>2. /\ w \in Thread /\ chan[<<w, n>>] \in Seq(Letter) /\ WorkAt(w, n)
      /\ \A p \in DOMAIN chan[<<w, n>>] : chan[<<w, n>>][p] \in Letter /\ MessageOK(chan[<<w, n>>][p], w, n, homenode)
  BY Threads, InvFacts
<1> DEFINE q == chan[<<w, n>>]
<1>3. \A p \in DOMAIN q : q[p].tag # Tag(w)
  <2>1. First(w, n, Tag(w)) = 0
    BY <1>1 DEF SsendDone
  <2> QED
    BY <1>2, <2>1, FirstFacts
<1>4. \A p \in DOMAIN q : q[p].tag < 100 /\ p \in Lane(q, FALSE)
  <2> SUFFICES ASSUME NEW p \in DOMAIN q PROVE q[p].tag < 100 /\ ~ (q[p].tag >= 100)
    BY DEF Lane
  <2>1. q[p].tag \in Int
    BY <1>2 DEF Letter, Message
  <2>2. ~ (q[p].tag >= 100)
    BY <1>2, Threads DEF MessageOK
  <2> QED
    BY <2>1, <2>2
<1>5. \A p \in DOMAIN q : ~ IsBuffer(q[p])
  BY <1>2, <1>3, <1>4 DEF MessageOK, IsBuffer
<1>6. ASSUME NEW p \in DOMAIN q, q[p].type = "TORC_BCAST" PROVE FALSE
  <2>1. ChainOf(q, FALSE, Expects(doing[n], w), NoDue, n, homenode)
    <3>1. Owes(doing[w], n, FALSE) = NoDue
      BY DEF SsendDone, Owes
    <3> QED
      BY <1>2, <3>1 DEF WorkAt
  <2>2. Rest(q[p], n, homenode) = [task |-> NULL, left |-> {0}] /\ Rest(q[p], n, homenode) # NoDue
    BY <1>6 DEF Rest, DueOf, NoDue
  <2>3. p \in Lane(q, FALSE)
    BY <1>4
  <2> HIDE DEF q
  <2>4. ~ \A k \in Lane(q, FALSE) : k <= p
    BY <2>1, <2>2, <2>3 DEF ChainOf
  <2>5. PICK r \in Lane(q, FALSE) : Link(Rest(q[p], n, homenode), q[r])
    <3>1. q \in Seq(Letter)
      BY <1>2 DEF q
    <3> QED
      BY <2>1, <2>3, <2>4, <3>1, LaneNext
  <2>6. q[r].type = "data" /\ q[r].task = NULL
    BY <2>2, <2>5 DEF Link
  <2>7. r \in DOMAIN q
    BY DEF Lane
  <2> QED
    BY <1>5, <2>6, <2>7 DEF IsBuffer
<1>7. Reached(n)
  <2>1. doing[w].op = "ssend"
    BY DEF SsendDone
  <2> QED
    BY <1>1, <1>2, <1>5, <2>1 DEF Broadcasting, InSsend
<1>8. \A p \in DOMAIN q : ~ IsBcast(q[p])
  BY <1>5, <1>6 DEF IsBcast
<1> HIDE DEF q
<1> QED
  BY <1>1, <1>7, <1>8 DEF q

LEMMA ToldBroadcast == ASSUME Inv, Broadcasting, NEW w \in Worker, Told(w) PROVE Broadcasting'
<1>1. /\ SsendDone(w) /\ doing[w].op = "ssend" /\ chan' = chan /\ homenode' = homenode
      /\ buffer' = buffer /\ after' = after /\ told' = told \cup {doing[w].peer}
  BY DEF Told, SsendDone, tasks
<1>2. PICK n \in Node : /\ n = doing[w].peer /\ n # Here(w) /\ w = Broadcaster /\ Reached(n)
                        /\ \A p \in DOMAIN chan[<<w, n>>] : ~ IsBcast(chan[<<w, n>>][p])
  BY <1>1, SendOver
<1>3. doing'[w].op # "ssend" /\ \A x \in Thread : x # w => doing'[x] = doing[x]
  <2>1. w \in Thread /\ DOMAIN doing = Thread
    BY Threads DEF Inv, Types, DoingType
  <2> DEFINE e == Act("telling", NULL, {}, NULL, 0, NULL)
  <2>2. e.op # "ssend" /\ Idle.op # "ssend"
    BY ActOp, IdleRun
  <2> HIDE DEF e
  <2>3. Do(w, e) \/ Do(w, Idle)
    BY DEF Told, e
  <2> QED
    BY <2>1, <2>2, <2>3 DEF Do
<1>4. \A k \in Node : Reached(k) => Reached(k)'
  <2>1. \A k \in Node : k \in Thread /\ k # w
    BY Threads
  <2> QED
    BY <1>1, <1>3, <2>1 DEF Reached
<1>5. Underway'
  <2> SUFFICES ASSUME NEW x \in Thread, NEW y \in Node, NEW p \in DOMAIN chan[<<x, y>>], IsBcast(chan[<<x, y>>][p])
               PROVE  doing'[x].op \in {"bcast", "ssend"} /\ doing'[x].peer = y
    BY <1>1 DEF Underway
  <2>1. doing[x].op \in {"bcast", "ssend"} /\ doing[x].peer = y
    BY DEF Broadcasting, Underway
  <2>2. x # w
    BY <1>2, <2>1
  <2> QED
    BY <1>3, <2>1, <2>2
<1>6. InSsend'
  <2> SUFFICES ASSUME NEW x \in Thread, NEW y \in Node, doing'[x].op = "ssend" /\ doing'[x].peer = y
               PROVE  Reached(y)' \/ \E p \in DOMAIN chan'[<<x, y>>] : IsBuffer(chan'[<<x, y>>][p])
    BY DEF InSsend
  <2>1. doing'[x] = doing[x]
    BY <1>3
  <2>2. Reached(y) \/ \E p \in DOMAIN chan[<<x, y>>] : IsBuffer(chan[<<x, y>>][p])
    BY <2>1 DEF Broadcasting, InSsend
  <2> QED
    BY <1>1, <1>4, <2>2
<1>7. ToldOK'
  <2>1. told \subseteq Node
    BY DEF Inv, Types, RestType
  <2>2. \A k \in told' : Reached(k)'
    BY <1>1, <1>2, <1>4, <2>1 DEF Broadcasting, ToldOK
  <2>3. n \in Others(w)
    BY <1>2 DEF Others
  <2> QED
    BY <1>1, <1>2, <2>2, <2>3 DEF Broadcasting, ToldOK
<1>8. Behind'
  BY <1>1 DEF Broadcasting, Behind, BehindAt
<1> QED
  BY <1>5, <1>6, <1>7, <1>8 DEF Broadcasting

\* A task that is created after the broadcast: it is over on all nodes.
LEMMA CreatedAfter ==
  ASSUME Inv, Broadcasting, NEW s \in Thread, NEW t \in Task, CallsFor(s, t), creator[t] \in after \cup {Broadcaster}
  PROVE  Broadcaster \in Worker /\ told = Others(Broadcaster)
<1>1. CASE creator[t] \in after
  BY <1>1 DEF Broadcasting, ToldOK
<1>2. CASE creator[t] = Broadcaster
  <2>1. Broadcaster \in Worker
    <3>1. creator[t] \in Worker \cup Task
      BY TasksAssumption
    <3>2. Broadcaster \in Worker \cup {NULL}
      BY CallsAssumption
    <3> QED
      BY <1>2, <3>1, <3>2, DistinctAssumption
  <2>2. ~ (doing[s].op = "run" /\ creator[t] = doing[s].task)
    <3>1. doing[s].op = "run" => doing[s].task \in Task
      BY ThreadFacts DEF Busy
    <3> QED
      BY <1>2, <2>1, <3>1, DistinctAssumption
  <2> QED
    BY <1>2, <2>1, <2>2 DEF CallsFor
<1> QED
  BY <1>1, <1>2

LEMMA CreateBroadcast == ASSUME Inv, Broadcasting, NEW s \in Thread, NEW t \in Task, Create(s, t) PROVE Broadcasting'
<1> DEFINE m == Descriptor(MAX_NVPS, "TORC_NORMAL_ENQUEUE", t)
           e == Settle(Act("send", t, SentArgs(t), target[t], Tag(s), doing[s].task))
<1>1. /\ CallsFor(s, t) /\ homenode[t] = NULL /\ buffer' = buffer /\ told' = told
      /\ homenode' = [homenode EXCEPT ![t] = Here(s)]
      /\ after' = IF creator[t] \in after \cup {Broadcaster} THEN after \cup {t} ELSE after
      /\ IF target[t] = Here(s) THEN chan' = chan /\ doing' = doing
                                ELSE Send(s, target[t], m) /\ Do(s, e)
  BY DEF Create
<1>2. /\ ChanType /\ DOMAIN doing = Thread /\ DOMAIN homenode = Task /\ after \subseteq Task
      /\ Here(s) \in Node /\ target[t] \in Node
  BY TasksAssumption, Threads DEF Inv, Types, DoingType, TaskType
<1>3. HomeKept(homenode, homenode') /\ homenode'[t] = Here(s) /\ Here(s) # NULL
  BY <1>1, <1>2, DistinctAssumption DEF HomeKept
<1>4. Spares
  <2>1. CASE target[t] = Here(s)
    BY <1>1, <2>1, SparesSame
  <2>2. CASE target[t] # Here(s)
    <3>1. ~ IsBcast(m)
      BY NotBcast
    <3> HIDE DEF m
    <3> QED
      BY <1>1, <1>2, <2>2, <3>1, SparesSent
  <2> QED
    BY <2>1, <2>2
<1>5. \A x \in Thread : \/ doing'[x] = doing[x]
                        \/ doing[x].op \notin {"arriving", "bcast", "ssend"} /\ doing'[x].op # "ssend"
  <2>1. CASE target[t] = Here(s)
    BY <1>1, <2>1
  <2>2. CASE target[t] # Here(s)
    <3>1. e.op # "ssend"
      BY ActOp
    <3>2. doing[s].op \in {"run", "idle"}
      BY <1>1 DEF CallsFor
    <3> HIDE DEF e
    <3> QED
      BY <1>1, <1>2, <2>2, <3>1, <3>2 DEF Do
  <2> QED
    BY <2>1, <2>2
<1>6. Underway' /\ InSsend' /\ (\A n \in Node : Reached(n) => Reached(n)') /\ \A u \in after : BehindAt(u)'
  BY <1>1, <1>3, <1>4, <1>5, QuietStep
<1>7. ToldOK'
  <2>1. told \subseteq Node
    BY DEF Inv, Types, RestType
  <2>2. \A n \in told : Reached(n)'
    BY <1>6, <2>1 DEF Broadcasting, ToldOK
  <2>3. after' # {} => Broadcaster \in Worker /\ told = Others(Broadcaster)
    BY <1>1, CreatedAfter DEF Broadcasting, ToldOK
  <2> QED
    BY <1>1, <2>2, <2>3 DEF Broadcasting, ToldOK
<1>8. BehindAt(t)'
  <2>1. CASE target[t] = Here(s)
    BY <1>3, <2>1 DEF BehindAt
  <2>2. CASE target[t] # Here(s)
    <3>1. chan'[<<s, target[t]>>] = Append(chan[<<s, target[t]>>], m) /\ chan[<<s, target[t]>>] \in Seq(Letter)
      <4>1. Send(s, target[t], m) /\ ChanType /\ target[t] \in Node
        BY <1>1, <1>2, <2>2
      <4> HIDE DEF m
      <4> QED
        BY <4>1, SentFacts
    <3>2. Announces(m, t)
      BY Fields DEF Announces
    <3> HIDE DEF m
    <3>3. \E p \in DOMAIN chan'[<<s, target[t]>>] : chan'[<<s, target[t]>>][p] = m
      BY <3>1, AppendFacts
    <3> QED
      BY <1>3, <3>2, <3>3 DEF BehindAt
  <2> QED
    BY <2>1, <2>2
<1>9. Behind'
  BY <1>1, <1>6, <1>8 DEF Behind
<1> QED
  BY <1>6, <1>7, <1>9 DEF Broadcasting

LEMMA InitBroadcast == ASSUME Init PROVE Broadcasting
<1>1. \A s \in Thread : doing[s] = Idle
  BY DEF Init
<1>2. Underway /\ InSsend
  BY <1>1, IdleRun DEF Init, Underway, InSsend
<1>3. ToldOK
  <2>1. told = {} /\ after = {}
    BY DEF Init
  <2>2. ASSUME Broadcaster \in Worker PROVE buffer[Here(Broadcaster)] = "new"
    <3>1. Here(Broadcaster) = node_of[Broadcaster] /\ Here(Broadcaster) \in Node /\ Broadcaster # NULL
      BY <2>2, Threads
    <3> QED
      BY <3>1 DEF Init
  <2> QED
    BY <2>1, <2>2 DEF ToldOK
<1>4. Behind
  BY DEF Init, Behind
<1> QED
  BY <1>2, <1>3, <1>4 DEF Broadcasting

LEMMA ServerBroadcast == ASSUME Inv, Broadcasting, NEW n \in Node, ServerStep(n) PROVE Broadcasting'
<1>1. ASSUME NEW s \in Thread, RecvWork(n, s) \/ RecvAnswer(n, s) \/ ServeThief(n, s) PROVE Broadcasting'
  BY <1>1, RecvWorkBroadcast, RecvAnswerBroadcast, ServeThiefBroadcast
<1>2. ASSUME NEW s \in Thread, RecvBcast(n, s) \/ CollectResult(n, s) \/ MatchBuffer(n, s) PROVE Broadcasting'
  BY <1>2, RecvBcastBroadcast, CollectResultBroadcast, MatchBufferBroadcast
<1> QED
  BY <1>1, <1>2, HaveResultsBroadcast, BufferArrivesBroadcast DEF ServerStep

LEMMA WorkerBroadcast == ASSUME Inv, Broadcasting, NEW w \in Worker, WorkerStep(w) PROVE Broadcasting'
<1>1. (\E t \in Task : TakeReady(w, t)) \/ AskForWork(w) \/ GiveUp(w) \/ Refused(w) => Broadcasting'
  BY TakeReadyBroadcast, AskForWorkBroadcast, GiveUpBroadcast, RefusedBroadcast
<1>2. Stolen(w) \/ Broadcast(w) \/ Ssend(w) \/ Told(w) => Broadcasting'
  BY StolenBroadcast, BroadcastBroadcast, SsendBroadcast, ToldBroadcast
<1> QED
  BY <1>1, <1>2 DEF WorkerStep

LEMMA StepBroadcast == ASSUME Inv, Broadcasting, [Next]_vars PROVE Broadcasting'
<1>1. ASSUME NEW s \in Thread, ThreadStep(s) PROVE Broadcasting'
  <2>1. (\E t \in Task : Create(s, t)) \/ SendArgument(s) \/ EnterToReceive(s) \/ HaveArguments(s) => Broadcasting'
    BY CreateBroadcast, SendArgumentBroadcast, EnterToReceiveBroadcast, HaveArgumentsBroadcast
  <2>2. (\E r \in Thread : RecvArgument(s, r)) \/ FinishAtHome(s) => Broadcasting'
    BY RecvArgumentBroadcast, FinishAtHomeBroadcast
  <2>3. FinishAway(s) \/ SendResult(s) => Broadcasting'
    BY FinishAwayBroadcast, SendResultBroadcast
  <2>4. (s \in Node /\ ServerStep(s)) \/ (s \in Worker /\ WorkerStep(s)) => Broadcasting'
    BY ServerBroadcast, WorkerBroadcast
  <2> QED
    BY <1>1, <2>1, <2>2, <2>3, <2>4 DEF ThreadStep
<1>2. ASSUME UNCHANGED vars PROVE Broadcasting'
  <2>1. chan' = chan /\ doing' = doing /\ homenode' = homenode /\ buffer' = buffer /\ told' = told /\ after' = after
    BY <1>2 DEF vars, tasks, bcast
  <2>2. HomeKept(homenode, homenode')
    BY <2>1, SameHome
  <2> QED
    BY <2>1, <2>2, SparesSame, QuietBroadcast
<1> QED
  BY <1>1, <1>2 DEF Next

\* The broadcast goes ahead of the tasks that are created after it.
THEOREM AlwaysBroadcasting == QuietServers => (Spec => [](Inv /\ Broadcasting))
<1> SUFFICES ASSUME QuietServers PROVE Spec => [](Inv /\ Broadcasting)
  OBVIOUS
<1>1. Init => Inv /\ Broadcasting
  BY InitInv, InitBroadcast
<1>2. Inv /\ Broadcasting /\ [Next]_vars => (Inv /\ Broadcasting)'
  BY StepInv, StepBroadcast
<1> QED
  BY <1>1, <1>2, PTL DEF Spec

LEMMA BufferBeforeTask == ASSUME Inv, Broadcasting PROVE BroadcastFirst
<1> SUFFICES ASSUME NEW s \in Thread, NEW t \in after, Runs(s, t), Here(s) = target[t], Here(s) # homenode[t]
             PROVE  buffer[Here(s)] = "new"
  BY DEF BroadcastFirst
<1>1. t \in Task /\ target[t] \in Node
  BY TasksAssumption DEF Inv, Types, TaskType
<1>2. At("thread", s, t)
  BY DEF Runs, At, Holds
<1>3. ASSUME NEW x \in Thread, NEW p \in DOMAIN chan[<<x, target[t]>>], Announces(chan[<<x, target[t]>>][p], t)
      PROVE  FALSE
  <2>1. Brings(chan[<<x, target[t]>>], t)
    BY <1>3 DEF Announces, Brings, Descriptors
  <2>2. At("chan", <<x, target[t]>>, t)
    BY <1>1, <2>1 DEF At
  <2>3. \A l, j : At(l, j, t) => l = "thread"
    BY <1>1, <1>2, OnePlace
  <2> QED
    BY <2>2, <2>3
<1>4. BehindAt(t)
  BY DEF Broadcasting, Behind
<1> QED
  BY <1>3, <1>4 DEF BehindAt

\* What may be left on a channel of threads that have nothing to do.
LEMMA LeftOver ==
  ASSUME Inv, Broadcasting, finished = Task, \A s \in Thread : doing[s] = Idle,
         NEW s \in Thread, NEW n \in Node, NEW p \in DOMAIN chan[<<s, n>>]
  PROVE  p \in Lane(chan[<<s, n>>], FALSE) /\ chan[<<s, n>>][p].type = "data"
<1> DEFINE m == chan[<<s, n>>][p]
<1>1. m \in Letter /\ MessageOK(m, s, n, homenode)
  BY InvFacts
<1>2. \A x \in Thread : doing[x].op = "idle"
  BY IdleRun
<1>3. p \in Lane(chan[<<s, n>>], FALSE)
  <2>1. CASE s \in Node
    <3>1. ReplyAt(s, n)
      BY <2>1 DEF Inv, Traffic, ReplyChain
    <3>2. \A w \in Worker : ~ Asks(doing[w], s)
      BY <1>2, Threads DEF Asks
    <3>3. Lane(chan[<<s, n>>], TRUE) = {}
      BY <3>1, <3>2 DEF ReplyAt
    <3> QED
      BY <3>3 DEF Lane
  <2>2. CASE s \notin Node
    BY <1>1, <2>2 DEF MessageOK, Lane
  <2> QED
    BY <2>1, <2>2
<1>4. m.type \notin Descriptors
  <2> SUFFICES ASSUME m.type \in Descriptors PROVE FALSE
    OBVIOUS
  <2>1. m.task \in Task
    BY <1>1 DEF Letter
  <2>2. At("chan", <<s, n>>, m.task)
    BY DEF At, Brings
  <2>3. At("done", 0, m.task)
    BY <2>1 DEF At
  <2>4. \A l, j : At(l, j, m.task) => l = "done"
    BY <2>1, <2>3, OnePlace
  <2> QED
    BY <2>2, <2>4
<1>5. m.type # "STEALING_REQUEST"
  <2>1. m.type = "STEALING_REQUEST" => Request(s, n, p)
    BY DEF Inv, Traffic, Asking, RequestsLast
  <2> QED
    BY <1>2, <2>1 DEF Request
<1>6. m.type # "TORC_BCAST"
  BY <1>2 DEF Broadcasting, Underway, IsBcast
<1>7. m.type # "TORC_NO_WORK"
  <2>1. m.type = "TORC_NO_WORK" => m.tag >= 100
    <3>1. m.tag \in Int
      BY <1>1 DEF Letter, Message
    <3>2. m.type = "TORC_NO_WORK" => ~ (m.tag < 100)
      BY <1>1 DEF MessageOK
    <3> QED
      BY <3>1, <3>2
  <2> QED
    BY <1>3, <2>1 DEF Lane
<1>8. m.type \in {"TORC_NORMAL_ENQUEUE", "TORC_ANSWER", "STEALING_REQUEST", "TORC_BCAST", "stolen", "TORC_NO_WORK", "data"}
  BY <1>1 DEF Letter, Message
<1> HIDE DEF m
<1>9. m.type = "data"
  BY <1>4, <1>5, <1>6, <1>7, <1>8 DEF Descriptors
<1> QED
  BY <1>3, <1>9 DEF m

LEMMA ChannelsEmpty == ASSUME Inv, Broadcasting PROVE NothingLeftOver
<1> SUFFICES ASSUME finished = Task, \A s \in Thread : doing[s] = Idle, NEW s \in Thread, NEW n \in Node
             PROVE  chan[<<s, n>>] = <<>>
  BY DEF NothingLeftOver
<1> DEFINE q == chan[<<s, n>>]
<1>1. q \in Seq(Letter) /\ WorkAt(s, n) /\ n \in Thread
  BY InvFacts, Threads
<1>2. ChainOf(q, FALSE, NoDue, NoDue, n, homenode)
  <2>1. Expects(Idle, s) = NoDue /\ Owes(Idle, n, FALSE) = NoDue
    BY IdleRun DEF Expects, Owes
  <2> QED
    BY <1>1, <2>1 DEF WorkAt
<1>3. \A p \in DOMAIN q : p \in Lane(q, FALSE) /\ q[p].type = "data"
  BY LeftOver
<1> HIDE DEF q
<1>4. ASSUME Lane(q, FALSE) # {} PROVE FALSE
  <2>1. PICK f \in Lane(q, FALSE) : Link(NoDue, q[f])
    BY <1>1, <1>2, <1>4, LaneFirst
  <2>2. q[f].type = "data"
    BY <1>3 DEF Lane
  <2> QED
    BY <2>1, <2>2 DEF Link
<1>5. DOMAIN q = {}
  BY <1>3, <1>4
<1>6. q = <<>>
  BY <1>1, <1>5
<1> QED
  BY <1>6 DEF q

\* A task created after torc_broadcast finds the new contents on the node it
\* was sent to.
THEOREM AlwaysBroadcastFirst == QuietServers => (Spec => []BroadcastFirst)
<1> SUFFICES ASSUME QuietServers PROVE Spec => []BroadcastFirst
  OBVIOUS
<1>1. Spec => [](Inv /\ Broadcasting)
  BY AlwaysBroadcasting
<1>2. Inv /\ Broadcasting => BroadcastFirst
  BY BufferBeforeTask
<1> QED
  BY <1>1, <1>2, PTL

\* When all is done no message is left for a later receive to take.
THEOREM AlwaysNothingLeftOver == QuietServers => (Spec => []NothingLeftOver)
<1> SUFFICES ASSUME QuietServers PROVE Spec => []NothingLeftOver
  OBVIOUS
<1>1. Spec => [](Inv /\ Broadcasting)
  BY AlwaysBroadcasting
<1>2. Inv /\ Broadcasting => NothingLeftOver
  BY ChannelsEmpty
<1> QED
  BY <1>1, <1>2, PTL

=============================================================================
