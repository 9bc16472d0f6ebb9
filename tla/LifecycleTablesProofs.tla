------------------------- MODULE LifecycleTablesProofs -------------------------
(***************************************************************************)
(* For any number of nodes, workers and calls: the nodes agree on the      *)
(* functions that are registered (TablesAgree), no message is left when a  *)
(* node calls MPI_Finalize (NothingUnread), and every variable keeps its   *)
(* type.                                                                   *)
(*                                                                         *)
(* The invariant (Flow) follows what each call of the main program has set *)
(* in motion: which messages may be on their way and what each of them     *)
(* says of the state (Letters), and where the registration of each node    *)
(* is: still to be sent, sent, queued, held by a worker or a thief, or     *)
(* answered; the main program's join counter is the number of these        *)
(* (Counting).  What ends a conversation between a thread and a server is  *)
(* the last message there (Lasts), so that once it is taken the channel is *)
(* empty.                                                                  *)
(***************************************************************************)
EXTENDS LifecycleProofs

----------------------------------------------------------------------------
(* Where the messages and the work of the main program's calls are.        *)

\* The main program has finalized.
Over == At(0) \in {"md_end"} \cup Ending

\* Nobody has given up waiting for an answer.
Fresh == thread_safe \/ ~Over

\* What a call makes a thread send to other nodes, and while it does.
Says(s, type) == out[s].left # {} /\ out[s].msg.type = type

Sending ==
  /\ \A s \in Thread :
       /\ out[s].left \subseteq Others(s[1])
       /\ out[s].left # {} => s = Main \/ (s \notin Worker /\ Says(s, "RESET_STATISTICS"))
       /\ Says(s, "RESET_STATISTICS") => resets > 0
  /\ out[Main].left # {} =>
       \/ Says(Main, "WORK") /\ At(0) = "waitall" /\ out[Main].msg.arg = registered
       \/ Says(Main, "ENABLE_STEALING") /\ At(0) = "main" /\ enabled
       \/ Says(Main, "RESET_STATISTICS") /\ At(0) = "main"
       \/ Says(Main, "TERMINATE_WORKERS") /\ At(0) = "md_end"

\* The messages on their way from s to the server of n.
Post(s, n) == Range(chan[<<s, n>>])

\* What a message m of s to the server of n says of the state.
Kind(s, n, m) ==
  /\ m.type = "WORK" => s = Main /\ n # 0 /\ m.arg = registered
  /\ m.type = "ENABLE_STEALING" => s = Main /\ n # 0 /\ enabled
  /\ m.type = "RESET_STATISTICS" => resets > 0 /\ (s = Main \/ s \notin Worker)
  /\ m.type = "ANSWER" => s \in Worker /\ s[1] # 0 /\ n = 0
  /\ m.type = "STEALING_REQUEST" =>
       s \in Worker /\ enabled /\ (Fresh => n = victim[s] /\ pc[s] = "asked" /\ reply[s] = NULL)
  /\ m.type = "TERMINATE_WORKERS" =>
       s = Main /\ n # 0 /\ Over /\ appl_finished[n] = 0 /\ n \notin out[Main].left
  /\ m.type = "TERMINATE_LOCAL" =>
       s = First(n) /\ N > 1 /\ thread_safe /\ At(n) = "join" /\ pc[Server(n)] = "serve"

Letters == \A s \in Thread, n \in Node : \A m \in Post(s, n) : Kind(s, n, m)

\* Messages after which their sender says nothing more to this server, until
\* it has been answered.
Closing == {m \in Message : m.type \in {"TERMINATE_WORKERS", "TERMINATE_LOCAL"}
                                      \cup (IF Fresh THEN {"STEALING_REQUEST"} ELSE {})}

Lasts == \A c \in Thread \X Node : \A i \in DOMAIN chan[c] : chan[c][i] \in Closing => i = Len(chan[c])

\* Nobody asks for work before stealing has been switched on.
Switch ==
  ~enabled => /\ \A n \in Node : ~internode_stealing[n]
              /\ \A w \in Worker : pc[w] \notin {"sweep", "ask", "asked"}

\* A node that ends has been told to, and has read what the main program
\* and its own worker 0 have sent.
Told(n) == appl_finished[n] = 1 \/ pc[Server(n)] = "finish"

FinishOf(n) ==
  /\ appl_finished[n] \in 0 .. 1
  /\ pc[Server(n)] = "finish" => n # 0 /\ appl_finished[n] = 0
  /\ Told(n) => Over
  /\ At(n) \in {"md_end"} \cup Ending => appl_finished[n] = 1
  /\ n # 0 /\ Told(n) => Post(Main, n) = {} /\ n \notin out[Main].left
  /\ thread_safe /\ N > 1 /\ pc[Server(n)] = "exited" => Post(First(n), n) = {}

Finish == \A n \in Node : FinishOf(n)

\* What a worker registers, or is about to.
Carrying ==
  \A w \in Worker :
    /\ task[w] # NULL => task[w] = registered /\ pc[w] \in {"write", "count"}
    /\ pc[w] \in {"write", "count"} => task[w] = registered /\ registered \in Function
    /\ reply[w] \in Function => reply[w] = registered /\ pc[w] = "asked"
    /\ Fresh /\ pc[w] # "asked" => reply[w] = NULL
    /\ pc[w] \in {"sweep", "ask", "asked", "write", "count"} => out[w].left = {}

\* The registration of a node is in one place at most before a worker has it.
OneWork(q) == \A i, j \in DOMAIN q : q[i].type = "WORK" /\ q[j].type = "WORK" => i = j
Unsent(n)  == Says(Main, "WORK") /\ n \in out[Main].left
Sent(n)    == \E m \in Post(Main, n) : m.type = "WORK"

Placed ==
  \A n \in Node : /\ queue[n] \subseteq {registered}
                  /\ Unsent(n) => queue[n] = {} /\ ~Sent(n)
                  /\ Sent(n) => queue[n] = {}
                  /\ OneWork(chan[<<Main, n>>])

\* What the main program waits for: registrations that no worker has yet,
\* that one has, and answers that node 0 has not yet received.
Queued == {n \in Node : Unsent(n) \/ Sent(n) \/ queue[n] # {}}
Held   == {w \in Worker : pc[w] \in {"write", "count"} \/ reply[w] \in Function}
Answer == {p \in Worker \X Nat : /\ p[1][1] # 0 /\ p[2] \in DOMAIN chan[<<p[1], 0>>]
                                 /\ chan[<<p[1], 0>>][p[2]].type = "ANSWER"}

Waiting == {"waitall", "write", "count", "sweep", "ask", "asked"}

Counting ==
  /\ IsFiniteSet(Held) /\ IsFiniteSet(Answer)
  /\ pending = Cardinality(Queued) + Cardinality(Held) + Cardinality(Answer)
  /\ pending <= N
  /\ At(0) \notin Waiting => pending = 0

\* As long as nothing is registered while stealing is on, each node makes
\* its own entry.
HeldOn(n) == {w \in Held : w[1] = n}

Agreeing ==
  ~mixed =>
    /\ enabled => pending = 0
    /\ \A n \in Node :
         /\ \A v, w \in HeldOn(n) : v = w
         /\ n \in Queued => HeldOn(n) = {}
         /\ number_of_functions[n] + (IF n \in Queued \/ HeldOn(n) # {} THEN 1 ELSE 0) = registered
         /\ \A i \in 1 .. number_of_functions[n] : table[n][i] = i
         /\ \A w \in HeldOn(n) : pc[w] = "count" => table[n][registered] = registered

\* The rest of the types.
Values ==
  /\ thread_safe \in BOOLEAN
  /\ reply \in [Worker -> {NULL, TORC_NO_WORK} \cup Function]
  /\ victim \in [Worker -> Node]
  /\ queue \in [Node -> SUBSET Function]
  /\ task \in [Worker -> Function \cup {NULL}]
  /\ table \in [Node -> [Function -> Function \cup {NULL}]]
  /\ number_of_functions \in [Node -> Nat]
  /\ pending \in Int
  /\ internode_stealing \in [Node -> BOOLEAN]
  /\ termination_flag \in [Node -> 0 .. 1]
  /\ appl_finished \in [Node -> Nat]
  /\ registered \in 0 .. MaxRegistrations
  /\ enabled \in BOOLEAN /\ mixed \in BOOLEAN
  /\ resets \in 0 .. MaxResets
  /\ reset_count \in [Node -> 0 .. MaxResets + 1]

Flow == /\ Values /\ Sending /\ Letters /\ Lasts /\ Switch /\ Finish
        /\ Carrying /\ Placed /\ Counting /\ Agreeing

----------------------------------------------------------------------------
(* Messages, as they come and go.                                          *)

LEMMA TailOf ==
  ASSUME NEW S, NEW q \in Seq(S), q # <<>>
  PROVE  /\ Tail(q) \in Seq(S) /\ Head(q) \in S /\ Len(q) \in Nat \ {0}
         /\ Len(Tail(q)) = Len(q) - 1 /\ DOMAIN Tail(q) = 1 .. Len(q) - 1
         /\ \A i \in DOMAIN Tail(q) : i + 1 \in DOMAIN q /\ Tail(q)[i] = q[i + 1]
         /\ 1 \in DOMAIN q /\ Head(q) = q[1] /\ DOMAIN q = 1 .. Len(q)
BY HeadTailProperties

LEMMA AppendOf ==
  ASSUME NEW S, NEW q \in Seq(S), NEW m \in S
  PROVE  /\ Append(q, m) \in Seq(S) /\ Len(q) \in Nat /\ Len(Append(q, m)) = Len(q) + 1
         /\ DOMAIN Append(q, m) = 1 .. Len(q) + 1 /\ DOMAIN q = 1 .. Len(q)
         /\ \A i \in DOMAIN q : Append(q, m)[i] = q[i] /\ i # Len(q) + 1
         /\ Append(q, m)[Len(q) + 1] = m
BY AppendProperties

\* What the first message leaves, and what one adds.
LEMMA TailRange ==
  ASSUME NEW S, NEW q \in Seq(S), q # <<>>
  PROVE  Range(q) = Range(Tail(q)) \cup {Head(q)}
<1>0. /\ DOMAIN Tail(q) = 1 .. Len(q) - 1 /\ DOMAIN q = 1 .. Len(q) /\ Len(q) \in Nat \ {0}
      /\ \A i \in DOMAIN Tail(q) : i + 1 \in DOMAIN q /\ Tail(q)[i] = q[i + 1]
      /\ 1 \in DOMAIN q /\ Head(q) = q[1]
  BY TailOf
<1> DEFINE t == Tail(q)
<1> HIDE DEF t
<1>1. ASSUME NEW i \in DOMAIN q PROVE q[i] \in Range(t) \cup {Head(q)}
  <2>1. CASE i = 1
    BY <1>0, <2>1
  <2>2. CASE i # 1
    <3>1. i - 1 \in DOMAIN t /\ (i - 1) + 1 = i
      BY <1>0, <2>2 DEF t
    <3>2. t[i - 1] = q[i]
      BY <1>0, <3>1 DEF t
    <3> QED
      BY <3>1, <3>2 DEF Range
  <2> QED
    BY <2>1, <2>2
<1>2. \A i \in DOMAIN t : t[i] \in Range(q)
  BY <1>0 DEF Range, t
<1>3. Head(q) \in Range(q)
  BY <1>0 DEF Range
<1> QED
  BY <1>1, <1>2, <1>3 DEF Range, t

LEMMA AppendRange ==
  ASSUME NEW S, NEW q \in Seq(S), NEW m \in S
  PROVE  Range(Append(q, m)) = Range(q) \cup {m}
<1> DEFINE r == Append(q, m)
<1>0. /\ DOMAIN r = 1 .. Len(q) + 1 /\ DOMAIN q = 1 .. Len(q) /\ Len(q) \in Nat
      /\ (\A i \in DOMAIN q : r[i] = q[i]) /\ r[Len(q) + 1] = m
  BY AppendOf
<1> HIDE DEF r
<1>1. ASSUME NEW i \in DOMAIN r PROVE r[i] \in Range(q) \cup {m}
  <2>1. CASE i \in DOMAIN q
    BY <1>0, <2>1 DEF Range
  <2>2. CASE i \notin DOMAIN q
    <3>1. i = Len(q) + 1
      BY <1>0, <2>2
    <3> QED
      BY <1>0, <3>1
  <2> QED
    BY <2>1, <2>2
<1>2. \A i \in DOMAIN q : i \in DOMAIN r
  BY <1>0
<1>3. Len(q) + 1 \in DOMAIN r
  BY <1>0
<1> QED
  BY <1>0, <1>1, <1>2, <1>3 DEF Range, r

Channels == chan \in [Thread \X Node -> Seq(Message)]

\* A message is taken from s to n; m is added to those from s to n.
Taken(s, n) == chan[<<s, n>>] # <<>> /\ chan' = [chan EXCEPT ![<<s, n>>] = Tail(@)]
Added(s, n, m) == chan' = [chan EXCEPT ![<<s, n>>] = Append(@, m)]

LEMMA PostType == Channels => \A s \in Thread, n \in Node : Post(s, n) \subseteq Message
<1> SUFFICES ASSUME Channels, NEW s \in Thread, NEW n \in Node PROVE Post(s, n) \subseteq Message
  OBVIOUS
<1>1. chan[<<s, n>>] \in Seq(Message)
  BY DEF Channels
<1>2. \A i \in DOMAIN chan[<<s, n>>] : chan[<<s, n>>][i] \in Message
  BY <1>1
<1> QED
  BY <1>2 DEF Post, Range

LEMMA PostEmpty ==
  ASSUME Channels, NEW s \in Thread, NEW n \in Node
  PROVE  Post(s, n) = {} <=> chan[<<s, n>>] = <<>>
<1> DEFINE q == chan[<<s, n>>]
<1>1. q \in Seq(Message)
  BY DEF Channels
<1> HIDE DEF q
<1>2. q # <<>> => Head(q) \in Range(q)
  BY <1>1, TailRange
<1>3. q = <<>> => Range(q) = {}
  BY DEF Range
<1> QED
  BY <1>2, <1>3 DEF Post, q

LEMMA PostTaken ==
  ASSUME Channels, NEW a \in Thread, NEW b \in Node, Taken(a, b)
  PROVE  /\ Channels' /\ Head(chan[<<a, b>>]) \in Message
         /\ Post(a, b) = Post(a, b)' \cup {Head(chan[<<a, b>>])}
         /\ \A s \in Thread, n \in Node : s # a \/ n # b => Post(s, n)' = Post(s, n)
         /\ \A s \in Thread, n \in Node : Post(s, n)' \subseteq Post(s, n)
<1> DEFINE q == chan[<<a, b>>]
<1>0. q \in Seq(Message) /\ q # <<>>
  BY DEF Channels, Taken
<1>1. chan'[<<a, b>>] = Tail(q)
  BY DEF Taken, Channels
<1> HIDE DEF q
<1>2. Tail(q) \in Seq(Message) /\ Head(q) \in Message
  BY <1>0, TailOf
<1>3. \A s \in Thread, n \in Node : s # a \/ n # b => chan'[<<s, n>>] = chan[<<s, n>>]
  BY DEF Taken, Channels
<1>4. Channels'
  BY <1>2 DEF Taken, Channels, q
<1>5. Range(q) = Range(Tail(q)) \cup {Head(q)}
  BY <1>0, TailRange
<1> QED
  BY <1>1, <1>2, <1>3, <1>4, <1>5 DEF Post, q

LEMMA PostAdded ==
  ASSUME Channels, NEW a \in Thread, NEW b \in Node, NEW m \in Message, Added(a, b, m)
  PROVE  /\ Channels'
         /\ Post(a, b)' = Post(a, b) \cup {m}
         /\ \A s \in Thread, n \in Node : s # a \/ n # b => Post(s, n)' = Post(s, n)
<1> DEFINE q == chan[<<a, b>>]
<1>0. q \in Seq(Message)
  BY DEF Channels
<1>1. chan'[<<a, b>>] = Append(q, m)
  BY DEF Added, Channels
<1> HIDE DEF q
<1>2. Append(q, m) \in Seq(Message)
  BY <1>0, AppendOf
<1>3. \A s \in Thread, n \in Node : s # a \/ n # b => chan'[<<s, n>>] = chan[<<s, n>>]
  BY DEF Added, Channels
<1>4. Channels'
  BY <1>2 DEF Added, Channels, q
<1>5. Range(Append(q, m)) = Range(q) \cup {m}
  BY <1>0, AppendRange
<1> QED
  BY <1>1, <1>2, <1>3, <1>4, <1>5 DEF Post, q

\* The last messages of conversations, as messages are taken and added.
LEMMA LastsTaken ==
  ASSUME Channels, Lasts, NEW a \in Thread, NEW b \in Node, Taken(a, b), Fresh' => Fresh
  PROVE  Lasts' /\ (Head(chan[<<a, b>>]) \in Closing => Post(a, b)' = {})
<1> DEFINE q == chan[<<a, b>>]
<1>0. q \in Seq(Message) /\ q # <<>> /\ chan'[<<a, b>>] = Tail(q)
  BY DEF Channels, Taken
<1>1. \A i \in DOMAIN q : q[i] \in Closing => i = Len(q)
  BY DEF Lasts
<1>2. \A c \in Thread \X Node : c # <<a, b>> => chan'[c] = chan[c]
  BY DEF Channels, Taken
<1> HIDE DEF q
<1>3. /\ Len(Tail(q)) = Len(q) - 1 /\ DOMAIN Tail(q) = 1 .. Len(q) - 1
      /\ \A i \in DOMAIN Tail(q) : i + 1 \in DOMAIN q /\ Tail(q)[i] = q[i + 1]
      /\ 1 \in DOMAIN q /\ Head(q) = q[1] /\ Len(q) \in Nat \ {0}
  BY <1>0, TailOf
<1>4. Closing' \subseteq Closing
  BY DEF Closing
<1>5. ASSUME NEW i \in DOMAIN Tail(q), Tail(q)[i] \in Closing' PROVE i = Len(Tail(q))
  <2>1. i + 1 = Len(q) /\ i \in 1 .. Len(q) - 1
    <3>1. Tail(q)[i] \in Closing
      BY <1>4, <1>5
    <3> QED
      BY <1>1, <1>3, <3>1
  <2> QED
    BY <1>3, <2>1
<1>6. Lasts'
  <2> SUFFICES ASSUME NEW c \in Thread \X Node, NEW i \in DOMAIN chan'[c], chan'[c][i] \in Closing'
               PROVE  i = Len(chan'[c])
    BY DEF Lasts
  <2>1. CASE c = <<a, b>>
    BY <1>0, <1>5, <2>1
  <2>2. CASE c # <<a, b>>
    <3>1. chan'[c] = chan[c]
      BY <1>2, <2>2
    <3>2. i \in DOMAIN chan[c] /\ chan[c][i] \in Closing
      BY <1>4, <3>1
    <3> QED
      BY <3>1, <3>2 DEF Lasts
  <2> QED
    BY <2>1, <2>2
<1>7. ASSUME Head(q) \in Closing PROVE Post(a, b)' = {}
  <2>1. Len(q) = 1
    BY <1>1, <1>3, <1>7
  <2>2. DOMAIN Tail(q) = {}
    BY <1>3, <2>1
  <2> QED
    BY <1>0, <2>2 DEF Post, Range
<1> QED
  BY <1>6, <1>7 DEF q

LEMMA LastsAdded ==
  ASSUME Channels, Lasts, NEW a \in Thread, NEW b \in Node, NEW m \in Message, Added(a, b, m),
         \A x \in Post(a, b) : x \notin Closing, Fresh' => Fresh
  PROVE  Lasts'
<1> DEFINE q == chan[<<a, b>>]
<1>0. q \in Seq(Message) /\ chan'[<<a, b>>] = Append(q, m)
  BY DEF Channels, Added
<1>1. \A i \in DOMAIN q : q[i] \notin Closing
  BY DEF Post, Range
<1>2. \A c \in Thread \X Node : c # <<a, b>> => chan'[c] = chan[c]
  BY DEF Channels, Added
<1> HIDE DEF q
<1>3. /\ Len(Append(q, m)) = Len(q) + 1 /\ DOMAIN Append(q, m) = 1 .. Len(q) + 1
      /\ DOMAIN q = 1 .. Len(q) /\ Len(q) \in Nat
      /\ \A i \in DOMAIN q : Append(q, m)[i] = q[i]
  BY <1>0, AppendOf
<1>4. Closing' \subseteq Closing
  BY DEF Closing
<1>5. ASSUME NEW i \in DOMAIN Append(q, m), Append(q, m)[i] \in Closing' PROVE i = Len(Append(q, m))
  <2>1. i \notin DOMAIN q
    BY <1>1, <1>3, <1>4, <1>5
  <2> QED
    BY <1>3, <2>1
<1> SUFFICES ASSUME NEW c \in Thread \X Node, NEW i \in DOMAIN chan'[c], chan'[c][i] \in Closing'
             PROVE  i = Len(chan'[c])
  BY DEF Lasts
<1>6. CASE c = <<a, b>>
  BY <1>0, <1>5, <1>6
<1>7. CASE c # <<a, b>>
  <2>1. chan'[c] = chan[c]
    BY <1>2, <1>7
  <2>2. i \in DOMAIN chan[c] /\ chan[c][i] \in Closing
    BY <1>4, <2>1
  <2> QED
    BY <2>1, <2>2 DEF Lasts
<1> QED
  BY <1>6, <1>7

LEMMA LastsStill == ASSUME Lasts, chan' = chan, Fresh' => Fresh PROVE Lasts'
<1>1. Closing' \subseteq Closing
  BY DEF Closing
<1> QED
  BY <1>1 DEF Lasts

\* There is one registration in a channel at most.
LEMMA OneWorkTaken ==
  ASSUME Channels, NEW a \in Thread, NEW b \in Node, Taken(a, b), OneWork(chan[<<a, b>>])
  PROVE  /\ OneWork(chan'[<<a, b>>])
         /\ Head(chan[<<a, b>>]).type = "WORK" => \A m \in Post(a, b)' : m.type # "WORK"
<1> DEFINE q == chan[<<a, b>>]
<1>0. q \in Seq(Message) /\ q # <<>> /\ chan'[<<a, b>>] = Tail(q)
  BY DEF Channels, Taken
<1>1. \A i, j \in DOMAIN q : q[i].type = "WORK" /\ q[j].type = "WORK" => i = j
  BY DEF OneWork
<1> HIDE DEF q
<1>2. /\ DOMAIN Tail(q) = 1 .. Len(q) - 1 /\ Len(q) \in Nat
      /\ \A i \in DOMAIN Tail(q) : i + 1 \in DOMAIN q /\ Tail(q)[i] = q[i + 1]
      /\ 1 \in DOMAIN q /\ Head(q) = q[1]
  BY <1>0, TailOf
<1>3. ASSUME NEW i \in DOMAIN Tail(q), NEW j \in DOMAIN Tail(q),
             Tail(q)[i].type = "WORK", Tail(q)[j].type = "WORK"
      PROVE  i = j
  <2>1. i + 1 = j + 1
    BY <1>1, <1>2, <1>3
  <2> QED
    BY <1>2, <2>1
<1>4. ASSUME Head(q).type = "WORK", NEW i \in DOMAIN Tail(q) PROVE Tail(q)[i].type # "WORK"
  <2>1. Tail(q)[i].type = "WORK" => i + 1 = 1
    BY <1>1, <1>2, <1>4
  <2>2. i \in Nat \ {0}
    BY <1>2
  <2> QED
    BY <2>1, <2>2
<1> QED
  BY <1>0, <1>3, <1>4 DEF OneWork, Post, Range, q

LEMMA OneWorkAdded ==
  ASSUME Channels, NEW a \in Thread, NEW b \in Node, NEW m \in Message, Added(a, b, m),
         OneWork(chan[<<a, b>>]),
         m.type = "WORK" => \A x \in Post(a, b) : x.type # "WORK"
  PROVE  OneWork(chan'[<<a, b>>])
<1> DEFINE q == chan[<<a, b>>]
<1>0. q \in Seq(Message) /\ chan'[<<a, b>>] = Append(q, m)
  BY DEF Channels, Added
<1>1. /\ \A i, j \in DOMAIN q : q[i].type = "WORK" /\ q[j].type = "WORK" => i = j
      /\ m.type = "WORK" => \A i \in DOMAIN q : q[i].type # "WORK"
  BY DEF OneWork, Post, Range
<1> HIDE DEF q
<1>2. /\ DOMAIN Append(q, m) = 1 .. Len(q) + 1 /\ DOMAIN q = 1 .. Len(q) /\ Len(q) \in Nat
      /\ (\A i \in DOMAIN q : Append(q, m)[i] = q[i]) /\ Append(q, m)[Len(q) + 1] = m
  BY <1>0, AppendOf
<1>3. \A i \in DOMAIN Append(q, m) : i \in DOMAIN q \/ i = Len(q) + 1
  BY <1>2
<1> QED
  BY <1>0, <1>1, <1>2, <1>3 DEF OneWork

\* Answers are counted by their places in the channels of their senders.
Counts(s, n, m) == s \in Worker /\ s[1] # 0 /\ n = 0 /\ m.type = "ANSWER"

LEMMA AnswerTaken ==
  ASSUME Channels, IsFiniteSet(Answer), NEW a \in Thread, NEW b \in Node, Taken(a, b)
  PROVE  /\ IsFiniteSet(Answer')
         /\ Counts(a, b, Head(chan[<<a, b>>])) => Cardinality(Answer) = Cardinality(Answer') + 1
         /\ ~Counts(a, b, Head(chan[<<a, b>>])) => Cardinality(Answer') = Cardinality(Answer)
<1> DEFINE q == chan[<<a, b>>]
<1>0. q \in Seq(Message) /\ q # <<>> /\ chan'[<<a, b>>] = Tail(q)
  BY DEF Channels, Taken
<1>1. 0 \in Node /\ Worker \subseteq Thread
  BY NodesAssumption DEF Node, Thread
<1>2. \A s \in Worker : s # a \/ b # 0 => chan'[<<s, 0>>] = chan[<<s, 0>>]
  BY <1>1 DEF Channels, Taken
<1>3. CASE ~(a \in Worker /\ a[1] # 0 /\ b = 0)
  <2>1. \A p \in Worker \X Nat : p[1][1] # 0 => chan'[<<p[1], 0>>] = chan[<<p[1], 0>>]
    BY <1>2, <1>3
  <2>2. Answer' = Answer
    BY <2>1 DEF Answer
  <2> QED
    BY <1>3, <2>2 DEF Counts
<1>4. CASE a \in Worker /\ a[1] # 0 /\ b = 0
  <2> DEFINE first == <<a, 1>>
             S     == Answer \ {first}
             g     == [p \in S |-> IF p[1] = a THEN <<a, p[2] - 1>> ELSE p]
  <2>0. /\ DOMAIN Tail(q) = 1 .. Len(q) - 1 /\ DOMAIN q = 1 .. Len(q) /\ Len(q) \in Nat
        /\ \A i \in DOMAIN Tail(q) : i + 1 \in DOMAIN q /\ Tail(q)[i] = q[i + 1]
        /\ 1 \in DOMAIN q /\ Head(q) = q[1]
    BY <1>0, TailOf
  <2>1. chan[<<a, 0>>] = q /\ chan'[<<a, 0>>] = Tail(q)
    BY <1>0, <1>4
  <2> HIDE DEF q
  <2>2. \A s \in Worker, i \in Nat :
          /\ <<s, i>> \in Answer <=> /\ s[1] # 0 /\ i \in DOMAIN chan[<<s, 0>>]
                                     /\ chan[<<s, 0>>][i].type = "ANSWER"
          /\ <<s, i>> \in Answer' <=> /\ s[1] # 0 /\ i \in DOMAIN chan'[<<s, 0>>]
                                      /\ chan'[<<s, 0>>][i].type = "ANSWER"
    BY DEF Answer
  <2>3. \A s \in Worker, i \in Nat : s # a => (<<s, i>> \in Answer' <=> <<s, i>> \in Answer)
    BY <1>2, <2>2
  <2>4. \A i \in Nat : <<a, i>> \in Answer' <=> <<a, i + 1>> \in S
    <3> SUFFICES ASSUME NEW i \in Nat PROVE <<a, i>> \in Answer' <=> <<a, i + 1>> \in S
      OBVIOUS
    <3>1. <<a, i>> \in Answer' <=> i \in DOMAIN Tail(q) /\ Tail(q)[i].type = "ANSWER"
      BY <1>4, <2>1, <2>2
    <3>2. <<a, i + 1>> \in Answer <=> i + 1 \in DOMAIN q /\ q[i + 1].type = "ANSWER"
      BY <1>4, <2>1, <2>2
    <3>3. <<a, i + 1>> \in S <=> i # 0 /\ <<a, i + 1>> \in Answer
      <4>1. i + 1 = 1 <=> i = 0
        OBVIOUS
      <4> QED
        BY <4>1
    <3>4. i \in DOMAIN Tail(q) <=> i # 0 /\ i + 1 \in DOMAIN q
      BY <2>0
    <3> QED
      BY <2>0, <3>1, <3>2, <3>3, <3>4
  <2>5. \A p \in S : /\ p = <<p[1], p[2]>> /\ p[1] \in Worker /\ p[2] \in Nat
                     /\ p[1] = a => p[2] - 1 \in Nat /\ (p[2] - 1) + 1 = p[2]
    <3> SUFFICES ASSUME NEW p \in S
                 PROVE  /\ p = <<p[1], p[2]>> /\ p[1] \in Worker /\ p[2] \in Nat
                        /\ p[1] = a => p[2] - 1 \in Nat /\ (p[2] - 1) + 1 = p[2]
      OBVIOUS
    <3>1. p = <<p[1], p[2]>> /\ p[1] \in Worker /\ p[2] \in Nat /\ p \in Answer /\ p # first
      BY DEF Answer
    <3>2. p[1] = a => p[2] \in DOMAIN q
      BY <2>1, <2>2, <3>1
    <3>3. p[1] = a => p[2] \in Nat \ {0}
      BY <2>0, <3>2
    <3> QED
      BY <3>1, <3>3
  <2>6. \A p \in S : g[p] \in Answer'
    <3> SUFFICES ASSUME NEW p \in S PROVE g[p] \in Answer'
      OBVIOUS
    <3>1. CASE p[1] = a
      <4>1. p = <<a, (p[2] - 1) + 1>> /\ p[2] - 1 \in Nat
        BY <2>5, <3>1
      <4>2. <<a, p[2] - 1>> \in Answer'
        BY <2>4, <4>1
      <4> QED
        BY <3>1, <4>2
    <3>2. CASE p[1] # a
      <4>1. p = <<p[1], p[2]>> /\ p[1] \in Worker /\ p[2] \in Nat
        BY <2>5
      <4>2. p \in Answer'
        BY <2>3, <3>2, <4>1
      <4> QED
        BY <3>2, <4>2
    <3> QED
      BY <3>1, <3>2
  <2>7. \A p, r \in S : g[p] = g[r] => p = r
    <3> SUFFICES ASSUME NEW p \in S, NEW r \in S, g[p] = g[r] PROVE p = r
      OBVIOUS
    <3>1. g[p][1] = p[1] /\ g[r][1] = r[1]
      BY <2>5
    <3>2. CASE p[1] = a
      <4>1. g[p] = <<a, p[2] - 1>> /\ g[r] = <<a, r[2] - 1>> /\ r[1] = a
        BY <3>1, <3>2
      <4>2. p[2] - 1 = r[2] - 1
        BY <4>1
      <4>3. p[2] \in Nat /\ r[2] \in Nat
        BY <2>5
      <4>4. p[2] = r[2]
        BY <4>2, <4>3
      <4> QED
        BY <2>5, <3>2, <4>1, <4>4
    <3>3. CASE p[1] # a
      BY <3>1, <3>3
    <3> QED
      BY <3>2, <3>3
  <2>8. \A r \in Answer' : \E p \in S : g[p] = r
    <3> SUFFICES ASSUME NEW r \in Answer' PROVE \E p \in S : g[p] = r
      OBVIOUS
    <3>1. r = <<r[1], r[2]>> /\ r[1] \in Worker /\ r[2] \in Nat
      BY DEF Answer
    <3>2. CASE r[1] = a
      <4>1. <<a, r[2] + 1>> \in S
        BY <2>4, <3>1, <3>2
      <4>2. g[<<a, r[2] + 1>>] = <<a, (r[2] + 1) - 1>>
        BY <4>1
      <4>3. (r[2] + 1) - 1 = r[2]
        BY <3>1
      <4> QED
        BY <3>1, <3>2, <4>1, <4>2, <4>3
    <3>3. CASE r[1] # a
      <4>1. r \in S
        BY <2>3, <3>1, <3>3
      <4>2. g[r] = r
        BY <3>3, <4>1
      <4> QED
        BY <4>1, <4>2
    <3> QED
      BY <3>2, <3>3
  <2>9. ExistsBijection(S, Answer')
    <3>1. g \in [S -> Answer']
      BY <2>6
    <3> HIDE DEF g
    <3> QED
      BY <2>7, <2>8, <3>1 DEF ExistsBijection, Bijection, Injection, Surjection, IsInjective
  <2> HIDE DEF g
  <2>10. IsFiniteSet(S)
    BY FS_Subset
  <2>11. IsFiniteSet(Answer') /\ Cardinality(Answer') = Cardinality(S)
    BY <2>9, <2>10, FS_Bijection
  <2>12. first \in Answer <=> Head(q).type = "ANSWER"
    BY <1>4, <2>0, <2>1, <2>2
  <2>13. Counts(a, b, Head(q)) <=> first \in Answer
    BY <1>4, <2>12 DEF Counts
  <2>14. first \in Answer => Cardinality(Answer) = Cardinality(S) + 1
    <3>1. Cardinality(Answer) \in Nat
      BY FS_CardinalityType
    <3>2. first \in Answer => Cardinality(S) = Cardinality(Answer) - 1
      BY FS_RemoveElement
    <3> QED
      BY <3>1, <3>2
  <2>15. first \notin Answer => S = Answer
    OBVIOUS
  <2> QED
    BY <2>11, <2>13, <2>14, <2>15 DEF q
<1> QED
  BY <1>3, <1>4

LEMMA AnswerAdded ==
  ASSUME Channels, IsFiniteSet(Answer), NEW a \in Thread, NEW b \in Node, NEW m \in Message,
         Added(a, b, m)
  PROVE  /\ IsFiniteSet(Answer')
         /\ Counts(a, b, m) => Cardinality(Answer') = Cardinality(Answer) + 1
         /\ ~Counts(a, b, m) => Answer' = Answer
<1> DEFINE q == chan[<<a, b>>]
<1>0. q \in Seq(Message) /\ chan'[<<a, b>>] = Append(q, m)
  BY DEF Channels, Added
<1>1. 0 \in Node /\ Worker \subseteq Thread
  BY NodesAssumption DEF Node, Thread
<1>2. \A s \in Worker : s # a \/ b # 0 => chan'[<<s, 0>>] = chan[<<s, 0>>]
  BY <1>1 DEF Channels, Added
<1>3. CASE ~(a \in Worker /\ a[1] # 0 /\ b = 0)
  <2>1. \A p \in Worker \X Nat : p[1][1] # 0 => chan'[<<p[1], 0>>] = chan[<<p[1], 0>>]
    BY <1>2, <1>3
  <2>2. Answer' = Answer
    BY <2>1 DEF Answer
  <2> QED
    BY <1>3, <2>2 DEF Counts
<1>4. CASE a \in Worker /\ a[1] # 0 /\ b = 0
  <2> DEFINE last == <<a, Len(q) + 1>>
  <2>0. /\ DOMAIN Append(q, m) = 1 .. Len(q) + 1 /\ DOMAIN q = 1 .. Len(q) /\ Len(q) \in Nat
        /\ \A i \in DOMAIN q : Append(q, m)[i] = q[i] /\ i # Len(q) + 1
        /\ Append(q, m)[Len(q) + 1] = m
    BY <1>0, AppendOf
  <2>1. chan[<<a, 0>>] = q /\ chan'[<<a, 0>>] = Append(q, m)
    BY <1>0, <1>4
  <2> HIDE DEF q
  <2>2. \A s \in Worker, i \in Nat :
          /\ <<s, i>> \in Answer <=> /\ s[1] # 0 /\ i \in DOMAIN chan[<<s, 0>>]
                                     /\ chan[<<s, 0>>][i].type = "ANSWER"
          /\ <<s, i>> \in Answer' <=> /\ s[1] # 0 /\ i \in DOMAIN chan'[<<s, 0>>]
                                      /\ chan'[<<s, 0>>][i].type = "ANSWER"
    BY DEF Answer
  <2>3. \A s \in Worker, i \in Nat : s # a => (<<s, i>> \in Answer' <=> <<s, i>> \in Answer)
    BY <1>2, <2>2
  <2>4. \A i \in Nat : <<a, i>> \in Answer'
          <=> <<a, i>> \in Answer \/ (i = Len(q) + 1 /\ m.type = "ANSWER")
    <3> SUFFICES ASSUME NEW i \in Nat
                 PROVE  <<a, i>> \in Answer'
                          <=> <<a, i>> \in Answer \/ (i = Len(q) + 1 /\ m.type = "ANSWER")
      OBVIOUS
    <3>1. <<a, i>> \in Answer' <=> i \in DOMAIN Append(q, m) /\ Append(q, m)[i].type = "ANSWER"
      BY <1>4, <2>1, <2>2
    <3>2. <<a, i>> \in Answer <=> i \in DOMAIN q /\ q[i].type = "ANSWER"
      BY <1>4, <2>1, <2>2
    <3>3. i \in DOMAIN Append(q, m) <=> i \in DOMAIN q \/ i = Len(q) + 1
      BY <2>0
    <3> QED
      BY <2>0, <3>1, <3>2, <3>3
  <2>5. Answer \subseteq Worker \X Nat /\ Answer' \subseteq Worker \X Nat
    BY DEF Answer
  <2>6. last \notin Answer /\ last \in Worker \X Nat
    <3>1. Len(q) + 1 \in Nat /\ Len(q) + 1 \notin DOMAIN q
      BY <2>0
    <3> DEFINE k == Len(q) + 1
    <3> HIDE DEF k
    <3>2. <<a, k>> \in Answer => k \in DOMAIN chan[<<a, 0>>]
      BY <1>4, <2>2, <3>1 DEF k
    <3> QED
      BY <1>4, <2>1, <3>1, <3>2 DEF k
  <2>7. \A p \in Worker \X Nat :
          p \in Answer' <=> p \in Answer \/ (p = last /\ m.type = "ANSWER")
    <3> SUFFICES ASSUME NEW s \in Worker, NEW i \in Nat
                 PROVE  <<s, i>> \in Answer'
                          <=> <<s, i>> \in Answer \/ (<<s, i>> = last /\ m.type = "ANSWER")
      OBVIOUS
    <3>1. CASE s = a
      BY <2>4, <3>1
    <3>2. CASE s # a
      BY <2>3, <3>2
    <3> QED
      BY <3>1, <3>2
  <2> HIDE DEF last
  <2>8. CASE m.type = "ANSWER"
    <3>1. Answer' = Answer \cup {last}
      BY <2>5, <2>6, <2>7, <2>8
    <3>2. IsFiniteSet(Answer') /\ Cardinality(Answer') = Cardinality(Answer) + 1
      BY <2>6, <3>1, FS_AddElement
    <3> QED
      BY <1>4, <2>8, <3>2 DEF Counts
  <2>9. CASE m.type # "ANSWER"
    <3>1. Answer' = Answer
      BY <2>5, <2>7, <2>9
    <3> QED
      BY <2>9, <3>1 DEF Counts
  <2> QED
    BY <2>8, <2>9
<1> QED
  BY <1>3, <1>4

\* The registrations on their way, as messages are taken and added.
LEMMA WorkTaken ==
  ASSUME Channels, Placed, Letters, NEW a \in Thread, NEW b \in Node, Taken(a, b)
  PROVE  /\ \A n \in Node : OneWork(chan'[<<Main, n>>]) /\ (Sent(n)' => Sent(n))
         /\ Head(chan[<<a, b>>]).type # "WORK" => \A n \in Node : Sent(n)' <=> Sent(n)
         /\ Head(chan[<<a, b>>]).type = "WORK" =>
              /\ a = Main /\ Sent(b) /\ ~Sent(b)'
              /\ \A n \in Node \ {b} : Sent(n)' <=> Sent(n)
<1> DEFINE h == Head(chan[<<a, b>>])
<1>0. /\ Post(a, b) = Post(a, b)' \cup {h}
      /\ \A s \in Thread, n \in Node : s # a \/ n # b => Post(s, n)' = Post(s, n)
  BY PostTaken
<1>1. \A n \in Node : OneWork(chan[<<Main, n>>])
  BY DEF Placed
<1>2. Main \in Thread
  BY Threads
<1>3. h.type = "WORK" => a = Main
  BY <1>0 DEF Letters, Kind
<1>4. \A n \in Node : OneWork(chan'[<<Main, n>>])
  <2> TAKE n \in Node
  <2>1. CASE a = Main /\ b = n
    BY <1>1, <2>1, OneWorkTaken
  <2>2. CASE ~(a = Main /\ b = n)
    <3>1. chan'[<<Main, n>>] = chan[<<Main, n>>]
      BY <1>2, <2>2 DEF Taken, Channels
    <3> QED
      BY <1>1, <3>1
  <2> QED
    BY <2>1, <2>2
<1>5. h.type = "WORK" => \A m \in Post(a, b)' : m.type # "WORK"
  BY <1>1, <1>3, OneWorkTaken
<1> HIDE DEF h
<1>6. \A n \in Node : Sent(n)' => Sent(n)
  BY <1>0, <1>2 DEF Sent
<1>7. h.type # "WORK" => \A n \in Node : Sent(n)' <=> Sent(n)
  BY <1>0, <1>2 DEF Sent
<1>8. h.type = "WORK" => Sent(b) /\ ~Sent(b)' /\ \A n \in Node \ {b} : Sent(n)' <=> Sent(n)
  BY <1>0, <1>2, <1>3, <1>5 DEF Sent
<1> QED
  BY <1>3, <1>4, <1>6, <1>7, <1>8 DEF h

LEMMA WorkAdded ==
  ASSUME Channels, Placed, NEW a \in Thread, NEW b \in Node, NEW m \in Message, Added(a, b, m),
         m.type = "WORK" => a = Main /\ ~Sent(b)
  PROVE  \A n \in Node : /\ OneWork(chan'[<<Main, n>>])
                         /\ Sent(n)' <=> Sent(n) \/ (n = b /\ m.type = "WORK")
<1>0. /\ Post(a, b)' = Post(a, b) \cup {m}
      /\ \A s \in Thread, n \in Node : s # a \/ n # b => Post(s, n)' = Post(s, n)
  BY PostAdded
<1>1. \A n \in Node : OneWork(chan[<<Main, n>>])
  BY DEF Placed
<1>2. Main \in Thread
  BY Threads
<1> TAKE n \in Node
<1>3. OneWork(chan'[<<Main, n>>])
  <2>1. CASE a = Main /\ b = n
    <3>1. m.type = "WORK" => \A x \in Post(a, b) : x.type # "WORK"
      BY <2>1 DEF Sent
    <3> QED
      BY <1>1, <2>1, <3>1, OneWorkAdded
  <2>2. CASE ~(a = Main /\ b = n)
    <3>1. chan'[<<Main, n>>] = chan[<<Main, n>>]
      BY <1>2, <2>2 DEF Added, Channels
    <3> QED
      BY <1>1, <3>1
  <2> QED
    BY <2>1, <2>2
<1>4. Sent(n)' <=> Sent(n) \/ (n = b /\ m.type = "WORK")
  <2>1. CASE a = Main /\ b = n
    BY <1>0, <2>1 DEF Sent
  <2>2. CASE ~(a = Main /\ b = n)
    <3>1. Post(Main, n)' = Post(Main, n)
      BY <1>0, <1>2, <2>2
    <3> QED
      BY <2>2, <3>1 DEF Sent
  <2> QED
    BY <2>1, <2>2
<1> QED
  BY <1>3, <1>4

----------------------------------------------------------------------------
(* What a step must keep for each part of the invariant.                   *)

LEMMA ServersApart == \A n \in Node : Server(n) \in Thread /\ Server(n) \notin Worker /\ Server(n)[1] = n
<1> TAKE n \in Node
<1>1. -1 \notin Nat
  OBVIOUS
<1>2. \A w \in Worker : w[2] \in Nat
  BY Threads, NodesAssumption
<1>3. Server(n)[2] = -1 /\ Server(n)[1] = n
  BY DEF Server
<1> QED
  BY <1>1, <1>2, <1>3, Threads

\* Where everybody is when a server has gone on.
LEMMA ServerGoes ==
  ASSUME Inv, NEW n \in Node, NEW to, Goto(Server(n), to)
  PROVE  /\ \A w \in Worker : pc'[w] = pc[w]
         /\ \A k \in Node : At(k)' = At(k)
         /\ \A k \in Node : pc'[Server(k)] = IF k = n THEN to ELSE pc[Server(k)]
<1>1. pc' = [pc EXCEPT ![Server(n)] = to] /\ pc \in [Thread -> Stage]
  BY DEF Goto, Inv, Types
<1>2. \A w \in Worker : w \in Thread /\ w # Server(n)
  BY Threads, ServersApart
<1>3. \A k \in Node : First(k) \in Worker /\ Server(k) \in Thread /\ (k # n => Server(k) # Server(n))
  BY Threads
<1> QED
  BY <1>1, <1>2, <1>3 DEF At

\* Where everybody is when worker w has gone on.
LEMMA WorkerGoto ==
  ASSUME Types, NEW w \in Worker, NEW to, Goto(w, to)
  PROVE  /\ \A v \in Worker : pc'[v] = IF v = w THEN to ELSE pc[v]
         /\ \A n \in Node : pc'[Server(n)] = pc[Server(n)]
         /\ \A n \in Node : At(n)' = IF First(n) = w THEN to ELSE At(n)
<1>1. pc' = [pc EXCEPT ![w] = to] /\ DOMAIN pc = Thread
  BY DEF Goto, Types
<1>2. \A v \in Worker : v \in Thread
  BY Threads
<1>3. \A n \in Node : Server(n) \in Thread /\ Server(n) # w
  BY ServersApart
<1>4. \A n \in Node : First(n) \in Worker
  BY Threads
<1> QED
  BY <1>1, <1>2, <1>3, <1>4 DEF At

LEMMA SendingStill ==
  ASSUME Sending, out' = out, registered' = registered, resets > 0 => resets' > 0,
         enabled => enabled', out[Main].left = {} \/ At(0)' = At(0)
  PROVE  Sending'
BY DEF Sending, Says

\* Messages that are left say what they said.
KeepsAsks ==
  \A w \in Worker, n \in Node : \A m \in Post(w, n) :
    m \in Post(w, n)' /\ m.type = "STEALING_REQUEST"
      /\ Fresh /\ n = victim[w] /\ pc[w] = "asked" /\ reply[w] = NULL
      => victim'[w] = victim[w] /\ pc'[w] = "asked" /\ reply'[w] = NULL
KeepsEnds ==
  \A n \in Node \ {0} : \A m \in Post(Main, n) :
    m \in Post(Main, n)' /\ m.type = "TERMINATE_WORKERS"
      /\ appl_finished[n] = 0 /\ n \notin out[Main].left
      => appl_finished'[n] = 0 /\ n \notin out'[Main].left
KeepsStops ==
  \A n \in Node : \A m \in Post(First(n), n) :
    m \in Post(First(n), n)' /\ m.type = "TERMINATE_LOCAL"
      /\ N > 1 /\ thread_safe /\ At(n) = "join" /\ pc[Server(n)] = "serve"
      => At(n)' = "join" /\ pc'[Server(n)] = "serve"

LEMMA LettersStep ==
  ASSUME Letters, KeepsAsks, KeepsEnds, KeepsStops,
         thread_safe' = thread_safe, resets > 0 => resets' > 0,
         registered' = registered \/ \A n \in Node : ~Sent(n),
         enabled => enabled', Over => Over', Fresh' => Fresh,
         \A s \in Thread, n \in Node : \A m \in Post(s, n)' : m \in Post(s, n) \/ Kind(s, n, m)'
  PROVE  Letters'
<1> SUFFICES ASSUME NEW s \in Thread, NEW n \in Node, NEW m \in Post(s, n)', m \in Post(s, n)
             PROVE  Kind(s, n, m)'
  BY DEF Letters
<1>1. Kind(s, n, m)
  BY DEF Letters
<1>2. /\ m.type = "WORK" => s = Main /\ n # 0 /\ m.arg = registered'
      /\ m.type = "ENABLE_STEALING" => s = Main /\ n # 0 /\ enabled'
      /\ m.type = "RESET_STATISTICS" => resets' > 0 /\ (s = Main \/ s \notin Worker)
      /\ m.type = "ANSWER" => s \in Worker /\ s[1] # 0 /\ n = 0
  BY <1>1 DEF Kind, Sent
<1>3. m.type = "STEALING_REQUEST" =>
        /\ s \in Worker /\ enabled'
        /\ Fresh' => n = victim'[s] /\ pc'[s] = "asked" /\ reply'[s] = NULL
  BY <1>1 DEF Kind, KeepsAsks
<1>4. m.type = "TERMINATE_WORKERS" =>
        s = Main /\ n # 0 /\ Over' /\ appl_finished'[n] = 0 /\ n \notin out'[Main].left
  BY <1>1 DEF Kind, KeepsEnds
<1>5. m.type = "TERMINATE_LOCAL" =>
        s = First(n) /\ N > 1 /\ thread_safe' /\ At(n)' = "join" /\ pc'[Server(n)] = "serve"
  BY <1>1 DEF Kind, KeepsStops
<1> QED
  BY <1>2, <1>3, <1>4, <1>5 DEF Kind

LEMMA FinishStill ==
  ASSUME Finish, appl_finished' = appl_finished, thread_safe' = thread_safe, Over => Over',
         \A n \in Node : At(n)' \in {"md_end"} \cup Ending =>
           At(n) \in {"md_end"} \cup Ending \/ appl_finished[n] = 1,
         \A n \in Node : n # 0 /\ Told(n) /\ n \notin out[Main].left =>
           Post(Main, n)' \subseteq Post(Main, n) /\ n \notin out'[Main].left,
         \A n \in Node : pc'[Server(n)] = "finish" => pc[Server(n)] = "finish",
         \A n \in Node : thread_safe /\ N > 1 /\ pc'[Server(n)] = "exited" =>
           pc[Server(n)] = "exited" /\ Post(First(n), n)' \subseteq Post(First(n), n)
  PROVE  Finish'
BY DEF Finish, FinishOf, Told

LEMMA CarryingStill ==
  ASSUME Carrying, UNCHANGED <<task, reply, registered>>, Fresh' => Fresh,
         \A w \in Worker : pc'[w] = pc[w] \/ {pc[w], pc'[w]} \cap {"write", "count", "asked"} = {},
         \A w \in Worker : pc'[w] \in {"sweep", "ask", "asked", "write", "count"} => out'[w].left = {}
  PROVE  Carrying'
BY DEF Carrying

LEMMA PlacedStill ==
  ASSUME Placed, UNCHANGED <<queue, registered>>,
         \A n \in Node : /\ Unsent(n)' => Unsent(n)
                         /\ Sent(n)' => Sent(n)
                         /\ OneWork(chan'[<<Main, n>>])
  PROVE  Placed'
BY DEF Placed

LEMMA QueuedStill ==
  ASSUME queue' = queue, \A n \in Node : Unsent(n)' \/ Sent(n)' <=> Unsent(n) \/ Sent(n)
  PROVE  Queued' = Queued
BY DEF Queued

LEMMA HeldStill ==
  ASSUME \A w \in Worker : pc'[w] = pc[w] \/ {pc[w], pc'[w]} \cap {"write", "count"} = {},
         \A w \in Worker : reply'[w] = reply[w] \/ {reply[w], reply'[w]} \cap Function = {}
  PROVE  Held' = Held
BY DEF Held

LEMMA CountingStill ==
  ASSUME Counting, pending' = pending, Queued' = Queued, Held' = Held,
         IsFiniteSet(Answer'), Cardinality(Answer') = Cardinality(Answer),
         At(0)' \notin Waiting => At(0) \notin Waiting \/ pending = 0
  PROVE  Counting'
BY DEF Counting

LEMMA AgreeingStill ==
  ASSUME Agreeing, UNCHANGED <<pending, table, number_of_functions, registered, mixed, enabled>>,
         Queued' = Queued, Held' = Held, \A w \in Held : pc'[w] = "count" => pc[w] = "count"
  PROVE  Agreeing'
<1>1. \A n : HeldOn(n)' = HeldOn(n) /\ HeldOn(n) \subseteq Held
  BY DEF HeldOn
<1> QED
  BY <1>1 DEF Agreeing

----------------------------------------------------------------------------
(* Steps that concern neither messages nor work.                           *)

\* Where a worker is for the calls of the main program.
Moves == {"sweep", "ask", "asked", "write", "count"}

LEMMA RestFlow ==
  ASSUME Link, Flow,
         UNCHANGED <<thread_safe, victim, net, tables, appl_finished, calls>>,
         termination_flag' \in [Node -> 0 .. 1],
         internode_stealing' \in [Node -> BOOLEAN],
         ~enabled => \A n \in Node : ~internode_stealing'[n],
         Over' <=> Over,
         \A w \in Worker : \/ pc'[w] = pc[w]
                           \/ pc'[w] \notin (Moves \ {"ask"}) /\ pc[w] = "sweep"
                           \/ pc'[w] \notin Moves /\ pc[w] \notin Moves,
         out[Main].left = {} \/ At(0)' = At(0),
         At(0)' \notin Waiting => At(0) \notin Waiting \/ pending = 0,
         \A n \in Node : At(n)' \in {"md_end"} \cup Ending =>
           At(n) \in {"md_end"} \cup Ending \/ appl_finished[n] = 1,
         \A n \in Node : N > 1 /\ thread_safe /\ At(n) = "join" /\ pc[Server(n)] = "serve" =>
           At(n)' = "join" /\ pc'[Server(n)] = "serve",
         \A n \in Node : thread_safe /\ N > 1 /\ pc'[Server(n)] = "exited" => pc[Server(n)] = "exited",
         \A n \in Node : pc'[Server(n)] = "finish" => pc[Server(n)] = "finish"
  PROVE  Flow'
<1>0. /\ thread_safe' = thread_safe /\ victim' = victim /\ chan' = chan /\ reply' = reply
      /\ out' = out /\ queue' = queue /\ task' = task /\ table' = table
      /\ number_of_functions' = number_of_functions /\ pending' = pending
      /\ appl_finished' = appl_finished /\ registered' = registered /\ enabled' = enabled
      /\ mixed' = mixed /\ resets' = resets /\ reset_count' = reset_count
  BY DEF net, tables, calls
<1>1. (Fresh' <=> Fresh) /\ \A s, n : Post(s, n)' = Post(s, n)
  BY <1>0 DEF Fresh, Post
<1>2. \A w \in Worker : pc'[w] = pc[w] \/ {pc[w], pc'[w]} \cap {"write", "count", "asked"} = {}
  BY DEF Moves
<1>3. \A w \in Worker : pc'[w] = pc[w] \/ {pc[w], pc'[w]} \cap {"write", "count"} = {}
  BY DEF Moves
<1>4. \A w \in Worker : pc[w] = "asked" => pc'[w] = "asked"
  BY DEF Moves
<1>5. Values'
  BY <1>0 DEF Flow, Values
<1>6. Sending'
  BY <1>0, SendingStill DEF Flow
<1>7. Letters'
  <2>1. KeepsAsks
    BY <1>0, <1>4 DEF KeepsAsks
  <2>2. KeepsEnds
    BY <1>0 DEF KeepsEnds
  <2>3. KeepsStops
    BY DEF KeepsStops
  <2> QED
    BY <1>0, <1>1, <2>1, <2>2, <2>3, LettersStep DEF Flow
<1>8. Lasts'
  BY <1>0, <1>1, LastsStill DEF Flow
<1>9. Switch'
  BY <1>0 DEF Flow, Switch, Moves
<1>10. Finish'
  BY <1>0, <1>1, FinishStill DEF Flow
<1>11. Carrying'
  <2>1. \A w \in Worker : pc'[w] \in Moves => out'[w].left = {}
    BY <1>0 DEF Flow, Carrying, Moves
  <2> QED
    BY <1>0, <1>1, <1>2, <2>1, CarryingStill DEF Flow, Moves
<1>12. \A n \in Node : (Unsent(n)' <=> Unsent(n)) /\ (Sent(n)' <=> Sent(n))
  BY <1>0 DEF Unsent, Says, Sent, Post
<1>13. Placed'
  BY <1>0, <1>12, PlacedStill DEF Flow, Placed
<1>14. Queued' = Queued
  BY <1>0, <1>12, QueuedStill
<1>15. Held' = Held
  BY <1>0, <1>3, HeldStill
<1>16. Counting'
  <2>1. Answer' = Answer /\ IsFiniteSet(Answer)
    BY <1>0 DEF Answer, Flow, Counting
  <2> QED
    BY <1>0, <1>14, <1>15, <2>1, CountingStill DEF Flow
<1>17. Agreeing'
  <2>1. \A w \in Worker : pc'[w] = "count" => pc[w] = "count"
    BY DEF Moves
  <2>2. \A w \in Held : pc'[w] = "count" => pc[w] = "count"
    BY <2>1 DEF Held
  <2> QED
    BY <1>0, <1>14, <1>15, <2>2, AgreeingStill DEF Flow
<1> QED
  BY <1>5, <1>6, <1>7, <1>8, <1>9, <1>10, <1>11, <1>13, <1>16, <1>17 DEF Flow

LEMMA AsideFlow ==
  ASSUME Link, Flow, UNCHANGED <<thread_safe, victim, net, tables, flags, calls>>,
         Over' <=> Over,
         \A w \in Worker : pc'[w] = pc[w] \/ {pc[w], pc'[w]} \cap Moves = {},
         out[Main].left = {} \/ At(0)' = At(0),
         At(0)' \notin Waiting => At(0) \notin Waiting \/ pending = 0,
         \A n \in Node : At(n)' \in {"md_end"} \cup Ending => At(n) \in {"md_end"} \cup Ending,
         \A n \in Node : N > 1 /\ thread_safe /\ At(n) = "join" /\ pc[Server(n)] = "serve" =>
           At(n)' = "join" /\ pc'[Server(n)] = "serve",
         \A n \in Node : thread_safe /\ N > 1 /\ pc'[Server(n)] = "exited" => pc[Server(n)] = "exited",
         \A n \in Node : pc'[Server(n)] = "finish" => pc[Server(n)] = "finish"
  PROVE  Flow'
<1>1. /\ UNCHANGED <<net, tables, termination_flag, appl_finished, calls>>
      /\ internode_stealing' = internode_stealing
  BY DEF flags
<1>2. /\ termination_flag' \in [Node -> 0 .. 1]
      /\ internode_stealing' \in [Node -> BOOLEAN]
      /\ ~enabled => \A n \in Node : ~internode_stealing'[n]
  BY <1>1 DEF Flow, Values, Switch
<1>3. \A w \in Worker : pc'[w] = pc[w] \/ (pc'[w] \notin Moves /\ pc[w] \notin Moves)
  OBVIOUS
<1> QED
  BY <1>1, <1>2, <1>3, RestFlow

\* The barriers, the start of the threads and the end of them.
LEMMA FirstMoveFlow ==
  ASSUME Inv, Link, Flow, NEW n \in Node, NEW to \in Stage, Goto(First(n), to),
         UNCHANGED <<thread_safe, victim, net, tables, flags, calls>>,
         At(n) \notin Moves, to \notin Moves,
         N > 1 /\ At(n) = "join" => pc[Server(n)] # "serve",
         to \in {"md_end"} \cup Ending <=> At(n) \in {"md_end"} \cup Ending,
         n = 0 => out[Main].left = {} /\ (to \notin Waiting => At(0) \notin Waiting \/ pending = 0)
  PROVE  Flow'
<1>0. First(n) \in Worker /\ First(0) = Main /\ 0 \in Node /\ (First(n) = Main <=> n = 0)
  BY Threads
<1>1. /\ \A v \in Worker : pc'[v] = IF v = First(n) THEN to ELSE pc[v]
      /\ \A m \in Node : pc'[Server(m)] = pc[Server(m)]
      /\ \A m \in Node : At(m)' = IF m = n THEN to ELSE At(m)
  <2>1. Types /\ \A m \in Node : First(m) = First(n) <=> m = n
    BY Threads DEF Inv
  <2> QED
    BY <1>0, <2>1, WorkerGoto
<1>2. Over' <=> Over
  BY <1>0, <1>1 DEF Over
<1>3. \A w \in Worker : pc'[w] = pc[w] \/ {pc[w], pc'[w]} \cap Moves = {}
  BY <1>1 DEF At
<1>4. /\ out[Main].left = {} \/ At(0)' = At(0)
      /\ At(0)' \notin Waiting => At(0) \notin Waiting \/ pending = 0
  BY <1>0, <1>1
<1>5. \A m \in Node : At(m)' \in {"md_end"} \cup Ending => At(m) \in {"md_end"} \cup Ending
  BY <1>1
<1>6. \A m \in Node : N > 1 /\ At(m) = "join" /\ pc[Server(m)] = "serve" =>
        At(m)' = "join" /\ pc'[Server(m)] = "serve"
  BY <1>1
<1>7. \A m \in Node : pc'[Server(m)] \in {"exited", "finish"} => pc'[Server(m)] = pc[Server(m)]
  BY <1>1
<1> QED
  BY <1>2, <1>3, <1>4, <1>5, <1>6, <1>7, AsideFlow

LEMMA EnterBarrierFlow == ASSUME Link, Flow, NEW n \in Node, EnterBarrier(n) PROVE Flow'
<1>1. pc' = pc /\ UNCHANGED <<thread_safe, victim, net, tables, flags, calls>>
  BY DEF EnterBarrier
<1>2. \A m : At(m)' = At(m)
  BY <1>1 DEF At
<1>3. Over' <=> Over
  BY <1>2 DEF Over
<1> QED
  BY <1>1, <1>2, <1>3, AsideFlow

LEMMA LeaveBarrierFlow == ASSUME Inv, Link, Flow, NEW n \in Node, LeaveBarrier(n) PROVE Flow'
<1>1. /\ UNCHANGED <<thread_safe, victim, net, tables, flags, calls>>
      /\ Goto(First(n), AfterBarrier(n, At(n))) /\ At(n) \in BarrierStage
  BY DEF LeaveBarrier, Inv, Together, At
<1> DEFINE to == AfterBarrier(n, At(n))
<1>2. /\ to \in Stage /\ At(n) \notin Moves /\ to \notin Moves /\ At(n) # "join"
      /\ to \in {"md_end"} \cup Ending <=> At(n) \in {"md_end"} \cup Ending
      /\ At(n) \notin {"waitall", "main", "md_end"} /\ At(n) \notin Waiting
  BY <1>1 DEF AfterBarrier, BarrierStage, Stage, Moves, Ending, Waiting
<1>3. n = 0 => out[Main].left = {}
  BY <1>2 DEF Flow, Sending
<1> HIDE DEF to
<1> QED
  BY <1>1, <1>2, <1>3, FirstMoveFlow DEF to

LEMMA StartThreadsFlow == ASSUME Inv, Link, Flow, NEW n \in Node, StartThreads(n) PROVE Flow'
<1>1. /\ UNCHANGED <<thread_safe, victim, net, tables, flags, calls>> /\ At(n) = "md_init"
      /\ pc' = [s \in Thread |->
                  IF s[1] # n THEN pc[s]
                  ELSE IF s[2] = 0 THEN "gather"
                  ELSE IF s[2] > 0 THEN "worker"
                  ELSE IF N > 1 THEN "serve" ELSE "none"]
  BY DEF StartThreads, At
<1>2. \A v \in 1 .. kthreads[n] - 1 : pc[<<n, v>>] = "none"
  BY <1>1 DEF Inv, Counted, Early
<1>3. \A w \in Worker : w \in Thread /\ w[1] \in Node /\ w[2] \in Nat /\ w = <<w[1], w[2]>>
                        /\ w[2] \in 0 .. kthreads[w[1]] - 1
  BY Threads, NodesAssumption
<1>4. \A w \in Worker : pc'[w] = pc[w] \/ {pc[w], pc'[w]} \cap Moves = {}
  <2> TAKE w \in Worker
  <2>1. CASE w[1] # n
    BY <1>1, <1>3, <2>1
  <2>2. CASE w[1] = n /\ w[2] = 0
    <3>1. w = First(n)
      BY <1>3, <2>2 DEF First
    <3> QED
      BY <1>1, <1>3, <2>2, <3>1 DEF Moves, At
  <2>3. CASE w[1] = n /\ w[2] # 0
    <3>1. w[2] \in 1 .. kthreads[n] - 1 /\ w[2] > 0 /\ kthreads[n] \in Nat
      BY <1>3, <2>3, NodesAssumption
    <3>2. pc[w] = "none" /\ pc'[w] = "worker"
      BY <1>1, <1>2, <1>3, <2>3, <3>1
    <3> QED
      BY <3>2 DEF Moves
  <2> QED
    BY <2>1, <2>2, <2>3
<1>5. \A m \in Node : At(m)' = IF m = n THEN "gather" ELSE At(m)
  <2>1. \A m \in Node : First(m) \in Thread /\ First(m)[1] = m /\ First(m)[2] = 0
    BY Threads DEF First
  <2> QED
    BY <1>1, <2>1 DEF At
<1>6. \A m \in Node : pc'[Server(m)] = IF m # n THEN pc[Server(m)]
                                       ELSE IF N > 1 THEN "serve" ELSE "none"
  <2>1. \A m \in Node : Server(m) \in Thread /\ Server(m)[1] = m /\ Server(m)[2] = -1
    BY Threads DEF Server
  <2>2. -1 # 0 /\ ~(-1 > 0)
    OBVIOUS
  <2> QED
    BY <1>1, <2>1, <2>2
<1>7. 0 \in Node
  BY Threads
<1>8. Over' <=> Over
  BY <1>1, <1>5, <1>7 DEF Over, Ending
<1>9. out[Main].left = {} \/ At(0)' = At(0)
  BY <1>1, <1>5, <1>7 DEF Flow, Sending
<1>10. At(0)' \notin Waiting => At(0) \notin Waiting \/ pending = 0
  BY <1>1, <1>5, <1>7 DEF Waiting
<1>11. \A m \in Node : At(m)' \in {"md_end"} \cup Ending => At(m) \in {"md_end"} \cup Ending
  BY <1>5 DEF Ending
<1>12. \A m \in Node : N > 1 /\ At(m) = "join" /\ pc[Server(m)] = "serve" =>
         At(m)' = "join" /\ pc'[Server(m)] = "serve"
  BY <1>1, <1>5, <1>6
<1>13. \A m \in Node : pc'[Server(m)] \in {"exited", "finish"} => pc'[Server(m)] = pc[Server(m)]
  BY <1>6
<1> QED
  BY <1>1, <1>4, <1>8, <1>9, <1>10, <1>11, <1>12, <1>13, AsideFlow

LEMMA FillNodeInfoFlow == ASSUME Inv, Link, Flow, NEW n \in Node, FillNodeInfo(n) PROVE Flow'
<1>1. /\ UNCHANGED <<thread_safe, victim, net, tables, flags, calls>>
      /\ Goto(First(n), "up") /\ At(n) = "info"
  BY DEF FillNodeInfo, At
<1>2. n = 0 => out[Main].left = {}
  BY <1>1 DEF Flow, Sending
<1>3. /\ "up" \in Stage /\ "up" \notin Moves /\ "info" \notin Moves /\ "info" \notin Waiting
      /\ "up" \notin {"md_end"} \cup Ending /\ "info" \notin {"md_end"} \cup Ending
  BY DEF Stage, BarrierStage, Moves, Waiting, Ending
<1> QED
  BY <1>1, <1>2, <1>3, FirstMoveFlow

LEMMA WorkersEndedFlow == ASSUME Inv, Link, Flow, NEW n \in Node, WorkersEnded(n) PROVE Flow'
<1>1. /\ UNCHANGED <<thread_safe, victim, net, tables, flags, calls>>
      /\ Goto(First(n), "end") /\ At(n) = "md_end" /\ Quiet(First(n))
  BY DEF WorkersEnded, At, boot
<1>2. n = 0 => out[Main].left = {}
  BY <1>1, Threads DEF Quiet
<1>3. /\ "end" \in Stage /\ "end" \notin Moves /\ "md_end" \notin Moves /\ "md_end" \notin Waiting
      /\ "end" \in Ending
  BY DEF Stage, BarrierStage, Moves, Waiting, Ending
<1> QED
  BY <1>1, <1>2, <1>3, FirstMoveFlow

LEMMA JoinServerFlow == ASSUME Inv, Link, Flow, NEW n \in Node, JoinServer(n) PROVE Flow'
<1>1. /\ UNCHANGED <<thread_safe, victim, net, tables, flags, calls>>
      /\ Goto(First(n), "last") /\ At(n) = "join" /\ (N > 1 => pc[Server(n)] = "exited")
  BY DEF JoinServer, At, boot, ServerEnded
<1>2. n = 0 => out[Main].left = {}
  BY <1>1 DEF Flow, Sending
<1>3. /\ "last" \in Stage /\ "last" \notin Moves /\ "join" \notin Moves /\ "join" \notin Waiting
      /\ "last" \in Ending /\ "join" \in Ending
  BY DEF Stage, BarrierStage, Moves, Waiting, Ending
<1> QED
  BY <1>1, <1>2, <1>3, FirstMoveFlow

LEMMA StartingFlow ==
  ASSUME Inv, Link, Flow, NEW w \in Worker, NEW to \in {"created", "start", "loop"}, Goto(w, to),
         pc[w] \in {"worker", "created"},
         UNCHANGED <<thread_safe, victim, net, tables, flags, calls>>
  PROVE  Flow'
<1>1. /\ \A v \in Worker : pc'[v] = IF v = w THEN to ELSE pc[v]
      /\ \A m \in Node : pc'[Server(m)] = pc[Server(m)]
      /\ \A m \in Node : At(m)' = IF First(m) = w THEN to ELSE At(m)
  BY WorkerGoto DEF Inv
<1>2. 0 \in Node /\ \A m \in Node : First(m) = w => At(m) \in {"worker", "created"}
  BY Threads DEF At
<1>3. \A m \in Node : At(m)' \in {"md_end"} \cup Ending <=> At(m) \in {"md_end"} \cup Ending
  BY <1>1, <1>2 DEF Ending
<1>4. Over' <=> Over
  BY <1>2, <1>3 DEF Over
<1>5. \A v \in Worker : pc'[v] = pc[v] \/ {pc[v], pc'[v]} \cap Moves = {}
  BY <1>1 DEF Moves
<1>6. out[Main].left = {} \/ At(0)' = At(0)
  BY <1>1, <1>2 DEF Flow, Sending
<1>7. At(0)' \notin Waiting => At(0) \notin Waiting \/ pending = 0
  BY <1>1, <1>2 DEF Waiting
<1>8. \A m \in Node : At(m) = "join" => At(m)' = "join"
  BY <1>1, <1>2
<1> QED
  BY <1>1, <1>3, <1>4, <1>5, <1>6, <1>7, <1>8, AsideFlow

LEMMA WorkerCreatedFlow ==
  ASSUME Inv, Link, Flow, NEW w \in Worker, WorkerCreated(w) PROVE Flow'
BY StartingFlow DEF WorkerCreated

LEMMA WorkerStartsFlow ==
  ASSUME Inv, Link, Flow, NEW w \in Worker, WorkerStarts(w) PROVE Flow'
<1>1. /\ UNCHANGED <<thread_safe, victim, net, tables, flags, calls>> /\ pc[w] = "created"
      /\ Goto(w, IF w[2] = 0 THEN "start" ELSE "loop")
  BY DEF WorkerStarts, boot
<1>2. CASE w[2] = 0
  BY <1>1, <1>2, StartingFlow
<1>3. CASE w[2] # 0
  BY <1>1, <1>3, StartingFlow
<1> QED
  BY <1>2, <1>3

LEMMA WaitReturnsFlow == ASSUME Inv, Link, Flow, WaitReturns PROVE Flow'
<1>1. /\ UNCHANGED <<thread_safe, victim, net, tables, flags, calls>>
      /\ Goto(First(0), "main") /\ At(0) = "waitall" /\ out[Main].left = {} /\ pending = 0
      /\ 0 \in Node
  BY Threads DEF WaitReturns, At, boot, Quiet, WaitEnds
<1>2. /\ "main" \in Stage /\ "main" \notin Moves /\ "waitall" \notin Moves
      /\ "main" \notin {"md_end"} \cup Ending /\ "waitall" \notin {"md_end"} \cup Ending
  BY DEF Stage, Moves, Ending
<1> QED
  BY <1>1, <1>2, FirstMoveFlow

LEMMA ServerLeavesFlow == ASSUME Inv, Link, Flow, NEW n \in Node, ServerLeaves(n) PROVE Flow'
<1>1. /\ UNCHANGED <<thread_safe, victim, net, tables, flags, calls>> /\ ~thread_safe
      /\ Goto(Server(n), "exited")
  BY DEF ServerLeaves, boot
<1>2. /\ \A w \in Worker : pc'[w] = pc[w]
      /\ \A m \in Node : At(m)' = At(m)
      /\ \A m \in Node : pc'[Server(m)] = IF m = n THEN "exited" ELSE pc[Server(m)]
  BY <1>1, ServerGoes
<1>3. Over' <=> Over
  BY <1>2, Threads DEF Over
<1> QED
  BY <1>1, <1>2, <1>3, Threads, AsideFlow

----------------------------------------------------------------------------
(* Workers that look for work.                                             *)

\* A worker goes on in the loop of the scheduler.
LEMMA BusyGoto ==
  ASSUME Inv, NEW w \in Worker, NEW to \in Busy, Goto(w, to), pc[w] \in Busy,
         w = Main => to \in Waiting
  PROVE  /\ \A v \in Worker : pc'[v] = IF v = w THEN to ELSE pc[v]
         /\ \A n \in Node : pc'[Server(n)] = pc[Server(n)]
         /\ \A n \in Node : At(n)' \in {"md_end"} \cup Ending => At(n) \in {"md_end"} \cup Ending
         /\ \A n \in Node : At(n) = "join" => At(n)' = "join"
         /\ Over' <=> Over
         /\ w # Main => At(0)' = At(0)
         /\ At(0)' \notin Waiting => At(0) \notin Waiting
<1>1. /\ \A v \in Worker : pc'[v] = IF v = w THEN to ELSE pc[v]
      /\ \A m \in Node : pc'[Server(m)] = pc[Server(m)]
      /\ \A m \in Node : At(m)' = IF First(m) = w THEN to ELSE At(m)
  BY WorkerGoto DEF Inv
<1>2. 0 \in Node /\ First(0) = Main /\ \A m \in Node : First(m) = w => At(m) = pc[w]
  BY Threads DEF At
<1>3. \A p \in Busy : p \notin {"md_end"} \cup Ending
  BY DEF Busy, Ending
<1>4. \A m \in Node : At(m)' \in {"md_end"} \cup Ending <=> At(m) \in {"md_end"} \cup Ending
  BY <1>1, <1>2, <1>3
<1>5. Over' <=> Over
  BY <1>2, <1>4 DEF Over
<1>6. \A m \in Node : At(m) = "join" => At(m)' = "join"
  BY <1>1, <1>2 DEF Busy
<1> QED
  BY <1>1, <1>2, <1>4, <1>5, <1>6

\* A worker goes to the next node to be asked.
LEMMA ToSweepFlow ==
  ASSUME Inv, Link, Flow, NEW w \in Worker, Goto(w, "sweep"),
         pc[w] \in {"loop", "waitall", "sweep", "asked"}, out[w].left = {}, enabled,
         UNCHANGED <<thread_safe, chan, out, tables, flags, calls>>,
         NEW x \in Node, victim' = [victim EXCEPT ![w] = x],
         NEW r \in {NULL, TORC_NO_WORK}, reply' = [reply EXCEPT ![w] = r],
         reply[w] \notin Function, Fresh => r = NULL,
         pc[w] = "asked" /\ Fresh => reply[w] # NULL
  PROVE  Flow'
<1>0. /\ thread_safe' = thread_safe /\ chan' = chan
      /\ out' = out /\ queue' = queue /\ task' = task /\ table' = table
      /\ number_of_functions' = number_of_functions /\ pending' = pending
      /\ internode_stealing' = internode_stealing /\ termination_flag' = termination_flag
      /\ appl_finished' = appl_finished /\ registered' = registered /\ enabled' = enabled
      /\ mixed' = mixed /\ resets' = resets /\ reset_count' = reset_count
  BY DEF tables, flags, calls
<1>1. /\ \A v \in Worker : pc'[v] = IF v = w THEN "sweep" ELSE pc[v]
      /\ \A n \in Node : pc'[Server(n)] = pc[Server(n)]
      /\ \A n \in Node : At(n)' \in {"md_end"} \cup Ending => At(n) \in {"md_end"} \cup Ending
      /\ \A n \in Node : At(n) = "join" => At(n)' = "join"
      /\ Over' <=> Over
      /\ w # Main => At(0)' = At(0)
      /\ At(0)' \notin Waiting => At(0) \notin Waiting
  BY BusyGoto DEF Busy, Waiting
<1>2. (Fresh' <=> Fresh) /\ \A s, n : Post(s, n)' = Post(s, n)
  BY <1>0, <1>1 DEF Fresh, Post
<1>3. /\ reply'[w] = r /\ r \notin Function
      /\ \A v \in Worker : v # w => reply'[v] = reply[v] /\ victim'[v] = victim[v]
  <2>1. NULL \notin Function /\ TORC_NO_WORK \notin Function
    BY CallsAssumption DEF Function, TORC_NO_WORK
  <2> QED
    BY <2>1 DEF Flow, Values
<1>5. Values'
  BY <1>0 DEF Flow, Values
<1>6. Sending'
  BY <1>0, <1>1, SendingStill DEF Flow
<1>7. Letters'
  <2>1. KeepsAsks
    BY <1>1, <1>3 DEF KeepsAsks
  <2>2. KeepsEnds
    BY <1>0 DEF KeepsEnds
  <2>3. KeepsStops
    BY <1>1 DEF KeepsStops
  <2> QED
    BY <1>0, <1>1, <1>2, <2>1, <2>2, <2>3, LettersStep DEF Flow
<1>8. Lasts'
  BY <1>0, <1>2, LastsStill DEF Flow
<1>9. Switch'
  BY <1>0 DEF Switch
<1>10. Finish'
  BY <1>0, <1>1, <1>2, FinishStill DEF Flow
<1>11. Carrying'
  <2>1. SUFFICES ASSUME NEW v \in Worker
        PROVE  /\ task'[v] # NULL => task'[v] = registered' /\ pc'[v] \in {"write", "count"}
               /\ pc'[v] \in {"write", "count"} => task'[v] = registered' /\ registered' \in Function
               /\ reply'[v] \in Function => reply'[v] = registered' /\ pc'[v] = "asked"
               /\ Fresh' /\ pc'[v] # "asked" => reply'[v] = NULL
               /\ pc'[v] \in {"sweep", "ask", "asked", "write", "count"} => out'[v].left = {}
    BY DEF Carrying
  <2>2. CASE v # w
    BY <1>0, <1>1, <1>2, <1>3, <2>2 DEF Flow, Carrying
  <2>3. CASE v = w
    <3>1. task[w] = NULL
      BY DEF Flow, Carrying
    <3> QED
      BY <1>0, <1>1, <1>2, <1>3, <2>3, <3>1
  <2> QED
    BY <2>2, <2>3
<1>12. \A n \in Node : (Unsent(n)' <=> Unsent(n)) /\ (Sent(n)' <=> Sent(n))
  BY <1>0 DEF Unsent, Says, Sent, Post
<1>13. Placed'
  BY <1>0, <1>12, PlacedStill DEF Flow, Placed
<1>14. Queued' = Queued
  BY <1>0, <1>12, QueuedStill
<1>15. Held' = Held
  <2>1. /\ \A v \in Worker : pc'[v] = pc[v] \/ {pc[v], pc'[v]} \cap {"write", "count"} = {}
        /\ \A v \in Worker : reply'[v] = reply[v] \/ {reply[v], reply'[v]} \cap Function = {}
    BY <1>1, <1>3
  <2> QED
    BY <2>1, HeldStill
<1>16. Counting'
  <2>1. Answer' = Answer /\ IsFiniteSet(Answer)
    BY <1>0 DEF Answer, Flow, Counting
  <2> QED
    BY <1>0, <1>1, <1>14, <1>15, <2>1, CountingStill DEF Flow
<1>17. Agreeing'
  <2>1. \A v \in Held : pc'[v] = "count" => pc[v] = "count"
    BY <1>1 DEF Held
  <2> QED
    BY <1>0, <1>14, <1>15, <2>1, AgreeingStill DEF Flow
<1> QED
  BY <1>5, <1>6, <1>7, <1>8, <1>9, <1>10, <1>11, <1>13, <1>16, <1>17 DEF Flow

\* A worker that does not wait for an answer has got none.
LEMMA NoReply ==
  ASSUME Flow, NEW w \in Worker, pc[w] # "asked"
  PROVE  /\ reply[w] \in {NULL, TORC_NO_WORK} /\ reply[w] \notin Function
         /\ Fresh => reply[w] = NULL
         /\ reply = [reply EXCEPT ![w] = reply[w]]
BY DEF Flow, Carrying, Values

LEMMA QueuedFinite == IsFiniteSet(Node) /\ IsFiniteSet(Queued) /\ Queued \subseteq Node
<1>1. Queued \subseteq Node
  BY DEF Queued
<1>2. IsFiniteSet(Node)
  BY NodesAssumption, FS_Interval DEF Node
<1> QED
  BY <1>1, <1>2, FS_Subset

\* Once the main program has finalized, nothing is left to be registered.
LEMMA NoneLeft ==
  ASSUME Flow, pending = 0
  PROVE  Queued = {} /\ Held = {} /\ Answer = {}
<1>1. IsFiniteSet(Queued)
  BY QueuedFinite
<1>2. IsFiniteSet(Held) /\ IsFiniteSet(Answer)
  BY DEF Flow, Counting
<1>3. /\ Cardinality(Queued) \in Nat /\ Cardinality(Held) \in Nat /\ Cardinality(Answer) \in Nat
  BY <1>1, <1>2, FS_CardinalityType
<1>4. Cardinality(Queued) + Cardinality(Held) + Cardinality(Answer) = 0
  BY DEF Flow, Counting
<1>5. Cardinality(Queued) = 0 /\ Cardinality(Held) = 0 /\ Cardinality(Answer) = 0
  BY <1>3, <1>4
<1> QED
  BY <1>1, <1>2, <1>5, FS_EmptySet

LEMMA OverMeansNone == ASSUME Flow, Over PROVE pending = 0
BY DEF Flow, Counting, Over, Waiting, Ending

LEMMA NextNode == \A n \in Node : (n + 1) % N \in Node
BY NodesAssumption DEF Node

LEMMA StartSweepFlow ==
  ASSUME Inv, Link, Flow, NEW w \in Worker, StartSweep(w) PROVE Flow'
<1>1. /\ UNCHANGED <<thread_safe, chan, out, tables, flags, calls>> /\ reply' = reply
      /\ Goto(w, "sweep") /\ pc[w] \in {"loop", "waitall"} /\ out[w].left = {}
      /\ victim' = [victim EXCEPT ![w] = (w[1] + 1) % N] /\ internode_stealing[w[1]]
  BY DEF StartSweep, boot, net, Looking, Loop, Quiet
<1>2. w[1] \in Node /\ (w[1] + 1) % N \in Node
  BY Threads, NextNode
<1>3. enabled
  BY <1>1, <1>2 DEF Flow, Switch
<1> QED
  BY <1>1, <1>2, <1>3, NoReply, ToSweepFlow

LEMMA SkipVictimFlow ==
  ASSUME Inv, Link, Flow, NEW w \in Worker, SkipVictim(w) PROVE Flow'
<1>1. /\ UNCHANGED <<thread_safe, chan, out, tables, flags, calls>> /\ reply' = reply
      /\ pc' = pc /\ pc[w] = "sweep"
      /\ victim' = [victim EXCEPT ![w] = (victim[w] + 1) % N]
  BY DEF SkipVictim, boot, net, Flow, Values
<1>2. (victim[w] + 1) % N \in Node
  BY NextNode DEF Flow, Values
<1>3. Goto(w, "sweep")
  BY <1>1 DEF Goto, Inv, Types
<1>4. enabled /\ out[w].left = {}
  BY <1>1 DEF Flow, Switch, Carrying
<1> QED
  BY <1>1, <1>2, <1>3, <1>4, NoReply, ToSweepFlow

LEMMA GotNothingFlow ==
  ASSUME Inv, Link, Flow, NEW w \in Worker, GotNothing(w) PROVE Flow'
<1>1. /\ UNCHANGED <<thread_safe, chan, out, tables, flags, calls>>
      /\ reply' = [reply EXCEPT ![w] = NULL] /\ reply[w] = TORC_NO_WORK
      /\ Goto(w, "sweep") /\ pc[w] = "asked"
      /\ victim' = [victim EXCEPT ![w] = (victim[w] + 1) % N]
  BY DEF GotNothing, boot, net, Flow, Values
<1>2. (victim[w] + 1) % N \in Node
  BY NextNode DEF Flow, Values
<1>3. enabled /\ out[w].left = {}
  BY <1>1 DEF Flow, Switch, Carrying
<1>4. TORC_NO_WORK \notin Function /\ TORC_NO_WORK # NULL
  BY CallsAssumption DEF Function, TORC_NO_WORK
<1> QED
  BY <1>1, <1>2, <1>3, <1>4, ToSweepFlow

LEMMA StopsWaitingFlow ==
  ASSUME Inv, Link, Flow, NEW w \in Worker, StopsWaiting(w) PROVE Flow'
<1>1. /\ UNCHANGED <<thread_safe, chan, out, tables, flags, calls>> /\ reply' = reply
      /\ Goto(w, "sweep") /\ pc[w] = "asked" /\ ~thread_safe /\ appl_finished[w[1]] = 1
      /\ victim' = [victim EXCEPT ![w] = (victim[w] + 1) % N]
  BY DEF StopsWaiting, boot, net, Flow, Values
<1>2. (victim[w] + 1) % N \in Node
  BY NextNode DEF Flow, Values
<1>3. enabled /\ out[w].left = {}
  BY <1>1 DEF Flow, Switch, Carrying
<1>4. Over /\ ~Fresh
  <2>1. w[1] \in Node
    BY Threads
  <2> QED
    BY <1>1, <2>1 DEF Flow, Finish, FinishOf, Told, Fresh
<1>5. reply[w] \notin Function
  BY <1>4, OverMeansNone, NoneLeft DEF Held
<1>6. reply[w] \in {NULL, TORC_NO_WORK} /\ reply' = [reply EXCEPT ![w] = reply[w]]
  BY <1>1, <1>5 DEF Flow, Values
<1> QED
  BY <1>1, <1>2, <1>3, <1>4, <1>5, <1>6, ToSweepFlow

LEMMA WillAskFlow ==
  ASSUME Inv, Link, Flow, NEW w \in Worker, WillAsk(w) PROVE Flow'
<1>1. /\ UNCHANGED <<thread_safe, victim, net, tables, flags, calls>>
      /\ pc[w] = "sweep" /\ Goto(w, "ask") /\ w \in Thread /\ 0 \in Node
  BY Threads DEF WillAsk, boot
<1>2. /\ \A v \in Worker : pc'[v] = IF v = w THEN "ask" ELSE pc[v]
      /\ \A n \in Node : pc'[Server(n)] = pc[Server(n)]
      /\ \A n \in Node : At(n)' \in {"md_end"} \cup Ending => At(n) \in {"md_end"} \cup Ending
      /\ \A n \in Node : At(n) = "join" => At(n)' = "join"
      /\ Over' <=> Over
      /\ w # Main => At(0)' = At(0)
      /\ At(0)' \notin Waiting => At(0) \notin Waiting
  BY <1>1, BusyGoto DEF Busy, Waiting
<1>3. out[w].left = {}
  BY <1>1 DEF Flow, Carrying
<1>4. \A v \in Worker : pc'[v] = pc[v] \/ (pc'[v] \notin (Moves \ {"ask"}) /\ pc[v] = "sweep")
  BY <1>1, <1>2 DEF Moves
<1>5. /\ internode_stealing' = internode_stealing /\ termination_flag' = termination_flag
      /\ appl_finished' = appl_finished
  BY <1>1 DEF flags
<1>6. /\ internode_stealing' \in [Node -> BOOLEAN]
      /\ termination_flag' \in [Node -> 0 .. 1]
      /\ ~enabled => \A n \in Node : ~internode_stealing'[n]
  BY <1>5 DEF Flow, Values, Switch
<1> QED
  BY <1>1, <1>2, <1>3, <1>4, <1>5, <1>6, RestFlow

LEMMA AskForWorkFlow ==
  ASSUME Inv, Link, Flow, NEW w \in Worker, AskForWork(w) PROVE Flow'
<1> PICK b \in Node : b = victim[w]
  BY DEF Flow, Values
<1> DEFINE m == Msg("STEALING_REQUEST", w)
<1>0. /\ thread_safe' = thread_safe /\ reply' = reply /\ victim' = victim
      /\ out' = out /\ queue' = queue /\ task' = task /\ table' = table
      /\ number_of_functions' = number_of_functions /\ pending' = pending
      /\ internode_stealing' = internode_stealing /\ termination_flag' = termination_flag
      /\ appl_finished' = appl_finished /\ registered' = registered /\ enabled' = enabled
      /\ mixed' = mixed /\ resets' = resets /\ reset_count' = reset_count
  BY DEF AskForWork, boot, tables, flags, calls
<1>1. /\ pc[w] = "ask" /\ Goto(w, "asked") /\ Added(w, b, m)
      /\ w \in Thread /\ m \in Message /\ m.type = "STEALING_REQUEST"
      /\ 0 \in Node /\ Channels
  BY Threads, CalmMessages DEF AskForWork, Send, Added, Link, Msg, Channels
<1> HIDE DEF m
<1>2. /\ \A v \in Worker : pc'[v] = IF v = w THEN "asked" ELSE pc[v]
      /\ \A n \in Node : pc'[Server(n)] = pc[Server(n)]
      /\ \A n \in Node : At(n)' \in {"md_end"} \cup Ending => At(n) \in {"md_end"} \cup Ending
      /\ \A n \in Node : At(n) = "join" => At(n)' = "join"
      /\ Over' <=> Over
      /\ w # Main => At(0)' = At(0)
      /\ At(0)' \notin Waiting => At(0) \notin Waiting
  BY <1>1, BusyGoto DEF Busy, Waiting
<1>3. Fresh' <=> Fresh
  BY <1>0, <1>2 DEF Fresh
<1>4. enabled /\ out[w].left = {} /\ task[w] = NULL /\ reply[w] \notin Function
      /\ (Fresh => reply[w] = NULL) /\ (w = Main => ~Over)
  <2>0. pc[w] = "ask"
    BY <1>1
  <2>1. enabled /\ out[w].left = {}
    BY <2>0 DEF Flow, Switch, Carrying
  <2>2. task[w] = NULL
    BY <2>0 DEF Flow, Carrying
  <2>3. w = Main => ~Over
    BY <2>0 DEF Over, Ending, At, Main
  <2> QED
    BY <2>0, <2>1, <2>2, <2>3, NoReply
<1>5. /\ Post(w, b)' = Post(w, b) \cup {m}
      /\ \A s \in Thread, n \in Node : s # w \/ n # b => Post(s, n)' = Post(s, n)
  BY <1>1, PostAdded
<1>6. \A x \in Post(w, b) : x \notin Closing
  <2> SUFFICES ASSUME NEW x \in Post(w, b) PROVE x \notin Closing
    OBVIOUS
  <2>1. Kind(w, b, x)
    BY <1>1 DEF Flow, Letters
  <2>2. x.type # "TERMINATE_WORKERS"
    BY <1>4, <2>1 DEF Kind
  <2>3. x.type # "TERMINATE_LOCAL"
    BY <1>1, <2>1 DEF Kind, At
  <2>4. Fresh => x.type # "STEALING_REQUEST"
    BY <1>1, <2>1 DEF Kind
  <2> QED
    BY <2>2, <2>3, <2>4 DEF Closing
<1>7. Values'
  BY <1>0 DEF Flow, Values
<1>8. Sending'
  BY <1>0, <1>2, <1>4, SendingStill DEF Flow
<1>9. Letters'
  <2>1. KeepsAsks
    BY <1>0, <1>2 DEF KeepsAsks
  <2>2. KeepsEnds
    BY <1>0 DEF KeepsEnds
  <2>3. KeepsStops
    BY <1>2 DEF KeepsStops
  <2>4. pc'[w] = "asked" /\ (Fresh' => reply'[w] = NULL) /\ b = victim'[w] /\ enabled'
    BY <1>0, <1>1, <1>2, <1>3, <1>4
  <2>5. Kind(w, b, m)'
    BY <1>0, <1>1, <2>4 DEF Kind, m
  <2>6. \A s \in Thread, n \in Node : \A x \in Post(s, n)' : x \in Post(s, n) \/ Kind(s, n, x)'
    BY <1>5, <2>5
  <2> QED
    BY <1>0, <1>2, <1>3, <2>1, <2>2, <2>3, <2>6, LettersStep DEF Flow
<1>10. Lasts'
  BY <1>1, <1>3, <1>6, LastsAdded DEF Flow
<1>11. Switch'
  BY <1>0, <1>4 DEF Switch
<1>12. Finish'
  <2>1. \A n \in Node : First(n) \in Thread /\ First(n)[1] = n
    BY Threads DEF First
  <2>2. \A n \in Node : thread_safe /\ N > 1 /\ pc[Server(n)] = "exited" => Post(First(n), n)' = Post(First(n), n)
    <3> SUFFICES ASSUME NEW n \in Node, thread_safe, N > 1, pc[Server(n)] = "exited" PROVE First(n) # w
      BY <1>1, <1>5, <2>1
    <3>1. At(n) \in Gone
      BY DEF Link
    <3> QED
      BY <1>1, <3>1 DEF Gone, At
  <2>3. \A n \in Node : Told(n) => Over
    BY DEF Flow, Finish, FinishOf
  <2>4. \A n \in Node : Told(n) => Post(Main, n)' = Post(Main, n)
    BY <1>4, <1>5, <2>3, Threads
  <2> QED
    BY <1>0, <1>2, <2>2, <2>4, FinishStill DEF Flow
<1>13. Carrying'
  BY <1>0, <1>2, <1>3, <1>4 DEF Flow, Carrying
<1>14. \A n \in Node : /\ Unsent(n)' <=> Unsent(n)
                       /\ Sent(n)' <=> Sent(n)
                       /\ OneWork(chan'[<<Main, n>>])
  BY <1>0, <1>1, WorkAdded DEF Unsent, Says, Flow
<1>15. Placed'
  BY <1>0, <1>14, PlacedStill DEF Flow
<1>16. Queued' = Queued
  BY <1>0, <1>14, QueuedStill
<1>17. Held' = Held
  <2>1. \A v \in Worker : pc'[v] = pc[v] \/ {pc[v], pc'[v]} \cap {"write", "count"} = {}
    BY <1>1, <1>2
  <2> QED
    BY <1>0, <2>1, HeldStill
<1>18. Counting'
  <2>1. IsFiniteSet(Answer') /\ Answer' = Answer
    BY <1>1, AnswerAdded DEF Flow, Counting, Counts
  <2> QED
    BY <1>0, <1>2, <1>16, <1>17, <2>1, CountingStill DEF Flow
<1>19. Agreeing'
  <2>1. \A v \in Held : pc'[v] = "count" => pc[v] = "count"
    BY <1>2 DEF Held
  <2> QED
    BY <1>0, <1>16, <1>17, <2>1, AgreeingStill DEF Flow
<1> QED
  BY <1>7, <1>8, <1>9, <1>10, <1>11, <1>12, <1>13, <1>15, <1>18, <1>19 DEF Flow

\* The worker ends its search, for a while or for good.
LEMMA QuitFlow ==
  ASSUME Inv, Link, Flow, NEW w \in Worker, Quit(w) PROVE Flow'
<1>1. /\ pc[w] \in {"sweep", "loop", "waitall"} /\ out[w].left = {}
      /\ UNCHANGED <<thread_safe, victim, net, tables, termination_flag, appl_finished, calls>>
      /\ internode_stealing' = [internode_stealing EXCEPT ![w[1]] = FALSE]
  BY DEF Quit, Looking, Loop, Quiet, Flow, Carrying
<1>2. PICK to : /\ Goto(w, to)
                /\ \/ to = Loop(w)
                   \/ to \in {"md_end", "exited"} /\ appl_finished[w[1]] = 1
                /\ to = "md_end" <=> w[2] = 0 /\ appl_finished[w[1]] = 1
  BY DEF Quit, Loop
<1>3. /\ w \in Thread /\ w[1] \in Node /\ 0 \in Node /\ Main = First(0) /\ Main[1] = 0
      /\ \A n \in Node : First(n) = w => w[1] = n /\ w[2] = 0
  BY Threads DEF First
<1>4. /\ \A v \in Worker : pc'[v] = IF v = w THEN to ELSE pc[v]
      /\ \A n \in Node : pc'[Server(n)] = pc[Server(n)]
      /\ \A n \in Node : At(n)' = IF First(n) = w THEN to ELSE At(n)
  BY <1>2, WorkerGoto DEF Inv
<1>5. w = Main => to = "waitall"
  <2>1. w = Main => ~Over
    BY <1>1, <1>3 DEF Over, Ending, At
  <2>2. w = Main => appl_finished[w[1]] # 1
    BY <1>3, <2>1 DEF Flow, Finish, FinishOf, Told
  <2> QED
    BY <1>2, <2>2 DEF Loop
<1>6. to \in {"loop", "waitall", "md_end", "exited"}
  BY <1>2 DEF Loop
<1>7. Over' <=> Over
  BY <1>1, <1>3, <1>4, <1>5 DEF Over, Ending, At
<1>8. \A v \in Worker : \/ pc'[v] = pc[v]
                        \/ pc'[v] \notin (Moves \ {"ask"}) /\ pc[v] = "sweep"
                        \/ pc'[v] \notin Moves /\ pc[v] \notin Moves
  BY <1>1, <1>4, <1>6 DEF Moves
<1>9. out[Main].left = {} \/ At(0)' = At(0)
  BY <1>1, <1>3, <1>4
<1>10. At(0)' \notin Waiting => At(0) \notin Waiting \/ pending = 0
  BY <1>3, <1>4, <1>5 DEF Waiting
<1>11. \A n \in Node : At(n)' \in {"md_end"} \cup Ending =>
         At(n) \in {"md_end"} \cup Ending \/ appl_finished[n] = 1
  BY <1>2, <1>3, <1>4, <1>6 DEF Ending
<1>12. \A n \in Node : At(n) = "join" => At(n)' = "join"
  BY <1>1, <1>4 DEF At
<1>13. /\ internode_stealing' \in [Node -> BOOLEAN]
       /\ termination_flag' \in [Node -> 0 .. 1]
       /\ ~enabled => \A n \in Node : ~internode_stealing'[n]
  BY <1>1, <1>3 DEF Flow, Values, Switch
<1> QED
  BY <1>1, <1>4, <1>7, <1>8, <1>9, <1>10, <1>11, <1>12, <1>13, RestFlow

----------------------------------------------------------------------------
(* Workers that register.                                                  *)

\* The answer to a stealing request is a registration.
LEMMA GotTaskFlow ==
  ASSUME Inv, Link, Flow, NEW w \in Worker, GotTask(w) PROVE Flow'
<1>0. /\ thread_safe' = thread_safe /\ chan' = chan
      /\ out' = out /\ queue' = queue /\ table' = table
      /\ number_of_functions' = number_of_functions /\ pending' = pending
      /\ internode_stealing' = internode_stealing /\ termination_flag' = termination_flag
      /\ appl_finished' = appl_finished /\ registered' = registered /\ enabled' = enabled
      /\ mixed' = mixed /\ resets' = resets /\ reset_count' = reset_count
  BY DEF GotTask, boot, flags, calls
<1>1. /\ pc[w] = "asked" /\ reply[w] \in Function /\ Goto(w, "write") /\ 0 \in Node
      /\ task' = [task EXCEPT ![w] = reply[w]] /\ reply' = [reply EXCEPT ![w] = NULL]
      /\ victim' = [victim EXCEPT ![w] = w[1]] /\ w[1] \in Node
  BY Threads DEF GotTask
<1>2. NULL \notin Function
  BY CallsAssumption DEF Function
<1>3. /\ \A v \in Worker : pc'[v] = IF v = w THEN "write" ELSE pc[v]
      /\ \A n \in Node : pc'[Server(n)] = pc[Server(n)]
      /\ \A n \in Node : At(n)' \in {"md_end"} \cup Ending => At(n) \in {"md_end"} \cup Ending
      /\ \A n \in Node : At(n) = "join" => At(n)' = "join"
      /\ Over' <=> Over
      /\ w # Main => At(0)' = At(0)
      /\ At(0)' \notin Waiting => At(0) \notin Waiting
  BY <1>1, BusyGoto DEF Busy, Waiting
<1>4. (Fresh' <=> Fresh) /\ \A s, n : Post(s, n)' = Post(s, n)
  BY <1>0, <1>3 DEF Fresh, Post
<1>5. /\ task'[w] = reply[w] /\ reply'[w] = NULL
      /\ \A v \in Worker : v # w =>
           task'[v] = task[v] /\ reply'[v] = reply[v] /\ victim'[v] = victim[v]
  BY <1>1 DEF Flow, Values
<1>6. enabled /\ out[w].left = {} /\ reply[w] = registered
  BY <1>1 DEF Flow, Switch, Carrying
<1>7. mixed
  <2>1. w \in Held
    BY <1>1 DEF Held
  <2>2. pending # 0
    BY <2>1, NoneLeft
  <2> QED
    BY <1>6, <2>2 DEF Flow, Agreeing
<1>8. Values'
  BY <1>0, <1>1 DEF Flow, Values
<1>9. Sending'
  BY <1>0, <1>3, <1>6, SendingStill DEF Flow
<1>10. Letters'
  <2>1. KeepsAsks
    BY <1>0, <1>1, <1>2, <1>3, <1>5 DEF KeepsAsks
  <2>2. KeepsEnds
    BY <1>0 DEF KeepsEnds
  <2>3. KeepsStops
    BY <1>3 DEF KeepsStops
  <2> QED
    BY <1>0, <1>3, <1>4, <2>1, <2>2, <2>3, LettersStep DEF Flow
<1>11. Lasts'
  BY <1>0, <1>4, LastsStill DEF Flow
<1>12. Switch'
  BY <1>0, <1>6 DEF Switch
<1>13. Finish'
  BY <1>0, <1>3, <1>4, FinishStill DEF Flow
<1>14. Carrying'
  BY <1>0, <1>1, <1>2, <1>3, <1>4, <1>5, <1>6 DEF Flow, Carrying
<1>15. \A n \in Node : (Unsent(n)' <=> Unsent(n)) /\ (Sent(n)' <=> Sent(n))
  BY <1>0 DEF Unsent, Says, Sent, Post
<1>16. Placed'
  BY <1>0, <1>15, PlacedStill DEF Flow, Placed
<1>17. Queued' = Queued
  BY <1>0, <1>15, QueuedStill
<1>18. Held' = Held
  BY <1>1, <1>2, <1>3, <1>5 DEF Held
<1>19. Counting'
  <2>1. Answer' = Answer /\ IsFiniteSet(Answer)
    BY <1>0 DEF Answer, Flow, Counting
  <2> QED
    BY <1>0, <1>3, <1>17, <1>18, <2>1, CountingStill DEF Flow
<1>20. Agreeing'
  BY <1>0, <1>7 DEF Agreeing
<1> QED
  BY <1>8, <1>9, <1>10, <1>11, <1>12, <1>13, <1>14, <1>16, <1>19, <1>20 DEF Flow

\* A registration leaves the queue of its node.
LEMMA TakeTaskFlow ==
  ASSUME Inv, Link, Flow, NEW w \in Worker, NEW f \in Function, TakeTask(w, f) PROVE Flow'
<1> PICK n \in Node : n = w[1]
  BY Threads
<1>0. /\ thread_safe' = thread_safe /\ chan' = chan /\ victim' = victim
      /\ reply' = reply /\ out' = out /\ table' = table
      /\ number_of_functions' = number_of_functions /\ pending' = pending
      /\ internode_stealing' = internode_stealing /\ termination_flag' = termination_flag
      /\ appl_finished' = appl_finished /\ registered' = registered /\ enabled' = enabled
      /\ mixed' = mixed /\ resets' = resets /\ reset_count' = reset_count
  BY DEF TakeTask, boot, net, flags, calls
<1>1. /\ pc[w] \in {"loop", "waitall"} /\ Goto(w, "write") /\ 0 \in Node
      /\ task' = [task EXCEPT ![w] = f] /\ f \in queue[n] /\ out[w].left = {}
      /\ queue' = [queue EXCEPT ![n] = queue[n] \ {f}]
  BY Threads DEF TakeTask, Looking, Loop, Quiet
<1>2. /\ \A v \in Worker : pc'[v] = IF v = w THEN "write" ELSE pc[v]
      /\ \A m \in Node : pc'[Server(m)] = pc[Server(m)]
      /\ \A m \in Node : At(m)' \in {"md_end"} \cup Ending => At(m) \in {"md_end"} \cup Ending
      /\ \A m \in Node : At(m) = "join" => At(m)' = "join"
      /\ Over' <=> Over
      /\ w # Main => At(0)' = At(0)
      /\ At(0)' \notin Waiting => At(0) \notin Waiting
  BY <1>1, BusyGoto DEF Busy, Waiting
<1>3. (Fresh' <=> Fresh) /\ \A s, m : Post(s, m)' = Post(s, m)
  BY <1>0, <1>2 DEF Fresh, Post
<1>4. /\ task'[w] = f /\ \A v \in Worker : v # w => task'[v] = task[v]
      /\ queue \in [Node -> SUBSET Function]
      /\ queue[n] \subseteq {registered}
  BY <1>1 DEF Flow, Values, Placed
<1>5. /\ f = registered /\ queue[n] = {f} /\ queue'[n] = {}
      /\ \A m \in Node : m # n => queue'[m] = queue[m]
  BY <1>1, <1>4
<1>6. Values'
  BY <1>0, <1>1 DEF Flow, Values
<1>7. Sending'
  BY <1>0, <1>1, <1>2, SendingStill DEF Flow
<1>8. Letters'
  <2>1. KeepsAsks
    BY <1>0, <1>1, <1>2 DEF KeepsAsks
  <2>2. KeepsEnds
    BY <1>0 DEF KeepsEnds
  <2>3. KeepsStops
    BY <1>2 DEF KeepsStops
  <2> QED
    BY <1>0, <1>2, <1>3, <2>1, <2>2, <2>3, LettersStep DEF Flow
<1>9. Lasts'
  BY <1>0, <1>3, LastsStill DEF Flow
<1>10. Switch'
  BY <1>0, <1>2 DEF Flow, Switch
<1>11. Finish'
  BY <1>0, <1>2, <1>3, FinishStill DEF Flow
<1>12. Carrying'
  BY <1>0, <1>1, <1>2, <1>3, <1>4, <1>5 DEF Flow, Carrying
<1>13. \A m \in Node : (Unsent(m)' <=> Unsent(m)) /\ (Sent(m)' <=> Sent(m))
  BY <1>0 DEF Unsent, Says, Sent, Post
<1>14. Placed'
  BY <1>0, <1>4, <1>5, <1>13 DEF Flow, Placed
<1>15. n \in Queued /\ Queued' = Queued \ {n}
  <2>1. ~Unsent(n) /\ ~Sent(n)
    BY <1>5 DEF Flow, Placed
  <2> QED
    BY <1>5, <1>13, <2>1 DEF Queued
<1>16. w \notin Held /\ Held' = Held \cup {w}
  BY <1>0, <1>1, <1>2, NoReply DEF Held
<1>17. Counting'
  <2>1. /\ IsFiniteSet(Queued) /\ IsFiniteSet(Held)
        /\ Cardinality(Queued') = Cardinality(Queued) - 1 /\ Cardinality(Queued) \in Nat
        /\ IsFiniteSet(Held') /\ Cardinality(Held') = Cardinality(Held) + 1
        /\ Cardinality(Held) \in Nat
    <3>1. IsFiniteSet(Queued)
      BY QueuedFinite
    <3>2. IsFiniteSet(Held)
      BY DEF Flow, Counting
    <3> QED
      BY <1>15, <1>16, <3>1, <3>2, FS_RemoveElement, FS_AddElement, FS_CardinalityType
  <2>2. Answer' = Answer /\ IsFiniteSet(Answer) /\ Cardinality(Answer) \in Nat
    BY <1>0, FS_CardinalityType DEF Answer, Flow, Counting
  <2>3. /\ pending = Cardinality(Queued) + Cardinality(Held) + Cardinality(Answer) /\ pending <= N
        /\ At(0) \notin Waiting => pending = 0
    BY DEF Flow, Counting
  <2>4. pending' = Cardinality(Queued') + Cardinality(Held') + Cardinality(Answer')
    BY <1>0, <2>1, <2>2, <2>3
  <2> QED
    BY <1>0, <1>2, <2>1, <2>2, <2>3, <2>4 DEF Counting
<1>18. Agreeing'
  <2>1. \A m \in Node : HeldOn(m)' = IF m = n THEN HeldOn(m) \cup {w} ELSE HeldOn(m)
    BY <1>16 DEF HeldOn
  <2>2. \A m \in Node : HeldOn(m) \subseteq Worker /\ w \notin HeldOn(m)
    BY <1>16 DEF HeldOn, Held
  <2>3. ~mixed => HeldOn(n) = {} /\ number_of_functions[n] + 1 = registered
    BY <1>15 DEF Flow, Agreeing
  <2>4. \A m \in Node \ {n} : m \in Queued' <=> m \in Queued
    BY <1>15
  <2>5. n \notin Queued' /\ pc'[w] # "count"
    BY <1>2, <1>15
  <2>6. \A v \in Worker : v # w => pc'[v] = pc[v]
    BY <1>2
  <2> SUFFICES ASSUME ~mixed
               PROVE  /\ enabled => pending = 0
                      /\ \A m \in Node :
                           /\ \A u, v \in HeldOn(m)' : u = v
                           /\ m \in Queued' => HeldOn(m)' = {}
                           /\ number_of_functions[m]
                                + (IF m \in Queued' \/ HeldOn(m)' # {} THEN 1 ELSE 0) = registered
                           /\ \A i \in 1 .. number_of_functions[m] : table[m][i] = i
                           /\ \A v \in HeldOn(m)' : pc'[v] = "count" => table[m][registered] = registered
    BY <1>0 DEF Agreeing
  <2>7. enabled => pending = 0
    BY DEF Flow, Agreeing
  <2>8. ASSUME NEW m \in Node, m # n
        PROVE  /\ \A u, v \in HeldOn(m)' : u = v
               /\ m \in Queued' => HeldOn(m)' = {}
               /\ number_of_functions[m]
                    + (IF m \in Queued' \/ HeldOn(m)' # {} THEN 1 ELSE 0) = registered
               /\ \A i \in 1 .. number_of_functions[m] : table[m][i] = i
               /\ \A v \in HeldOn(m)' : pc'[v] = "count" => table[m][registered] = registered
    <3>1. HeldOn(m)' = HeldOn(m) /\ (m \in Queued' <=> m \in Queued)
      BY <2>1, <2>4, <2>8
    <3>2. \A v \in HeldOn(m) : pc'[v] = pc[v]
      BY <2>2, <2>6
    <3> QED
      BY <3>1, <3>2 DEF Flow, Agreeing
  <2>9. HeldOn(n)' = {w}
    BY <2>1, <2>3
  <2>10. \A i \in 1 .. number_of_functions[n] : table[n][i] = i
    BY DEF Flow, Agreeing
  <2> QED
    BY <2>3, <2>5, <2>7, <2>8, <2>9, <2>10
<1> QED
  BY <1>6, <1>7, <1>8, <1>9, <1>10, <1>11, <1>12, <1>14, <1>17, <1>18 DEF Flow

\* The entry is written where the node's next function goes.
LEMMA WriteTableFlow ==
  ASSUME Inv, Link, Flow, NEW w \in Worker, WriteTable(w) PROVE Flow'
<1> PICK n \in Node : n = w[1]
  BY Threads
<1>0. /\ thread_safe' = thread_safe /\ chan' = chan /\ victim' = victim
      /\ reply' = reply /\ out' = out /\ queue' = queue /\ task' = task
      /\ number_of_functions' = number_of_functions /\ pending' = pending
      /\ internode_stealing' = internode_stealing /\ termination_flag' = termination_flag
      /\ appl_finished' = appl_finished /\ registered' = registered /\ enabled' = enabled
      /\ mixed' = mixed /\ resets' = resets /\ reset_count' = reset_count
  BY DEF WriteTable, boot, net, flags, calls
<1>1. /\ pc[w] = "write" /\ Goto(w, "count") /\ 0 \in Node
      /\ task[w] = registered /\ registered \in Function /\ out[w].left = {}
      /\ table' = [table EXCEPT ![n] =
                     [i \in Function |->
                        IF i = number_of_functions[n] + 1 THEN task[w] ELSE @[i]]]
  BY Threads DEF WriteTable, Flow, Carrying
<1>2. /\ \A v \in Worker : pc'[v] = IF v = w THEN "count" ELSE pc[v]
      /\ \A m \in Node : pc'[Server(m)] = pc[Server(m)]
      /\ \A m \in Node : At(m)' \in {"md_end"} \cup Ending => At(m) \in {"md_end"} \cup Ending
      /\ \A m \in Node : At(m) = "join" => At(m)' = "join"
      /\ Over' <=> Over
      /\ w # Main => At(0)' = At(0)
      /\ At(0)' \notin Waiting => At(0) \notin Waiting
  BY <1>1, BusyGoto DEF Busy, Waiting
<1>3. (Fresh' <=> Fresh) /\ \A s, m : Post(s, m)' = Post(s, m)
  BY <1>0, <1>2 DEF Fresh, Post
<1>4. /\ table \in [Node -> [Function -> Function \cup {NULL}]]
      /\ table' \in [Node -> [Function -> Function \cup {NULL}]]
      /\ \A m \in Node : m # n => table'[m] = table[m]
      /\ \A i \in Function : table'[n][i] = IF i = number_of_functions[n] + 1 THEN registered
                                            ELSE table[n][i]
  <2>1. table \in [Node -> [Function -> Function \cup {NULL}]]
    BY DEF Flow, Values
  <2>2. \A i \in Function : table[n][i] \in Function \cup {NULL}
    BY <2>1
  <2>3. table' = [table EXCEPT ![n] = [i \in Function |->
                    IF i = number_of_functions[n] + 1 THEN registered ELSE table[n][i]]]
    BY <1>1, <2>1
  <2> QED
    BY <1>1, <2>1, <2>2, <2>3
<1>5. Values'
  BY <1>0, <1>4 DEF Flow, Values
<1>6. Sending'
  BY <1>0, <1>1, <1>2, SendingStill DEF Flow
<1>7. Letters'
  <2>1. KeepsAsks
    BY <1>0, <1>1, <1>2 DEF KeepsAsks
  <2>2. KeepsEnds
    BY <1>0 DEF KeepsEnds
  <2>3. KeepsStops
    BY <1>2 DEF KeepsStops
  <2> QED
    BY <1>0, <1>2, <1>3, <2>1, <2>2, <2>3, LettersStep DEF Flow
<1>8. Lasts'
  BY <1>0, <1>3, LastsStill DEF Flow
<1>9. Switch'
  BY <1>0, <1>2 DEF Flow, Switch
<1>10. Finish'
  BY <1>0, <1>2, <1>3, FinishStill DEF Flow
<1>11. Carrying'
  BY <1>0, <1>1, <1>2, <1>3 DEF Flow, Carrying
<1>12. \A m \in Node : (Unsent(m)' <=> Unsent(m)) /\ (Sent(m)' <=> Sent(m))
  BY <1>0 DEF Unsent, Says, Sent, Post
<1>13. Placed'
  BY <1>0, <1>12, PlacedStill DEF Flow, Placed
<1>14. Queued' = Queued
  BY <1>0, <1>12, QueuedStill
<1>15. w \in Held /\ Held' = Held
  BY <1>0, <1>1, <1>2 DEF Held
<1>16. Counting'
  <2>1. Answer' = Answer /\ IsFiniteSet(Answer)
    BY <1>0 DEF Answer, Flow, Counting
  <2> QED
    BY <1>0, <1>2, <1>14, <1>15, <2>1, CountingStill DEF Flow
<1>17. Agreeing'
  <2>1. \A m \in Node : HeldOn(m)' = HeldOn(m)
    BY <1>15 DEF HeldOn
  <2>2. w \in HeldOn(n) /\ \A m \in Node : \A v \in HeldOn(m) : v \in Worker /\ (m # n => v # w)
    BY <1>15 DEF HeldOn, Held
  <2> SUFFICES ASSUME ~mixed
               PROVE  /\ enabled => pending = 0
                      /\ \A m \in Node :
                           /\ \A u, v \in HeldOn(m) : u = v
                           /\ m \in Queued => HeldOn(m) = {}
                           /\ number_of_functions[m]
                                + (IF m \in Queued \/ HeldOn(m) # {} THEN 1 ELSE 0) = registered
                           /\ \A i \in 1 .. number_of_functions[m] : table'[m][i] = i
                           /\ \A v \in HeldOn(m) : pc'[v] = "count" => table'[m][registered] = registered
    BY <1>0, <1>14, <2>1 DEF Agreeing
  <2>3. /\ enabled => pending = 0
        /\ \A m \in Node :
             /\ \A u, v \in HeldOn(m) : u = v
             /\ m \in Queued => HeldOn(m) = {}
             /\ number_of_functions[m]
                  + (IF m \in Queued \/ HeldOn(m) # {} THEN 1 ELSE 0) = registered
             /\ \A i \in 1 .. number_of_functions[m] : table[m][i] = i
             /\ \A v \in HeldOn(m) : pc[v] = "count" => table[m][registered] = registered
    BY DEF Flow, Agreeing
  <2>4. number_of_functions[n] + 1 = registered /\ number_of_functions[n] \in Nat
    BY <2>2, <2>3 DEF Flow, Values
  <2>5. table'[n][registered] = registered
    BY <1>1, <1>4, <2>4
  <2>6. \A i \in 1 .. number_of_functions[n] : table'[n][i] = i
    <3> TAKE i \in 1 .. number_of_functions[n]
    <3>1. i \in Function /\ i # number_of_functions[n] + 1
      BY <1>1, <2>4, CallsAssumption DEF Function
    <3> QED
      BY <1>4, <2>3, <3>1
  <2>7. \A m \in Node : \A i \in 1 .. number_of_functions[m] : table'[m][i] = i
    BY <1>4, <2>3, <2>6
  <2>8. \A m \in Node : \A v \in HeldOn(m) : pc'[v] = "count" => table'[m][registered] = registered
    BY <1>2, <1>4, <2>2, <2>3, <2>5
  <2> QED
    BY <2>3, <2>7, <2>8
<1> QED
  BY <1>5, <1>6, <1>7, <1>8, <1>9, <1>10, <1>11, <1>13, <1>16, <1>17 DEF Flow

\* The entry is counted, and the main program is told.
LEMMA CountFunctionFlow ==
  ASSUME Inv, Link, Flow, NEW w \in Worker, CountFunction(w) PROVE Flow'
<1> PICK n \in Node : n = w[1]
  BY Threads
<1> DEFINE m == Msg("ANSWER", NULL)
           here == n = 0
<1>0. /\ thread_safe' = thread_safe /\ victim' = victim
      /\ reply' = reply /\ out' = out /\ queue' = queue /\ table' = table
      /\ internode_stealing' = internode_stealing /\ termination_flag' = termination_flag
      /\ appl_finished' = appl_finished /\ registered' = registered /\ enabled' = enabled
      /\ mixed' = mixed /\ resets' = resets /\ reset_count' = reset_count
  BY DEF CountFunction, boot, flags, calls
<1>1. /\ pc[w] = "count" /\ Goto(w, Loop(w)) /\ 0 \in Node /\ w \in Thread
      /\ number_of_functions' = [number_of_functions EXCEPT ![n] = @ + 1]
      /\ task' = [task EXCEPT ![w] = NULL]
      /\ here => pending' = pending - 1 /\ chan' = chan
      /\ ~here => pending' = pending /\ Added(w, 0, m)
      /\ m \in Message /\ m.type = "ANSWER" /\ Channels
  BY Threads, CalmMessages DEF CountFunction, Send, Added, Msg, Channels, Link
<1>2. /\ task[w] = registered /\ registered \in Function /\ out[w].left = {}
      /\ reply[w] \notin Function
  BY <1>1, NoReply DEF Flow, Carrying
<1> HIDE DEF m, here
<1>3. /\ \A v \in Worker : pc'[v] = IF v = w THEN Loop(w) ELSE pc[v]
      /\ \A k \in Node : pc'[Server(k)] = pc[Server(k)]
      /\ \A k \in Node : At(k)' \in {"md_end"} \cup Ending => At(k) \in {"md_end"} \cup Ending
      /\ \A k \in Node : At(k) = "join" => At(k)' = "join"
      /\ Over' <=> Over
      /\ w # Main => At(0)' = At(0)
      /\ At(0)' \notin Waiting => At(0) \notin Waiting
  <2>1. Loop(w) \in Busy /\ (w = Main => Loop(w) \in Waiting) /\ pc[w] \in Busy
    BY <1>1 DEF Loop, Busy, Waiting
  <2> QED
    BY <1>1, <2>1, BusyGoto
<1>4. Fresh' <=> Fresh
  BY <1>0, <1>3 DEF Fresh
<1>5. Loop(w) \in {"loop", "waitall"}
  BY DEF Loop
<1>6. NULL \notin Function /\ task'[w] = NULL /\ \A v \in Worker : v # w => task'[v] = task[v]
  BY <1>1, CallsAssumption DEF Function, Flow, Values
<1>7. ~here => /\ w # Main /\ \A k \in Node : First(k) = w => k # 0
               /\ Channels' /\ Post(w, 0)' = Post(w, 0) \cup {m}
               /\ \A s \in Thread, k \in Node : s # w \/ k # 0 => Post(s, k)' = Post(s, k)
  <2>1. ~here => w # Main /\ \A k \in Node : First(k) = w => k # 0
    BY DEF here, Main, First
  <2> QED
    BY <1>1, <2>1, PostAdded
<1>8. here => \A s, k : Post(s, k)' = Post(s, k)
  BY <1>1 DEF Post
<1>9. ~here => \A x \in Post(w, 0) : x \notin Closing
  <2> SUFFICES ASSUME ~here, NEW x \in Post(w, 0) PROVE x \notin Closing
    OBVIOUS
  <2>1. Kind(w, 0, x)
    BY <1>1 DEF Flow, Letters
  <2>2. x.type # "TERMINATE_WORKERS" /\ x.type # "TERMINATE_LOCAL"
    BY <1>1, <1>7, <2>1 DEF Kind
  <2>3. Fresh => x.type # "STEALING_REQUEST"
    BY <1>1, <2>1 DEF Kind
  <2> QED
    BY <2>2, <2>3 DEF Closing
<1>10. Values'
  <2>1. number_of_functions' \in [Node -> Nat] /\ task' \in [Worker -> Function \cup {NULL}]
    BY <1>1 DEF Flow, Values
  <2>2. pending' \in Int
    BY <1>1 DEF Flow, Values
  <2> QED
    BY <1>0, <2>1, <2>2 DEF Flow, Values
<1>11. Sending'
  BY <1>0, <1>2, <1>3, SendingStill DEF Flow
<1>12. Letters'
  <2>1. KeepsAsks
    BY <1>0, <1>1, <1>3 DEF KeepsAsks
  <2>2. KeepsEnds
    BY <1>0 DEF KeepsEnds
  <2>3. KeepsStops
    BY <1>3 DEF KeepsStops
  <2>4. ~here => Kind(w, 0, m)'
    BY <1>1 DEF Kind, here
  <2>5. \A s \in Thread, k \in Node : \A x \in Post(s, k)' : x \in Post(s, k) \/ Kind(s, k, x)'
    BY <1>7, <1>8, <2>4
  <2> QED
    BY <1>0, <1>3, <1>4, <2>1, <2>2, <2>3, <2>5, LettersStep DEF Flow
<1>13. Lasts'
  BY <1>1, <1>4, <1>9, LastsAdded, LastsStill DEF Flow
<1>14. Switch'
  BY <1>0, <1>3, <1>5 DEF Flow, Switch
<1>15. Finish'
  <2>1. \A k \in Node : Post(First(k), k)' = Post(First(k), k)
    BY <1>7, <1>8, Threads
  <2>2. \A k \in Node : k # 0 => Post(Main, k)' = Post(Main, k)
    BY <1>7, <1>8, Threads
  <2> QED
    BY <1>0, <1>3, <2>1, <2>2, FinishStill DEF Flow
<1>16. Carrying'
  BY <1>0, <1>2, <1>3, <1>4, <1>5, <1>6 DEF Flow, Carrying
<1>17. \A k \in Node : /\ Unsent(k)' <=> Unsent(k)
                       /\ Sent(k)' <=> Sent(k)
                       /\ OneWork(chan'[<<Main, k>>])
  <2>1. CASE here
    BY <1>0, <1>1, <2>1 DEF Unsent, Says, Sent, Post, Flow, Placed
  <2>2. CASE ~here
    BY <1>0, <1>1, <2>2, WorkAdded DEF Unsent, Says, Flow
  <2> QED
    BY <2>1, <2>2
<1>18. Placed'
  BY <1>0, <1>17, PlacedStill DEF Flow
<1>19. Queued' = Queued
  BY <1>0, <1>17, QueuedStill
<1>20. w \in Held /\ Held' = Held \ {w}
  BY <1>0, <1>1, <1>2, <1>3, <1>5 DEF Held
<1>21. pending # 0 /\ At(0) \in Waiting /\ At(0)' \in Waiting
  <2>1. pending # 0
    BY <1>20, NoneLeft
  <2> QED
    BY <1>3, <2>1 DEF Flow, Counting
<1>22. Counting'
  <2>1. /\ IsFiniteSet(Held') /\ Cardinality(Held') = Cardinality(Held) - 1
        /\ Cardinality(Held) \in Nat
    <3>1. IsFiniteSet(Held)
      BY DEF Flow, Counting
    <3> QED
      BY <1>20, <3>1, FS_RemoveElement, FS_CardinalityType
  <2>2. IsFiniteSet(Answer) /\ Cardinality(Answer) \in Nat /\ Cardinality(Queued) \in Nat
    BY QueuedFinite, FS_CardinalityType DEF Flow, Counting
  <2>3. /\ IsFiniteSet(Answer')
        /\ Cardinality(Answer') = Cardinality(Answer) + (IF here THEN 0 ELSE 1)
    <3>1. CASE here
      <4>1. Answer' = Answer
        BY <1>1, <3>1 DEF Answer
      <4> QED
        BY <2>2, <3>1, <4>1
    <3>2. CASE ~here
      <4>1. Counts(w, 0, m)
        BY <1>1, <3>2 DEF Counts, here
      <4> QED
        BY <1>1, <2>2, <3>2, <4>1, AnswerAdded
    <3> QED
      BY <3>1, <3>2
  <2>4. /\ pending = Cardinality(Queued) + Cardinality(Held) + Cardinality(Answer) /\ pending <= N
        /\ pending \in Int /\ N \in Nat
    BY NodesAssumption DEF Flow, Counting, Values
  <2>5. pending' = IF here THEN pending - 1 ELSE pending
    BY <1>1
  <2>6. pending' = Cardinality(Queued') + Cardinality(Held') + Cardinality(Answer') /\ pending' <= N
    BY <1>19, <2>1, <2>2, <2>3, <2>4, <2>5
  <2> QED
    BY <1>21, <2>1, <2>3, <2>6 DEF Counting
<1>23. Agreeing'
  <2>1. /\ \A k \in Node : HeldOn(k)' = HeldOn(k) \ {w}
        /\ w \in HeldOn(n) /\ \A k \in Node : \A v \in HeldOn(k) : v \in Worker /\ (k # n => v # w)
    BY <1>20 DEF HeldOn, Held
  <2> SUFFICES ASSUME ~mixed
               PROVE  /\ enabled => pending' = 0
                      /\ \A k \in Node :
                           /\ \A u, v \in HeldOn(k)' : u = v
                           /\ k \in Queued => HeldOn(k)' = {}
                           /\ number_of_functions'[k]
                                + (IF k \in Queued \/ HeldOn(k)' # {} THEN 1 ELSE 0) = registered
                           /\ \A i \in 1 .. number_of_functions'[k] : table[k][i] = i
                           /\ \A v \in HeldOn(k)' : pc'[v] = "count" => table[k][registered] = registered
    BY <1>0, <1>19 DEF Agreeing
  <2>2. /\ enabled => pending = 0
        /\ \A k \in Node :
             /\ \A u, v \in HeldOn(k) : u = v
             /\ k \in Queued => HeldOn(k) = {}
             /\ number_of_functions[k]
                  + (IF k \in Queued \/ HeldOn(k) # {} THEN 1 ELSE 0) = registered
             /\ \A i \in 1 .. number_of_functions[k] : table[k][i] = i
             /\ \A v \in HeldOn(k) : pc[v] = "count" => table[k][registered] = registered
    BY DEF Flow, Agreeing
  <2>3. ~enabled
    BY <1>21, <2>2
  <2>4. \A k \in Node : k # n => number_of_functions'[k] = number_of_functions[k]
    BY <1>1 DEF Flow, Values
  <2>5. number_of_functions'[n] = number_of_functions[n] + 1 /\ number_of_functions[n] \in Nat
    BY <1>1 DEF Flow, Values
  <2>6. ASSUME NEW k \in Node, k # n
        PROVE  /\ \A u, v \in HeldOn(k)' : u = v
               /\ k \in Queued => HeldOn(k)' = {}
               /\ number_of_functions'[k]
                    + (IF k \in Queued \/ HeldOn(k)' # {} THEN 1 ELSE 0) = registered
               /\ \A i \in 1 .. number_of_functions'[k] : table[k][i] = i
               /\ \A v \in HeldOn(k)' : pc'[v] = "count" => table[k][registered] = registered
    <3>1. HeldOn(k)' = HeldOn(k) /\ \A v \in HeldOn(k) : pc'[v] = pc[v]
      BY <1>3, <2>1, <2>6
    <3> QED
      BY <2>2, <2>4, <2>6, <3>1
  <2>7. HeldOn(n)' = {} /\ n \notin Queued
    BY <2>1, <2>2
  <2>8. number_of_functions'[n] = registered
    BY <2>1, <2>2, <2>5
  <2>9. table[n][registered] = registered
    BY <1>1, <2>1, <2>2
  <2>10. \A i \in 1 .. number_of_functions'[n] : table[n][i] = i
    <3> TAKE i \in 1 .. number_of_functions'[n]
    <3>1. i = registered \/ i \in 1 .. number_of_functions[n]
      BY <2>5, <2>8
    <3> QED
      BY <2>2, <2>9, <3>1
  <2>11. registered + 0 = registered
    BY DEF Flow, Values
  <2> QED
    BY <2>3, <2>6, <2>7, <2>8, <2>10, <2>11
<1> QED
  BY <1>10, <1>11, <1>12, <1>13, <1>14, <1>15, <1>16, <1>18, <1>22, <1>23 DEF Flow

----------------------------------------------------------------------------
(* The main program.                                                       *)

\* While the main program makes its calls, nothing is left to be registered.
LEMMA CallsFirst ==
  ASSUME Flow, At(0) = "main"
  PROVE  /\ pending = 0 /\ Queued = {} /\ Held = {} /\ Answer = {}
         /\ ~Over /\ Fresh /\ \A n \in Node : appl_finished[n] # 1 /\ ~Told(n)
<1>1. pending = 0 /\ ~Over
  BY DEF Flow, Counting, Waiting, Over, Ending
<1> QED
  BY <1>1, NoneLeft DEF Fresh, Flow, Finish, FinishOf, Told

\* A call that tells the other nodes something.
LEMMA TellFlow ==
  ASSUME Inv, Link, Flow, At(0) = "main", out[Main].left = {},
         NEW t \in {"ENABLE_STEALING", "RESET_STATISTICS"},
         out' = [out EXCEPT ![Main] = [msg |-> Msg(t, NULL), left |-> Others(0)]],
         UNCHANGED <<pc, victim, thread_safe, chan, reply, tables, appl_finished, registered, mixed>>,
         Values', Switch', enabled => enabled', resets > 0 => resets' > 0,
         t = "ENABLE_STEALING" => enabled', t = "RESET_STATISTICS" => resets' > 0
  PROVE  Flow'
<1>0. /\ pc' = pc /\ victim' = victim /\ thread_safe' = thread_safe /\ chan' = chan
      /\ reply' = reply /\ queue' = queue /\ task' = task /\ table' = table
      /\ number_of_functions' = number_of_functions /\ pending' = pending
      /\ appl_finished' = appl_finished /\ registered' = registered /\ mixed' = mixed
      /\ Main \in Thread /\ Main \in Worker /\ Main[1] = 0 /\ 0 \in Node
  BY Threads DEF tables, Main, First
<1>1. (\A n : At(n)' = At(n)) /\ (Over' <=> Over) /\ (Fresh' <=> Fresh)
      /\ \A s, n : Post(s, n)' = Post(s, n)
  BY <1>0 DEF Fresh, Post, Over, At
<1>2. /\ out'[Main].left = Others(0) /\ out'[Main].msg = Msg(t, NULL) /\ Msg(t, NULL).type = t
      /\ \A s \in Thread : s # Main => out'[s] = out[s]
  BY <1>0 DEF Link, Outs, Msg
<1>3. /\ pending = 0 /\ Queued = {} /\ Held = {} /\ Answer = {}
      /\ ~Over /\ Fresh /\ \A n \in Node : appl_finished[n] # 1 /\ ~Told(n)
  BY CallsFirst
<1>4. Sending'
  <2>1. \A s \in Thread : s # Main =>
          /\ out[s].left \subseteq Others(s[1])
          /\ out[s].left # {} => s \notin Worker /\ Says(s, "RESET_STATISTICS")
          /\ Says(s, "RESET_STATISTICS") => resets' > 0
    BY DEF Flow, Sending
  <2>2. \A s \in Thread : s # Main =>
          /\ out'[s].left \subseteq Others(s[1])
          /\ out'[s].left # {} => s \notin Worker /\ Says(s, "RESET_STATISTICS")'
          /\ Says(s, "RESET_STATISTICS")' => resets' > 0
    BY <1>2, <2>1 DEF Says
  <2>3. /\ out'[Main].left \subseteq Others(Main[1])
        /\ Says(Main, "RESET_STATISTICS")' => resets' > 0
    BY <1>0, <1>2 DEF Says
  <2>4. out'[Main].left # {} =>
          \/ Says(Main, "ENABLE_STEALING")' /\ At(0)' = "main" /\ enabled'
          \/ Says(Main, "RESET_STATISTICS")' /\ At(0)' = "main"
    BY <1>1, <1>2 DEF Says
  <2> QED
    BY <2>2, <2>3, <2>4 DEF Sending
<1>5. Letters'
  <2>1. KeepsAsks
    BY <1>0 DEF KeepsAsks
  <2>2. KeepsEnds
    <3>1. \A n \in Node : \A m \in Post(Main, n) : m.type # "TERMINATE_WORKERS"
      BY <1>0, <1>3 DEF Flow, Letters, Kind
    <3> QED
      BY <3>1 DEF KeepsEnds
  <2>3. KeepsStops
    BY <1>0, <1>1 DEF KeepsStops
  <2> QED
    BY <1>0, <1>1, <2>1, <2>2, <2>3, LettersStep DEF Flow
<1>6. Lasts'
  BY <1>0, <1>1, LastsStill DEF Flow
<1>7. Finish'
  BY <1>0, <1>1, <1>3, FinishStill DEF Flow
<1>8. Carrying'
  <2>1. \A w \in Worker : w # Main => out'[w].left = out[w].left
    BY <1>2, Threads
  <2>2. pc[Main] = "main"
    BY <1>0 DEF At, Main
  <2> QED
    BY <1>0, <1>1, <2>1, <2>2 DEF Flow, Carrying
<1>9. \A n \in Node : ~Unsent(n)' /\ ~Unsent(n) /\ (Sent(n)' <=> Sent(n))
  BY <1>0, <1>2 DEF Unsent, Says, Sent, Post
<1>10. Placed'
  BY <1>0, <1>9, PlacedStill DEF Flow, Placed
<1>11. Queued' = Queued
  BY <1>0, <1>9, QueuedStill
<1>12. Held' = Held
  BY <1>0 DEF Held
<1>13. Counting'
  <2>1. Answer' = Answer /\ IsFiniteSet(Answer)
    BY <1>0 DEF Answer, Flow, Counting
  <2> QED
    BY <1>0, <1>1, <1>11, <1>12, <2>1, CountingStill DEF Flow
<1>14. Agreeing'
  <2>1. \A n : HeldOn(n)' = HeldOn(n) /\ HeldOn(n) = {}
    BY <1>3, <1>12 DEF HeldOn
  <2> QED
    BY <1>0, <1>3, <1>11, <2>1 DEF Flow, Agreeing
<1> QED
  BY <1>4, <1>5, <1>6, <1>7, <1>8, <1>10, <1>13, <1>14 DEF Flow

\* The statistics of a node are reset once more, as far as it is counted.
LEMMA ResetCounted ==
  ASSUME reset_count \in [Node -> 0 .. MaxResets + 1], NEW n \in Node,
         reset_count' = [reset_count EXCEPT ![n] = Min({@ + 1, MaxResets + 1})]
  PROVE  reset_count' \in [Node -> 0 .. MaxResets + 1]
<1> DEFINE S == {reset_count[n] + 1, MaxResets + 1}
<1>1. reset_count[n] \in 0 .. MaxResets + 1 /\ MaxResets \in Nat
  BY CallsAssumption
<1>2. S \in SUBSET Nat /\ S # {} /\ MaxResets + 1 \in S
  BY <1>1
<1> HIDE DEF S
<1>3. Min(S) \in S /\ Min(S) <= MaxResets + 1
  BY <1>2, Minimum
<1>4. Min(S) \in 0 .. MaxResets + 1
  <2>1. Min(S) \in Nat
    BY <1>2, <1>3
  <2>2. \A x \in Nat : x <= MaxResets + 1 => x \in 0 .. MaxResets + 1
    BY <1>1
  <2> QED
    BY <1>3, <2>1, <2>2
<1>5. reset_count' = [reset_count EXCEPT ![n] = Min(S)]
  BY DEF S
<1> QED
  BY <1>4, <1>5

LEMMA EnableStealingFlow == ASSUME Inv, Link, Flow, EnableStealing PROVE Flow'
<1>1. /\ UNCHANGED <<pc, victim, thread_safe, chan, reply, tables, appl_finished, registered, mixed>>
      /\ resets' = resets /\ reset_count' = reset_count /\ termination_flag' = termination_flag
      /\ enabled' = TRUE /\ internode_stealing' = [internode_stealing EXCEPT ![0] = TRUE]
      /\ out' = [out EXCEPT ![Main] = [msg |-> Msg("ENABLE_STEALING", NULL), left |-> Others(0)]]
  BY DEF EnableStealing, boot
<1>2. At(0) = "main" /\ out[Main].left = {}
  BY DEF EnableStealing, MayCall, Calling, Quiet, At, Main
<1>3. Values' /\ Switch'
  BY <1>1 DEF Flow, Values, Switch, tables
<1> QED
  BY <1>1, <1>2, <1>3, TellFlow

LEMMA ResetStatisticsFlow == ASSUME Inv, Link, Flow, ResetStatistics PROVE Flow'
<1>1. /\ UNCHANGED <<pc, victim, thread_safe, chan, reply, tables, appl_finished, registered, mixed>>
      /\ enabled' = enabled /\ termination_flag' = termination_flag
      /\ internode_stealing' = internode_stealing /\ resets' = resets + 1 /\ resets < MaxResets
      /\ reset_count' = [reset_count EXCEPT ![Main[1]] = Min({@ + 1, MaxResets + 1})]
      /\ out' = [out EXCEPT ![Main] = [msg |-> Msg("RESET_STATISTICS", NULL), left |-> Others(Main[1])]]
  BY DEF ResetStatistics, Reset, boot, flags
<1>2. At(0) = "main" /\ out[Main].left = {} /\ Main[1] = 0
  BY DEF ResetStatistics, MayCall, Calling, Quiet, At, Main, First
<1>3. reset_count' \in [Node -> 0 .. MaxResets + 1]
  BY <1>1, <1>2, ResetCounted, Threads DEF Flow, Values
<1>4. resets' \in 0 .. MaxResets /\ resets' > 0
  BY <1>1, CallsAssumption DEF Flow, Values
<1>5. Values' /\ Switch'
  BY <1>1, <1>3, <1>4 DEF Flow, Values, Switch, tables
<1> QED
  BY <1>1, <1>2, <1>4, <1>5, TellFlow

LEMMA FinalizeFlow == ASSUME Inv, Link, Flow, Finalize PROVE Flow'
<1> DEFINE m == Msg("TERMINATE_WORKERS", NULL)
<1>0. /\ victim' = victim /\ thread_safe' = thread_safe /\ chan' = chan
      /\ reply' = reply /\ queue' = queue /\ task' = task /\ table' = table
      /\ number_of_functions' = number_of_functions /\ pending' = pending
      /\ internode_stealing' = internode_stealing /\ termination_flag' = termination_flag
      /\ registered' = registered /\ mixed' = mixed /\ enabled' = enabled
      /\ resets' = resets /\ reset_count' = reset_count
      /\ Main \in Thread /\ Main \in Worker /\ Main[1] = 0 /\ 0 \in Node
  BY Threads DEF Finalize, boot, tables, calls, Main, First
<1>1. /\ At(0) = "main" /\ out[Main].left = {} /\ Goto(Main, "md_end")
      /\ appl_finished' = [appl_finished EXCEPT ![0] = 1]
      /\ out' = [out EXCEPT ![Main] = [msg |-> m, left |-> Others(0)]]
      /\ m.type = "TERMINATE_WORKERS"
  BY DEF Finalize, Calling, Quiet, At, Main, Msg
<1> HIDE DEF m
<1>2. /\ pending = 0 /\ Queued = {} /\ Held = {} /\ Answer = {}
      /\ ~Over /\ Fresh /\ \A n \in Node : appl_finished[n] # 1 /\ ~Told(n)
  BY <1>1, CallsFirst
<1>3. /\ \A v \in Worker : pc'[v] = IF v = Main THEN "md_end" ELSE pc[v]
      /\ \A n \in Node : pc'[Server(n)] = pc[Server(n)]
      /\ \A n \in Node : At(n)' = IF n = 0 THEN "md_end" ELSE At(n)
  <2>1. \A n \in Node : First(n) = Main <=> n = 0
    BY <1>0 DEF Main, First
  <2> QED
    BY <1>0, <1>1, <2>1, WorkerGoto DEF Inv
<1>4. Over' /\ \A s, n : Post(s, n)' = Post(s, n)
  BY <1>0, <1>3 DEF Post, Over
<1>5. /\ out'[Main].left = Others(0) /\ out'[Main].msg = m
      /\ \A s \in Thread : s # Main => out'[s] = out[s]
  BY <1>0, <1>1 DEF Link, Outs
<1>6. /\ appl_finished'[0] = 1 /\ \A n \in Node : n # 0 => appl_finished'[n] = appl_finished[n]
      /\ appl_finished \in [Node -> Nat]
  BY <1>0, <1>1 DEF Flow, Values
<1>7. Values'
  <2>1. appl_finished' \in [Node -> Nat]
    BY <1>1, <1>6
  <2> QED
    BY <1>0, <2>1 DEF Flow, Values
<1>8. Sending'
  <2>1. \A s \in Thread : s # Main =>
          /\ out[s].left \subseteq Others(s[1])
          /\ out[s].left # {} => s \notin Worker /\ Says(s, "RESET_STATISTICS")
          /\ Says(s, "RESET_STATISTICS") => resets > 0
    BY DEF Flow, Sending
  <2>2. \A s \in Thread : s # Main =>
          /\ out'[s].left \subseteq Others(s[1])
          /\ out'[s].left # {} => s \notin Worker /\ Says(s, "RESET_STATISTICS")'
          /\ Says(s, "RESET_STATISTICS")' => resets' > 0
    BY <1>0, <1>5, <2>1 DEF Says
  <2>3. /\ out'[Main].left \subseteq Others(Main[1])
        /\ Says(Main, "RESET_STATISTICS")' => resets' > 0
    BY <1>0, <1>1, <1>5 DEF Says
  <2>4. out'[Main].left # {} => Says(Main, "TERMINATE_WORKERS")' /\ At(0)' = "md_end"
    BY <1>0, <1>1, <1>3, <1>5 DEF Says
  <2> QED
    BY <2>2, <2>3, <2>4 DEF Sending
<1>9. Letters'
  <2>1. KeepsAsks
    <3>1. pc[Main] = "main"
      BY <1>1 DEF At, Main
    <3> QED
      BY <1>0, <1>3, <3>1 DEF KeepsAsks
  <2>2. KeepsEnds
    <3>1. \A n \in Node : \A x \in Post(Main, n) : x.type # "TERMINATE_WORKERS"
      BY <1>0, <1>2 DEF Flow, Letters, Kind
    <3> QED
      BY <3>1 DEF KeepsEnds
  <2>3. KeepsStops
    BY <1>1, <1>3 DEF KeepsStops
  <2> QED
    BY <1>0, <1>2, <1>4, <2>1, <2>2, <2>3, LettersStep DEF Flow
<1>10. Lasts'
  BY <1>0, <1>2, LastsStill DEF Flow
<1>11. Switch'
  BY <1>0, <1>3 DEF Flow, Switch
<1>12. Finish'
  <2> SUFFICES ASSUME NEW n \in Node PROVE FinishOf(n)'
    BY DEF Finish
  <2>1. CASE n = 0
    BY <1>0, <1>3, <1>4, <1>6, <2>1 DEF Flow, Finish, FinishOf, Told
  <2>2. CASE n # 0
    BY <1>0, <1>2, <1>3, <1>4, <1>6, <2>2 DEF Flow, Finish, FinishOf, Told
  <2> QED
    BY <2>1, <2>2
<1>13. Carrying'
  <2>1. \A w \in Worker : w # Main => out'[w].left = out[w].left
    BY <1>5, Threads
  <2>2. pc[Main] = "main"
    BY <1>1 DEF At, Main
  <2> QED
    BY <1>0, <1>2, <1>3, <2>1, <2>2 DEF Flow, Carrying
<1>14. \A n \in Node : ~Unsent(n)' /\ ~Unsent(n) /\ (Sent(n)' <=> Sent(n))
  BY <1>0, <1>1, <1>5 DEF Unsent, Says, Sent, Post
<1>15. Placed'
  BY <1>0, <1>14, PlacedStill DEF Flow, Placed
<1>16. Queued' = Queued
  BY <1>0, <1>14, QueuedStill
<1>17. Held' = Held
  <2>1. pc[Main] = "main"
    BY <1>1 DEF At, Main
  <2> QED
    BY <1>0, <1>3, <2>1 DEF Held
<1>18. Counting'
  <2>1. Answer' = Answer /\ IsFiniteSet(Answer)
    BY <1>0 DEF Answer, Flow, Counting
  <2> QED
    BY <1>0, <1>2, <1>16, <1>17, <2>1, CountingStill DEF Flow
<1>19. Agreeing'
  <2>1. \A n : HeldOn(n)' = HeldOn(n) /\ HeldOn(n) = {}
    BY <1>2, <1>17 DEF HeldOn
  <2> QED
    BY <1>0, <1>2, <1>16, <2>1 DEF Flow, Agreeing
<1> QED
  BY <1>7, <1>8, <1>9, <1>10, <1>11, <1>12, <1>13, <1>15, <1>18, <1>19 DEF Flow

\* The worker that torc_register_task takes for node i is one of node i.
LEMMA TargetIsNode ==
  ASSUME node_info[0] = kthreads, MaxRegistrations > 0, NEW i \in Node
  PROVE  TargetOf(i) = i
<1>1. 0 \in Node /\ i * kthreads[0] \in Nat
  <2>1. 0 \in Node /\ i \in Nat /\ kthreads[0] \in Nat
    BY NodesAssumption, Threads DEF Node
  <2>2. \A a, b \in Nat : a * b \in Nat
    OBVIOUS
  <2> QED
    BY <2>1, <2>2
<1>2. Before(i) <= i * kthreads[0] /\ i * kthreads[0] < Before(i + 1)
  BY RegistrationAssumption DEF Before, SumOver
<1>3. \A m : Offset(0, m) = Before(m)
  BY <1>1, OffsetIsBefore
<1> DEFINE g == i * kthreads[0]
<1> HIDE DEF g
<1>4. Min({m \in Node : g < Before(m + 1)}) = i
  BY <1>1, <1>2, NodeOfNumber DEF g
<1>5. GlobalToNode(0, g) = Min({m \in Node : g < Before(m + 1)})
  BY <1>3 DEF GlobalToNode
<1> QED
  BY <1>4, <1>5 DEF TargetOf, g

\* A registration begins: a task for each node.
LEMMA RegisterTaskFlow == ASSUME Inv, Link, Flow, RegisterTask PROVE Flow'
<1> PICK f : f = registered + 1
  OBVIOUS
<1> DEFINE m == Msg("WORK", f)
<1>0. /\ victim' = victim /\ thread_safe' = thread_safe /\ chan' = chan
      /\ reply' = reply /\ task' = task /\ table' = table
      /\ number_of_functions' = number_of_functions
      /\ internode_stealing' = internode_stealing /\ termination_flag' = termination_flag
      /\ appl_finished' = appl_finished /\ enabled' = enabled
      /\ resets' = resets /\ reset_count' = reset_count
      /\ Main \in Thread /\ Main \in Worker /\ Main[1] = 0 /\ 0 \in Node
  BY Threads DEF RegisterTask, boot, flags, Main, First
<1>1. /\ At(0) = "main" /\ out[Main].left = {} /\ Goto(Main, "waitall")
      /\ registered < MaxRegistrations /\ registered' = f /\ mixed' = (mixed \/ enabled)
      /\ queue' = [queue EXCEPT ![0] = @ \cup {f}] /\ pending' = pending + N
      /\ out' = [out EXCEPT ![Main] = [msg |-> m, left |-> {TargetOf(i) : i \in Others(0)}]]
      /\ m.type = "WORK" /\ m.arg = f
  BY DEF RegisterTask, MayCall, Calling, Quiet, At, Main, Msg
<1> HIDE DEF m
<1>2. /\ pending = 0 /\ Queued = {} /\ Held = {} /\ Answer = {}
      /\ ~Over /\ Fresh /\ \A n \in Node : appl_finished[n] # 1 /\ ~Told(n)
  BY <1>1, CallsFirst
<1>3. /\ \A v \in Worker : pc'[v] = IF v = Main THEN "waitall" ELSE pc[v]
      /\ \A n \in Node : pc'[Server(n)] = pc[Server(n)]
      /\ \A n \in Node : At(n)' = IF n = 0 THEN "waitall" ELSE At(n)
  <2>1. \A n \in Node : First(n) = Main <=> n = 0
    BY <1>0 DEF Main, First
  <2> QED
    BY <1>0, <1>1, <2>1, WorkerGoto DEF Inv
<1>4. ~Over' /\ Fresh' /\ \A s, n : Post(s, n)' = Post(s, n)
  BY <1>0, <1>3 DEF Post, Over, Ending, Fresh
<1>5. {TargetOf(i) : i \in Others(0)} = Others(0)
  <2>1. node_info[0] = kthreads
    BY <1>0, <1>1 DEF Inv, StartedUp, Unfilled, Early
  <2>2. MaxRegistrations > 0
    BY <1>1, CallsAssumption DEF Flow, Values
  <2>3. \A i \in Node : TargetOf(i) = i
    BY <2>1, <2>2, TargetIsNode
  <2> QED
    BY <2>3 DEF Others
<1>6. /\ out'[Main].left = Others(0) /\ out'[Main].msg = m
      /\ \A s \in Thread : s # Main => out'[s] = out[s]
  BY <1>0, <1>1, <1>5 DEF Link, Outs
<1>7. /\ queue \in [Node -> SUBSET Function] /\ f \in Function /\ f \in 0 .. MaxRegistrations
      /\ registered \in Nat /\ pending \in Int /\ N \in Nat \ {0}
  BY <1>1, CallsAssumption, NodesAssumption DEF Flow, Values, Function
<1>8. \A n \in Node : queue[n] = {} /\ ~Sent(n) /\ ~Unsent(n)
  BY <1>2 DEF Queued
<1>9. queue'[0] = {f} /\ \A n \in Node : n # 0 => queue'[n] = {}
  BY <1>0, <1>1, <1>7, <1>8
<1>10. \A w \in Worker : task[w] = NULL /\ reply[w] \notin Function /\ pc[w] \notin {"write", "count"}
  BY <1>2 DEF Held, Flow, Carrying
<1>11. Values'
  <2>1. queue' \in [Node -> SUBSET Function]
    BY <1>0, <1>1, <1>7
  <2>2. pending' \in Int /\ mixed' \in BOOLEAN /\ registered' \in 0 .. MaxRegistrations
    BY <1>1, <1>7 DEF Flow, Values
  <2> QED
    BY <1>0, <2>1, <2>2 DEF Flow, Values
<1>12. Sending'
  <2>1. \A s \in Thread : s # Main =>
          /\ out[s].left \subseteq Others(s[1])
          /\ out[s].left # {} => s \notin Worker /\ Says(s, "RESET_STATISTICS")
          /\ Says(s, "RESET_STATISTICS") => resets > 0
    BY DEF Flow, Sending
  <2>2. \A s \in Thread : s # Main =>
          /\ out'[s].left \subseteq Others(s[1])
          /\ out'[s].left # {} => s \notin Worker /\ Says(s, "RESET_STATISTICS")'
          /\ Says(s, "RESET_STATISTICS")' => resets' > 0
    BY <1>0, <1>6, <2>1 DEF Says
  <2>3. /\ out'[Main].left \subseteq Others(Main[1])
        /\ Says(Main, "RESET_STATISTICS")' => resets' > 0
    BY <1>0, <1>1, <1>6 DEF Says
  <2>4. out'[Main].left # {} =>
          Says(Main, "WORK")' /\ At(0)' = "waitall" /\ out'[Main].msg.arg = registered'
    BY <1>0, <1>1, <1>3, <1>6 DEF Says
  <2> QED
    BY <2>2, <2>3, <2>4 DEF Sending
<1>13. Letters'
  <2>1. KeepsAsks
    <3>1. pc[Main] = "main"
      BY <1>1 DEF At, Main
    <3> QED
      BY <1>0, <1>3, <3>1 DEF KeepsAsks
  <2>2. KeepsEnds
    <3>1. \A n \in Node : \A x \in Post(Main, n) : x.type # "TERMINATE_WORKERS"
      BY <1>0, <1>2 DEF Flow, Letters, Kind
    <3> QED
      BY <3>1 DEF KeepsEnds
  <2>3. KeepsStops
    BY <1>1, <1>3 DEF KeepsStops
  <2> QED
    BY <1>0, <1>2, <1>4, <1>8, <2>1, <2>2, <2>3, LettersStep DEF Flow
<1>14. Lasts'
  BY <1>0, <1>2, LastsStill DEF Flow
<1>15. Switch'
  BY <1>0, <1>3 DEF Flow, Switch
<1>16. Finish'
  BY <1>0, <1>2, <1>3, <1>4 DEF Flow, Finish, FinishOf, Told, Ending
<1>17. Carrying'
  <2>1. \A w \in Worker : w # Main => out'[w].left = out[w].left
    BY <1>6, Threads
  <2>2. pc[Main] = "main"
    BY <1>1 DEF At, Main
  <2> QED
    BY <1>0, <1>2, <1>3, <1>10, <2>1, <2>2 DEF Flow, Carrying
<1>18. \A n \in Node : (Unsent(n)' <=> n # 0) /\ ~Sent(n)'
  BY <1>0, <1>1, <1>4, <1>6, <1>8 DEF Unsent, Says, Sent, Others
<1>19. Placed'
  BY <1>0, <1>1, <1>9, <1>18 DEF Flow, Placed
<1>20. Queued' = Node
  BY <1>0, <1>9, <1>18 DEF Queued
<1>21. Held' = {} /\ Answer' = {}
  <2>1. pc[Main] = "main"
    BY <1>1 DEF At, Main
  <2> QED
    BY <1>0, <1>2, <1>3, <2>1 DEF Held, Answer
<1>22. Counting'
  <2>1. Cardinality(Node) = N
    BY <1>7, FS_Interval DEF Node
  <2>2. Cardinality({}) = 0 /\ IsFiniteSet({})
    BY FS_EmptySet
  <2>3. pending' = N
    BY <1>1, <1>2, <1>7
  <2>4. At(0)' \in Waiting
    BY <1>0, <1>3 DEF Waiting
  <2>5. pending' = Cardinality(Queued') + Cardinality(Held') + Cardinality(Answer')
    BY <1>7, <1>20, <1>21, <2>1, <2>2, <2>3
  <2> QED
    BY <1>7, <1>21, <2>2, <2>3, <2>4, <2>5 DEF Counting
<1>23. Agreeing'
  <2>1. \A n : HeldOn(n)' = {} /\ HeldOn(n) = {}
    BY <1>2, <1>21 DEF HeldOn
  <2> SUFFICES ASSUME ~mixed, ~enabled
               PROVE  \A n \in Node :
                        /\ number_of_functions[n] + 1 = registered'
                        /\ \A i \in 1 .. number_of_functions[n] : table[n][i] = i
    BY <1>0, <1>1, <1>20, <2>1 DEF Agreeing
  <2>2. \A n \in Node : /\ number_of_functions[n] + 0 = registered
                        /\ \A i \in 1 .. number_of_functions[n] : table[n][i] = i
    BY <1>2, <2>1 DEF Flow, Agreeing
  <2>3. \A n \in Node : number_of_functions[n] \in Nat
    BY DEF Flow, Values
  <2> QED
    BY <1>1, <2>2, <2>3
<1> QED
  BY <1>11, <1>12, <1>13, <1>14, <1>15, <1>16, <1>17, <1>19, <1>22, <1>23 DEF Flow

\* The next node is told.
LEMMA SendNextFlow ==
  ASSUME Inv, Link, Flow, NEW s \in Thread, SendNext(s) PROVE Flow'
<1>0. /\ pc' = pc /\ thread_safe' = thread_safe /\ victim' = victim
      /\ reply' = reply /\ queue' = queue /\ task' = task /\ table' = table
      /\ number_of_functions' = number_of_functions /\ pending' = pending
      /\ internode_stealing' = internode_stealing /\ termination_flag' = termination_flag
      /\ appl_finished' = appl_finished /\ registered' = registered /\ enabled' = enabled
      /\ mixed' = mixed /\ resets' = resets /\ reset_count' = reset_count
      /\ 0 \in Node /\ Main \in Thread /\ Main \in Worker /\ Main[1] = 0
  BY Threads DEF SendNext, boot, tables, flags, calls, Main, First
<1>1. out[s].left # {} /\ out[s].left \subseteq Others(s[1]) /\ out[s].msg \in Calm
  BY DEF SendNext, Flow, Sending, Link, Outs
<1> PICK n \in Others(s[1]) : n \in out[s].left /\ n = Min(out[s].left)
  <2>1. out[s].left \in SUBSET Nat
    BY <1>1, NodesAssumption DEF Others, Node
  <2> QED
    BY <1>1, <2>1, Minimum
<1> PICK m \in Message : m = out[s].msg
  BY <1>1 DEF Calm
<1>2. /\ n \in Node /\ n # s[1] /\ Channels /\ Added(s, n, m)
      /\ out'[s].left = out[s].left \ {n} /\ out'[s].msg = m
      /\ \A a \in Thread : a # s => out'[a] = out[a]
  BY DEF SendNext, Send, Added, Link, Outs, Channels, Others
<1>3. (\A k : At(k)' = At(k)) /\ (Over' <=> Over) /\ (Fresh' <=> Fresh)
  BY <1>0 DEF Fresh, Over, At
<1>4. /\ s = Main => \/ m.type = "WORK" /\ At(0) = "waitall" /\ m.arg = registered
                     \/ m.type = "ENABLE_STEALING" /\ At(0) = "main" /\ enabled
                     \/ m.type = "RESET_STATISTICS" /\ At(0) = "main" /\ resets > 0
                     \/ m.type = "TERMINATE_WORKERS" /\ At(0) = "md_end"
      /\ s # Main => s \notin Worker /\ m.type = "RESET_STATISTICS" /\ resets > 0
  BY <1>0, <1>1 DEF Flow, Sending, Says
<1>5. /\ Post(s, n)' = Post(s, n) \cup {m}
      /\ \A a \in Thread, k \in Node : a # s \/ k # n => Post(a, k)' = Post(a, k)
  BY <1>2, PostAdded
<1>6. \A x \in Post(s, n) : x \notin Closing
  <2> SUFFICES ASSUME NEW x \in Post(s, n) PROVE x \notin Closing
    OBVIOUS
  <2>1. Kind(s, n, x)
    BY <1>2 DEF Flow, Letters
  <2>2. x.type # "TERMINATE_WORKERS"
    BY <2>1 DEF Kind
  <2>3. x.type # "TERMINATE_LOCAL"
    BY <1>2, <2>1 DEF Kind, First
  <2>4. Fresh => x.type # "STEALING_REQUEST"
    <3>1. s = Main => pc[s] # "asked"
      BY <1>4 DEF At, Main
    <3> QED
      BY <1>4, <2>1, <3>1 DEF Kind
  <2> QED
    BY <2>2, <2>3, <2>4 DEF Closing
<1>7. Values'
  BY <1>0 DEF Flow, Values
<1>8. Sending'
  <2>1. ASSUME NEW a \in Thread
        PROVE  /\ out'[a].left \subseteq out[a].left /\ out'[a].msg = out[a].msg
               /\ \A t : Says(a, t)' => Says(a, t)
    <3>1. out'[a].left \subseteq out[a].left /\ out'[a].msg = out[a].msg
      BY <1>2
    <3> QED
      BY <3>1 DEF Says
  <2>2. \A a \in Thread : /\ out'[a].left \subseteq Others(a[1])
                          /\ Says(a, "RESET_STATISTICS")' => resets' > 0
    BY <1>0, <2>1 DEF Flow, Sending
  <2>3. \A a \in Thread : out'[a].left # {} =>
          a = Main \/ (a \notin Worker /\ Says(a, "RESET_STATISTICS")')
    <3> SUFFICES ASSUME NEW a \in Thread, out'[a].left # {}, a # Main
                 PROVE  a \notin Worker /\ Says(a, "RESET_STATISTICS")'
      OBVIOUS
    <3>1. out[a].left # {}
      BY <2>1
    <3>2. a \notin Worker /\ out[a].msg.type = "RESET_STATISTICS"
      BY <3>1 DEF Flow, Sending, Says
    <3> QED
      BY <2>1, <3>2 DEF Says
  <2>4. out'[Main].left # {} =>
          \/ Says(Main, "WORK")' /\ At(0)' = "waitall" /\ out'[Main].msg.arg = registered'
          \/ Says(Main, "ENABLE_STEALING")' /\ At(0)' = "main" /\ enabled'
          \/ Says(Main, "RESET_STATISTICS")' /\ At(0)' = "main"
          \/ Says(Main, "TERMINATE_WORKERS")' /\ At(0)' = "md_end"
    <3>1. HAVE out'[Main].left # {}
    <3>2. out[Main].left # {} /\ out'[Main].msg = out[Main].msg
      BY <1>0, <2>1, <3>1
    <3> QED
      BY <1>0, <1>3, <3>1, <3>2 DEF Flow, Sending, Says
  <2> QED
    BY <2>2, <2>3, <2>4 DEF Sending
<1>9. Letters'
  <2>1. KeepsAsks
    BY <1>0 DEF KeepsAsks
  <2>2. KeepsEnds
    BY <1>0, <1>2 DEF KeepsEnds
  <2>3. KeepsStops
    BY <1>0, <1>3 DEF KeepsStops
  <2>4. m.type = "TERMINATE_WORKERS" =>
          s = Main /\ n # 0 /\ Over' /\ appl_finished'[n] = 0 /\ n \notin out'[Main].left
    <3>1. HAVE m.type = "TERMINATE_WORKERS"
    <3>2. s = Main /\ Over' /\ n # 0 /\ n \in out[Main].left
      BY <1>0, <1>2, <1>3, <1>4, <3>1 DEF Over
    <3>3. appl_finished[n] \in 0 .. 1 /\ appl_finished[n] # 1
      BY <1>2, <3>2 DEF Flow, Finish, FinishOf, Told
    <3>4. appl_finished[n] = 0
      BY <3>3
    <3> QED
      BY <1>0, <1>2, <3>2, <3>4
  <2>5. Kind(s, n, m)'
    BY <1>0, <1>2, <1>4, <2>4 DEF Kind
  <2>6. \A a \in Thread, k \in Node : \A x \in Post(a, k)' : x \in Post(a, k) \/ Kind(a, k, x)'
    BY <1>5, <2>5
  <2> QED
    BY <1>0, <1>3, <2>1, <2>2, <2>3, <2>6, LettersStep DEF Flow
<1>10. Lasts'
  BY <1>2, <1>3, <1>6, LastsAdded DEF Flow
<1>11. Switch'
  BY <1>0 DEF Flow, Switch
<1>12. Finish'
  <2>1. \A k \in Node : First(k) \in Thread /\ First(k)[1] = k
    BY Threads DEF First
  <2>2. \A k \in Node : Post(First(k), k)' = Post(First(k), k)
    BY <1>2, <1>5, <2>1
  <2>3. \A k \in Node : k \notin out[Main].left =>
          Post(Main, k)' = Post(Main, k) /\ k \notin out'[Main].left
    BY <1>0, <1>2, <1>5
  <2> QED
    BY <1>0, <1>3, <2>2, <2>3, FinishStill DEF Flow
<1>13. Carrying'
  <2>1. \A w \in Worker : out[w].left = {} => out'[w].left = {}
    BY <1>2, Threads
  <2>2. \A w \in Worker : pc'[w] \in {"sweep", "ask", "asked", "write", "count"} => out'[w].left = {}
    BY <1>0, <2>1 DEF Flow, Carrying
  <2> QED
    BY <1>0, <1>3, <2>2, CarryingStill DEF Flow
<1>14. /\ m.type = "WORK" => Unsent(n) /\ ~Sent(n) /\ ~Unsent(n)' /\ s = Main
       /\ m.type # "WORK" => \A k \in Node : Unsent(k)' <=> Unsent(k)
       /\ \A k \in Node : k # n => (Unsent(k)' <=> Unsent(k))
  <2>1. m.type = "WORK" => Unsent(n) /\ ~Unsent(n)' /\ s = Main
    BY <1>0, <1>2, <1>4 DEF Unsent, Says
  <2>2. m.type = "WORK" => ~Sent(n)
    BY <1>2, <2>1 DEF Flow, Placed
  <2>3. m.type # "WORK" => \A k \in Node : Unsent(k)' <=> Unsent(k)
    BY <1>0, <1>2, <1>4 DEF Unsent, Says
  <2>4. \A k \in Node : k # n => (Unsent(k)' <=> Unsent(k))
    BY <1>0, <1>2 DEF Unsent, Says
  <2> QED
    BY <2>1, <2>2, <2>3, <2>4
<1>15. \A k \in Node : /\ OneWork(chan'[<<Main, k>>])
                       /\ Sent(k)' <=> Sent(k) \/ (k = n /\ m.type = "WORK")
  BY <1>2, <1>14, WorkAdded DEF Flow
<1>16. Placed'
  <2> SUFFICES ASSUME NEW k \in Node
               PROVE  /\ queue[k] \subseteq {registered}
                      /\ Unsent(k)' => queue[k] = {} /\ ~Sent(k)'
                      /\ Sent(k)' => queue[k] = {}
                      /\ OneWork(chan'[<<Main, k>>])
    BY <1>0 DEF Placed
  <2>1. /\ queue[k] \subseteq {registered}
        /\ Unsent(k) => queue[k] = {} /\ ~Sent(k)
        /\ Sent(k) => queue[k] = {}
    BY DEF Flow, Placed
  <2> QED
    BY <1>14, <1>15, <2>1
<1>17. Queued' = Queued
  <2>1. \A k \in Node : Unsent(k)' \/ Sent(k)' <=> Unsent(k) \/ Sent(k)
    BY <1>2, <1>14, <1>15
  <2> QED
    BY <1>0, <2>1, QueuedStill
<1>18. Held' = Held
  BY <1>0 DEF Held
<1>19. Counting'
  <2>1. ~Counts(s, n, m)
    BY <1>4 DEF Counts
  <2>2. IsFiniteSet(Answer') /\ Answer' = Answer
    BY <1>2, <2>1, AnswerAdded DEF Flow, Counting
  <2> QED
    BY <1>0, <1>3, <1>17, <1>18, <2>2, CountingStill DEF Flow
<1>20. Agreeing'
  BY <1>0, <1>17, <1>18, AgreeingStill DEF Flow
<1> QED
  BY <1>7, <1>8, <1>9, <1>10, <1>11, <1>12, <1>13, <1>16, <1>19, <1>20 DEF Flow

----------------------------------------------------------------------------
(* Servers.                                                                *)

LEMMA Accepts ==
  ASSUME Inv, Link, Flow, NEW n \in Node, NEW s \in Thread, NEW t, Accept(n, s, t)
  PROVE  /\ Taken(s, n) /\ Channels /\ Kind(s, n, Head(chan[<<s, n>>]))
         /\ Head(chan[<<s, n>>]) \in Message /\ Head(chan[<<s, n>>]).type = t
         /\ pc[Server(n)] = "serve" /\ out[Server(n)].left = {}
         /\ \A a \in Thread, k \in Node : Post(a, k)' \subseteq Post(a, k)
         /\ \A a \in Thread, k \in Node : a # s \/ k # n => Post(a, k)' = Post(a, k)
<1>1. /\ Taken(s, n) /\ Channels /\ Head(chan[<<s, n>>]).type = t
      /\ pc[Server(n)] = "serve" /\ out[Server(n)].left = {}
  BY DEF Accept, Serving, Quiet, Taken, Channels, Link
<1>2. /\ Head(chan[<<s, n>>]) \in Message /\ Head(chan[<<s, n>>]) \in Post(s, n)
      /\ \A a \in Thread, k \in Node : Post(a, k)' \subseteq Post(a, k)
      /\ \A a \in Thread, k \in Node : a # s \/ k # n => Post(a, k)' = Post(a, k)
  BY <1>1, PostTaken
<1>3. Kind(s, n, Head(chan[<<s, n>>]))
  BY <1>2 DEF Flow, Letters
<1> QED
  BY <1>1, <1>2, <1>3

\* A message that does not concern registrations.
LEMMA RecvFlow ==
  ASSUME Inv, Link, Flow, NEW n \in Node, NEW s \in Thread, Taken(s, n),
         Head(chan[<<s, n>>]).type \notin {"WORK", "ANSWER"},
         UNCHANGED <<victim, thread_safe, reply, tables, registered, enabled, mixed, resets>>,
         \A w \in Worker : pc'[w] = pc[w] /\ out'[w] = out[w],
         Values', Sending', Switch', Finish', KeepsEnds, KeepsStops
  PROVE  Flow'
<1>0. /\ thread_safe' = thread_safe /\ victim' = victim /\ reply' = reply
      /\ queue' = queue /\ task' = task /\ table' = table
      /\ number_of_functions' = number_of_functions /\ pending' = pending
      /\ registered' = registered /\ enabled' = enabled /\ mixed' = mixed /\ resets' = resets
      /\ Channels /\ 0 \in Node /\ Main \in Worker /\ First(0) \in Worker
  BY Threads DEF tables, Link, Channels
<1>1. At(0)' = At(0) /\ (Over' <=> Over) /\ (Fresh' <=> Fresh)
  BY <1>0 DEF Fresh, Over, At
<1>2. \A a \in Thread, k \in Node : Post(a, k)' \subseteq Post(a, k)
  BY <1>0, PostTaken
<1>3. Letters'
  <2>1. KeepsAsks
    BY <1>0 DEF KeepsAsks
  <2> QED
    BY <1>0, <1>1, <1>2, <2>1, LettersStep DEF Flow
<1>4. Lasts'
  BY <1>0, <1>1, LastsTaken DEF Flow
<1>5. Carrying'
  BY <1>0, <1>1, CarryingStill DEF Flow, Carrying
<1>6. \A k \in Node : /\ Unsent(k)' <=> Unsent(k)
                      /\ Sent(k)' <=> Sent(k)
                      /\ OneWork(chan'[<<Main, k>>])
  BY <1>0, WorkTaken DEF Unsent, Says, Flow
<1>7. Placed'
  BY <1>0, <1>6, PlacedStill DEF Flow
<1>8. Queued' = Queued
  BY <1>0, <1>6, QueuedStill
<1>9. Held' = Held
  BY <1>0 DEF Held
<1>10. Counting'
  <2>1. ~Counts(s, n, Head(chan[<<s, n>>]))
    BY DEF Counts
  <2>2. IsFiniteSet(Answer') /\ Cardinality(Answer') = Cardinality(Answer)
    BY <1>0, <2>1, AnswerTaken DEF Flow, Counting
  <2> QED
    BY <1>0, <1>1, <1>8, <1>9, <2>2, CountingStill DEF Flow
<1>11. Agreeing'
  <2>1. \A w \in Held : pc'[w] = "count" => pc[w] = "count"
    BY DEF Held
  <2> QED
    BY <1>0, <1>8, <1>9, <2>1, AgreeingStill DEF Flow
<1> QED
  BY <1>3, <1>4, <1>5, <1>7, <1>10, <1>11 DEF Flow

LEMMA RecvEnableFlow ==
  ASSUME Inv, Link, Flow, NEW n \in Node, NEW s \in Thread, RecvEnable(n, s) PROVE Flow'
<1>1. /\ UNCHANGED <<victim, thread_safe, reply, tables, registered, enabled, mixed, resets>>
      /\ pc' = pc /\ out' = out /\ reset_count' = reset_count
      /\ termination_flag' = termination_flag /\ appl_finished' = appl_finished
      /\ internode_stealing' = [internode_stealing EXCEPT ![n] = TRUE]
  BY DEF RecvEnable, boot, calls
<1>2. /\ Taken(s, n) /\ enabled /\ Head(chan[<<s, n>>]).type \notin {"WORK", "ANSWER"}
      /\ \A a \in Thread, k \in Node : Post(a, k)' \subseteq Post(a, k)
  <2>1. Accept(n, s, "ENABLE_STEALING")
    BY DEF RecvEnable
  <2> QED
    BY <2>1, Accepts DEF Kind
<1>3. (\A k : At(k)' = At(k)) /\ (Over' <=> Over)
  BY <1>1 DEF At, Over
<1>4. Values' /\ Switch'
  BY <1>1, <1>2 DEF Flow, Values, Switch, tables
<1>5. Sending'
  BY <1>1, <1>3, SendingStill DEF Flow
<1>6. Finish'
  BY <1>1, <1>2, <1>3, Threads, FinishStill DEF Flow
<1>7. KeepsEnds /\ KeepsStops
  BY <1>1, <1>3 DEF KeepsEnds, KeepsStops
<1> QED
  BY <1>1, <1>2, <1>4, <1>5, <1>6, <1>7, RecvFlow

\* The server resets the statistics of its node, and tells the other nodes.
LEMMA RecvResetFlow ==
  ASSUME Inv, Link, Flow, NEW n \in Node, NEW s \in Thread, RecvReset(n, s) PROVE Flow'
<1> DEFINE a == Server(n)
<1>0. a \in Thread /\ a \notin Worker /\ a[1] = n /\ Main \in Worker /\ Main \in Thread
  BY ServersApart, Threads
<1>1. /\ UNCHANGED <<victim, thread_safe, reply, tables, registered, enabled, mixed, resets>>
      /\ pc' = pc /\ termination_flag' = termination_flag /\ appl_finished' = appl_finished
      /\ internode_stealing' = internode_stealing
      /\ out' = [out EXCEPT ![a] = [msg |-> Msg("RESET_STATISTICS", NULL), left |-> Others(n)]]
      /\ reset_count' = [reset_count EXCEPT ![n] = Min({@ + 1, MaxResets + 1})]
  BY <1>0 DEF RecvReset, Reset, boot, flags
<1>2. /\ Taken(s, n) /\ resets > 0 /\ Head(chan[<<s, n>>]).type \notin {"WORK", "ANSWER"}
      /\ \A b \in Thread, k \in Node : Post(b, k)' \subseteq Post(b, k)
  <2>1. Accept(n, s, "RESET_STATISTICS")
    BY DEF RecvReset
  <2> QED
    BY <2>1, Accepts DEF Kind
<1>3. (\A k : At(k)' = At(k)) /\ (Over' <=> Over)
  BY <1>1 DEF At, Over
<1> HIDE DEF a
<1>4. /\ out'[a].left = Others(n) /\ out'[a].msg.type = "RESET_STATISTICS"
      /\ \A b \in Thread : b # a => out'[b] = out[b]
  BY <1>0, <1>1 DEF Link, Outs, Msg
<1>5. Values' /\ Switch'
  <2>1. reset_count' \in [Node -> 0 .. MaxResets + 1]
    BY <1>1, ResetCounted DEF Flow, Values
  <2> QED
    BY <1>1, <2>1 DEF Flow, Values, Switch, tables
<1>6. Sending'
  <2>1. Main # a /\ out'[Main] = out[Main]
    BY <1>0, <1>4
  <2>2. ASSUME NEW b \in Thread
        PROVE  /\ out'[b].left \subseteq Others(b[1])
               /\ out'[b].left # {} => b = Main \/ (b \notin Worker /\ Says(b, "RESET_STATISTICS")')
               /\ Says(b, "RESET_STATISTICS")' => resets' > 0
    <3>1. CASE b = a
      BY <1>0, <1>1, <1>2, <1>4, <3>1 DEF Says
    <3>2. CASE b # a
      BY <1>1, <1>4, <3>2 DEF Flow, Sending, Says
    <3> QED
      BY <3>1, <3>2
  <2>3. out'[Main].left # {} =>
          \/ Says(Main, "WORK")' /\ At(0)' = "waitall" /\ out'[Main].msg.arg = registered'
          \/ Says(Main, "ENABLE_STEALING")' /\ At(0)' = "main" /\ enabled'
          \/ Says(Main, "RESET_STATISTICS")' /\ At(0)' = "main"
          \/ Says(Main, "TERMINATE_WORKERS")' /\ At(0)' = "md_end"
    BY <1>1, <1>3, <2>1 DEF Flow, Sending, Says
  <2> QED
    BY <2>2, <2>3 DEF Sending
<1>7. \A w \in Worker : pc'[w] = pc[w] /\ out'[w] = out[w]
  BY <1>0, <1>1, <1>4, Threads
<1>8. Finish'
  BY <1>0, <1>1, <1>2, <1>3, <1>7, Threads, FinishStill DEF Flow
<1>9. KeepsEnds /\ KeepsStops
  BY <1>0, <1>1, <1>3, <1>7 DEF KeepsEnds, KeepsStops
<1> QED
  BY <1>1, <1>2, <1>5, <1>6, <1>7, <1>8, <1>9, RecvFlow

\* The node is told that the application ends: it was the last message of
\* the main program to it.
LEMMA RecvTerminateFlow ==
  ASSUME Inv, Link, Flow, NEW n \in Node, NEW s \in Thread, RecvTerminate(n, s) PROVE Flow'
<1>1. /\ UNCHANGED <<victim, thread_safe, reply, tables, registered, enabled, mixed, resets>>
      /\ Goto(Server(n), "finish") /\ out' = out /\ reset_count' = reset_count
      /\ internode_stealing' = internode_stealing /\ appl_finished' = appl_finished
      /\ termination_flag' = [termination_flag EXCEPT ![n] = 1]
  BY DEF RecvTerminate, boot, calls
<1>2. /\ Taken(s, n) /\ Head(chan[<<s, n>>]).type = "TERMINATE_WORKERS" /\ Channels
      /\ s = Main /\ n # 0 /\ Over /\ appl_finished[n] = 0 /\ n \notin out[Main].left
      /\ Head(chan[<<s, n>>]) \in Message
      /\ \A a \in Thread, k \in Node : Post(a, k)' \subseteq Post(a, k)
  <2>1. Accept(n, s, "TERMINATE_WORKERS")
    BY DEF RecvTerminate
  <2> QED
    BY <2>1, Accepts DEF Kind
<1>3. /\ \A w \in Worker : pc'[w] = pc[w]
      /\ \A k \in Node : At(k)' = At(k)
      /\ \A k \in Node : pc'[Server(k)] = IF k = n THEN "finish" ELSE pc[Server(k)]
  BY <1>1, ServerGoes
<1>4. (Over' <=> Over) /\ (Fresh' <=> Fresh)
  BY <1>1, <1>3, Threads DEF Over, Fresh
<1>5. Post(Main, n)' = {}
  <2>1. Head(chan[<<s, n>>]) \in Closing
    BY <1>2 DEF Closing
  <2> QED
    BY <1>2, <1>4, <2>1, LastsTaken DEF Flow
<1>6. Values' /\ Switch'
  <2>1. termination_flag' \in [Node -> 0 .. 1]
    BY <1>1 DEF Flow, Values
  <2>2. Values'
    BY <1>1, <2>1 DEF Flow, Values, tables
  <2> QED
    BY <1>1, <1>3, <2>2 DEF Flow, Switch
<1>7. Sending'
  BY <1>1, <1>3, Threads, SendingStill DEF Flow
<1>8. Finish'
  <2> SUFFICES ASSUME NEW k \in Node PROVE FinishOf(k)'
    BY DEF Finish
  <2>1. FinishOf(k)
    BY DEF Flow, Finish
  <2>2. Post(First(k), k)' \subseteq Post(First(k), k) /\ Post(Main, k)' \subseteq Post(Main, k)
    BY <1>2, Threads
  <2>3. CASE k = n
    BY <1>1, <1>2, <1>3, <1>4, <1>5, <2>1, <2>2, <2>3 DEF FinishOf, Told
  <2>4. CASE k # n
    BY <1>1, <1>3, <1>4, <2>1, <2>2, <2>4 DEF FinishOf, Told
  <2> QED
    BY <2>3, <2>4
<1>9. KeepsEnds
  BY <1>1 DEF KeepsEnds
<1>10. KeepsStops
  <2>1. At(n) # "join"
    BY <1>2 DEF Flow, Finish, FinishOf, Ending
  <2> QED
    BY <1>3, <2>1 DEF KeepsStops
<1> QED
  BY <1>1, <1>2, <1>3, <1>6, <1>7, <1>8, <1>9, <1>10, RecvFlow

\* ... and then counts it.
LEMMA CountFinishedFlow ==
  ASSUME Inv, Link, Flow, NEW n \in Node, CountFinished(n) PROVE Flow'
<1>1. /\ UNCHANGED <<thread_safe, victim, net, tables, calls>>
      /\ pc[Server(n)] = "finish" /\ Goto(Server(n), "serve")
      /\ internode_stealing' = internode_stealing /\ termination_flag' = termination_flag
      /\ appl_finished' = [appl_finished EXCEPT ![n] = @ + 1]
  BY DEF CountFinished, boot
<1>2. n # 0 /\ appl_finished[n] = 0 /\ Over /\ Post(Main, n) = {}
  BY <1>1 DEF Flow, Finish, FinishOf, Told
<1>3. /\ \A w \in Worker : pc'[w] = pc[w]
      /\ \A k \in Node : At(k)' = At(k)
      /\ \A k \in Node : pc'[Server(k)] = IF k = n THEN "serve" ELSE pc[Server(k)]
  BY <1>1, ServerGoes
<1>4. /\ thread_safe' = thread_safe /\ victim' = victim /\ chan' = chan /\ reply' = reply
      /\ out' = out /\ queue' = queue /\ task' = task /\ table' = table
      /\ number_of_functions' = number_of_functions /\ pending' = pending
      /\ registered' = registered /\ enabled' = enabled
      /\ mixed' = mixed /\ resets' = resets /\ reset_count' = reset_count
      /\ 0 \in Node
  BY <1>1, Threads DEF net, tables, calls
<1>5. /\ (Over' <=> Over) /\ (Fresh' <=> Fresh) /\ \A s, k : Post(s, k)' = Post(s, k)
  BY <1>3, <1>4 DEF Over, Fresh, Post
<1>6. appl_finished'[n] = 1 /\ \A k \in Node : k # n => appl_finished'[k] = appl_finished[k]
  BY <1>1, <1>2 DEF Flow, Values
<1>7. Values'
  BY <1>1, <1>4 DEF Flow, Values
<1>8. Sending'
  BY <1>3, <1>4, SendingStill DEF Flow
<1>9. Letters'
  <2>1. KeepsAsks
    BY <1>3, <1>4 DEF KeepsAsks
  <2>2. KeepsEnds
    BY <1>2, <1>4, <1>6 DEF KeepsEnds
  <2>3. KeepsStops
    BY <1>1, <1>3 DEF KeepsStops
  <2> QED
    BY <1>4, <1>5, <2>1, <2>2, <2>3, LettersStep DEF Flow
<1>10. Lasts'
  BY <1>4, <1>5, LastsStill DEF Flow
<1>11. Switch'
  BY <1>1, <1>3, <1>4 DEF Flow, Switch
<1>12. Finish'
  <2> SUFFICES ASSUME NEW k \in Node PROVE FinishOf(k)'
    BY DEF Finish
  <2>1. FinishOf(k)
    BY DEF Flow, Finish
  <2>2. CASE k = n
    BY <1>1, <1>2, <1>3, <1>4, <1>5, <1>6, <2>1, <2>2 DEF FinishOf, Told
  <2>3. CASE k # n
    BY <1>3, <1>4, <1>5, <1>6, <2>1, <2>3 DEF FinishOf, Told
  <2> QED
    BY <2>2, <2>3
<1>13. Carrying'
  BY <1>3, <1>4, <1>5, CarryingStill DEF Flow, Carrying
<1>14. \A k \in Node : (Unsent(k)' <=> Unsent(k)) /\ (Sent(k)' <=> Sent(k))
  BY <1>4, <1>5 DEF Unsent, Says, Sent
<1>15. Placed'
  BY <1>4, <1>14, PlacedStill DEF Flow, Placed
<1>16. Queued' = Queued
  BY <1>4, <1>14, QueuedStill
<1>17. Held' = Held
  BY <1>3, <1>4, HeldStill
<1>18. Counting'
  <2>1. Answer' = Answer /\ IsFiniteSet(Answer)
    BY <1>4 DEF Answer, Flow, Counting
  <2> QED
    BY <1>3, <1>4, <1>16, <1>17, <2>1, CountingStill DEF Flow
<1>19. Agreeing'
  <2>1. \A w \in Held : pc'[w] = "count" => pc[w] = "count"
    BY <1>3 DEF Held
  <2> QED
    BY <1>4, <1>16, <1>17, <2>1, AgreeingStill DEF Flow
<1> QED
  BY <1>7, <1>8, <1>9, <1>10, <1>11, <1>12, <1>13, <1>15, <1>18, <1>19 DEF Flow

\* The server ends, by the last message of its node's worker 0 to it.
LEMMA RecvTerminateLocalFlow ==
  ASSUME Inv, Link, Flow, NEW n \in Node, NEW s \in Thread, RecvTerminateLocal(n, s) PROVE Flow'
<1>1. /\ UNCHANGED <<victim, thread_safe, reply, tables, registered, enabled, mixed, resets>>
      /\ Goto(Server(n), "exited") /\ out' = out /\ reset_count' = reset_count
      /\ internode_stealing' = internode_stealing
      /\ termination_flag' = termination_flag /\ appl_finished' = appl_finished
  BY DEF RecvTerminateLocal, boot, calls, flags
<1>2. /\ Taken(s, n) /\ Head(chan[<<s, n>>]).type = "TERMINATE_LOCAL" /\ Channels
      /\ s = First(n) /\ Head(chan[<<s, n>>]) \in Message
      /\ \A a \in Thread, k \in Node : Post(a, k)' \subseteq Post(a, k)
  <2>1. Accept(n, s, "TERMINATE_LOCAL")
    BY DEF RecvTerminateLocal
  <2> QED
    BY <2>1, Accepts DEF Kind
<1>3. /\ \A w \in Worker : pc'[w] = pc[w]
      /\ \A k \in Node : At(k)' = At(k)
      /\ \A k \in Node : pc'[Server(k)] = IF k = n THEN "exited" ELSE pc[Server(k)]
  BY <1>1, ServerGoes
<1>4. (Over' <=> Over) /\ (Fresh' <=> Fresh)
  BY <1>1, <1>3, Threads DEF Over, Fresh
<1>5. Post(First(n), n)' = {}
  <2>1. Head(chan[<<s, n>>]) \in Closing
    BY <1>2 DEF Closing
  <2> QED
    BY <1>2, <1>4, <2>1, LastsTaken DEF Flow
<1>6. Values' /\ Switch'
  BY <1>1, <1>3 DEF Flow, Values, Switch, tables
<1>7. Sending'
  BY <1>1, <1>3, Threads, SendingStill DEF Flow
<1>8. Finish'
  <2> SUFFICES ASSUME NEW k \in Node PROVE FinishOf(k)'
    BY DEF Finish
  <2>1. FinishOf(k)
    BY DEF Flow, Finish
  <2>2. Post(First(k), k)' \subseteq Post(First(k), k) /\ Post(Main, k)' \subseteq Post(Main, k)
    BY <1>2, Threads
  <2> QED
    BY <1>1, <1>3, <1>4, <1>5, <2>1, <2>2 DEF FinishOf, Told
<1>9. KeepsEnds /\ KeepsStops
  BY <1>1, <1>3, <1>5 DEF KeepsEnds, KeepsStops
<1> QED
  BY <1>1, <1>2, <1>3, <1>6, <1>7, <1>8, <1>9, RecvFlow

\* A registration comes into the queue of its node.
LEMMA RecvWorkFlow ==
  ASSUME Inv, Link, Flow, NEW n \in Node, NEW s \in Thread, RecvWork(n, s) PROVE Flow'
<1> PICK m : m = Head(chan[<<s, n>>])
  OBVIOUS
<1>0. /\ pc' = pc /\ thread_safe' = thread_safe /\ victim' = victim
      /\ reply' = reply /\ out' = out /\ task' = task /\ table' = table
      /\ number_of_functions' = number_of_functions /\ pending' = pending
      /\ internode_stealing' = internode_stealing /\ termination_flag' = termination_flag
      /\ appl_finished' = appl_finished /\ registered' = registered /\ enabled' = enabled
      /\ mixed' = mixed /\ resets' = resets /\ reset_count' = reset_count
      /\ queue' = [queue EXCEPT ![n] = queue[n] \cup {m.arg}]
  BY DEF RecvWork, boot, flags, calls
<1>1. /\ Taken(s, n) /\ Channels /\ m \in Message /\ m.type = "WORK"
      /\ s = Main /\ m.arg = registered
      /\ \A a \in Thread, k \in Node : Post(a, k)' \subseteq Post(a, k)
  <2>1. Accept(n, s, "WORK")
    BY DEF RecvWork
  <2> QED
    BY <2>1, Accepts DEF Kind
<1>2. (\A k : At(k)' = At(k)) /\ (Over' <=> Over) /\ (Fresh' <=> Fresh)
  BY <1>0 DEF Fresh, Over, At
<1>3. m.arg \in Function
  BY <1>1 DEF Message
<1>4. /\ \A k \in Node : OneWork(chan'[<<Main, k>>])
      /\ Sent(n) /\ ~Sent(n)' /\ \A k \in Node : k # n => (Sent(k)' <=> Sent(k))
      /\ \A k \in Node : Unsent(k)' <=> Unsent(k)
  BY <1>0, <1>1, WorkTaken DEF Flow, Unsent, Says
<1>5. queue[n] = {} /\ ~Unsent(n)
  BY <1>4 DEF Flow, Placed
<1>6. queue'[n] = {registered} /\ \A k \in Node : k # n => queue'[k] = queue[k]
  BY <1>0, <1>1, <1>5 DEF Flow, Values
<1>7. Values'
  <2>1. queue' \in [Node -> SUBSET Function]
    BY <1>0, <1>3 DEF Flow, Values
  <2> QED
    BY <1>0, <2>1 DEF Flow, Values
<1>8. Sending'
  BY <1>0, <1>2, SendingStill DEF Flow
<1>9. Letters'
  <2>1. KeepsAsks /\ KeepsEnds /\ KeepsStops
    BY <1>0, <1>2 DEF KeepsAsks, KeepsEnds, KeepsStops
  <2> QED
    BY <1>0, <1>1, <1>2, <2>1, LettersStep DEF Flow
<1>10. Lasts'
  BY <1>1, <1>2, LastsTaken DEF Flow
<1>11. Switch'
  BY <1>0 DEF Flow, Switch
<1>12. Finish'
  BY <1>0, <1>1, <1>2, Threads, FinishStill DEF Flow
<1>13. Carrying'
  BY <1>0, <1>2, CarryingStill DEF Flow, Carrying
<1>14. Placed'
  <2> SUFFICES ASSUME NEW k \in Node
               PROVE  /\ queue'[k] \subseteq {registered}
                      /\ Unsent(k)' => queue'[k] = {} /\ ~Sent(k)'
                      /\ Sent(k)' => queue'[k] = {}
                      /\ OneWork(chan'[<<Main, k>>])
    BY <1>0 DEF Placed
  <2>1. CASE k = n
    BY <1>4, <1>5, <1>6, <2>1
  <2>2. CASE k # n
    BY <1>4, <1>6, <2>2 DEF Flow, Placed
  <2> QED
    BY <2>1, <2>2
<1>15. Queued' = Queued
  BY <1>4, <1>5, <1>6 DEF Queued
<1>16. Held' = Held
  BY <1>0 DEF Held
<1>17. Counting'
  <2>1. IsFiniteSet(Answer') /\ Cardinality(Answer') = Cardinality(Answer)
    BY <1>1, AnswerTaken DEF Flow, Counting, Counts
  <2> QED
    BY <1>0, <1>2, <1>15, <1>16, <2>1, CountingStill DEF Flow
<1>18. Agreeing'
  BY <1>0, <1>15, <1>16, AgreeingStill DEF Flow
<1> QED
  BY <1>7, <1>8, <1>9, <1>10, <1>11, <1>12, <1>13, <1>14, <1>17, <1>18 DEF Flow

\* An answer comes to the main program's node.
LEMMA RecvAnswerFlow ==
  ASSUME Inv, Link, Flow, NEW n \in Node, NEW s \in Thread, RecvAnswer(n, s) PROVE Flow'
<1> PICK m : m = Head(chan[<<s, n>>])
  OBVIOUS
<1>0. /\ pc' = pc /\ thread_safe' = thread_safe /\ victim' = victim
      /\ reply' = reply /\ out' = out /\ task' = task /\ table' = table /\ queue' = queue
      /\ number_of_functions' = number_of_functions /\ pending' = pending - 1
      /\ internode_stealing' = internode_stealing /\ termination_flag' = termination_flag
      /\ appl_finished' = appl_finished /\ registered' = registered /\ enabled' = enabled
      /\ mixed' = mixed /\ resets' = resets /\ reset_count' = reset_count
  BY DEF RecvAnswer, boot, flags, calls
<1>1. /\ Taken(s, n) /\ Channels /\ m.type = "ANSWER" /\ Counts(s, n, m)
      /\ \A a \in Thread, k \in Node : Post(a, k)' \subseteq Post(a, k)
  <2>1. Accept(n, s, "ANSWER")
    BY DEF RecvAnswer
  <2> QED
    BY <2>1, Accepts DEF Kind, Counts
<1>2. (\A k : At(k)' = At(k)) /\ (Over' <=> Over) /\ (Fresh' <=> Fresh)
  BY <1>0 DEF Fresh, Over, At
<1>3. \A k \in Node : /\ OneWork(chan'[<<Main, k>>])
                      /\ Sent(k)' <=> Sent(k)
                      /\ Unsent(k)' <=> Unsent(k)
  BY <1>0, <1>1, WorkTaken DEF Flow, Unsent, Says
<1>4. Values'
  BY <1>0 DEF Flow, Values
<1>5. Sending'
  BY <1>0, <1>2, SendingStill DEF Flow
<1>6. Letters'
  <2>1. KeepsAsks /\ KeepsEnds /\ KeepsStops
    BY <1>0, <1>2 DEF KeepsAsks, KeepsEnds, KeepsStops
  <2> QED
    BY <1>0, <1>1, <1>2, <2>1, LettersStep DEF Flow
<1>7. Lasts'
  BY <1>1, <1>2, LastsTaken DEF Flow
<1>8. Switch'
  BY <1>0 DEF Flow, Switch
<1>9. Finish'
  BY <1>0, <1>1, <1>2, Threads, FinishStill DEF Flow
<1>10. Carrying'
  BY <1>0, <1>2, CarryingStill DEF Flow, Carrying
<1>11. Placed'
  BY <1>0, <1>3, PlacedStill DEF Flow
<1>12. Queued' = Queued
  BY <1>0, <1>3, QueuedStill
<1>13. Held' = Held
  BY <1>0 DEF Held
<1>14. /\ IsFiniteSet(Answer') /\ Cardinality(Answer) = Cardinality(Answer') + 1
       /\ IsFiniteSet(Answer) /\ IsFiniteSet(Held) /\ IsFiniteSet(Queued)
  BY <1>1, AnswerTaken, QueuedFinite DEF Flow, Counting
<1>15. /\ Cardinality(Answer') \in Nat /\ Cardinality(Held) \in Nat /\ Cardinality(Queued) \in Nat
  BY <1>14, FS_CardinalityType
<1>16. /\ pending = Cardinality(Queued) + Cardinality(Held) + Cardinality(Answer) /\ pending <= N
       /\ At(0) \notin Waiting => pending = 0
       /\ N \in Nat
  BY NodesAssumption DEF Flow, Counting
<1>17. pending # 0
  BY <1>14, <1>15, <1>16
<1>18. Counting'
  <2>1. pending' = Cardinality(Queued') + Cardinality(Held') + Cardinality(Answer') /\ pending' <= N
    BY <1>0, <1>12, <1>13, <1>14, <1>15, <1>16
  <2> QED
    BY <1>2, <1>13, <1>14, <1>16, <1>17, <2>1 DEF Counting
<1>19. Agreeing'
  <2>1. \A k : HeldOn(k)' = HeldOn(k)
    BY <1>13 DEF HeldOn
  <2>2. ~mixed => ~enabled
    BY <1>17 DEF Flow, Agreeing
  <2> QED
    BY <1>0, <1>12, <2>1, <2>2 DEF Flow, Agreeing
<1> QED
  BY <1>4, <1>5, <1>6, <1>7, <1>8, <1>9, <1>10, <1>11, <1>18, <1>19 DEF Flow

\* A thief is answered: its request was its last message to this server.
LEMMA ServeThiefFlow ==
  ASSUME Inv, Link, Flow, NEW n \in Node, NEW s \in Thread, ServeThief(n, s) PROVE Flow'
<1> PICK m : m = Head(chan[<<s, n>>])
  OBVIOUS
<1>0. /\ pc' = pc /\ thread_safe' = thread_safe /\ victim' = victim
      /\ out' = out /\ task' = task /\ table' = table
      /\ number_of_functions' = number_of_functions /\ pending' = pending
      /\ internode_stealing' = internode_stealing /\ termination_flag' = termination_flag
      /\ appl_finished' = appl_finished /\ registered' = registered /\ enabled' = enabled
      /\ mixed' = mixed /\ resets' = resets /\ reset_count' = reset_count
  BY DEF ServeThief, boot, flags, calls
<1>1. /\ Taken(s, n) /\ Channels /\ m \in Message /\ m.type = "STEALING_REQUEST"
      /\ s \in Worker /\ enabled /\ (Fresh => n = victim[s] /\ pc[s] = "asked" /\ reply[s] = NULL)
      /\ \A a \in Thread, k \in Node : Post(a, k)' \subseteq Post(a, k)
      /\ \A a \in Thread, k \in Node : a # s \/ k # n => Post(a, k)' = Post(a, k)
  <2>1. Accept(n, s, "STEALING_REQUEST")
    BY DEF ServeThief
  <2> QED
    BY <2>1, Accepts DEF Kind
<1>2. (\A k : At(k)' = At(k)) /\ (Over' <=> Over) /\ (Fresh' <=> Fresh)
  BY <1>0 DEF Fresh, Over, At
<1>3. /\ TORC_NO_WORK \notin Function /\ NULL \notin Function
      /\ queue \in [Node -> SUBSET Function] /\ queue[n] \subseteq {registered}
  <2>1. TORC_NO_WORK \notin Function /\ NULL \notin Function
    BY CallsAssumption DEF Function, TORC_NO_WORK
  <2>2. queue \in [Node -> SUBSET Function] /\ queue[n] \subseteq {registered}
    BY DEF Flow, Values, Placed
  <2> QED
    BY <2>1, <2>2
<1>4. PICK r \in {TORC_NO_WORK} \cup Function :
        /\ reply' = [reply EXCEPT ![s] = r]
        /\ \/ r \in queue[n] /\ queue' = [queue EXCEPT ![n] = queue[n] \ {r}]
           \/ r = TORC_NO_WORK /\ queue' = queue
  <2>1. CASE \E f \in queue[n] : /\ reply' = [reply EXCEPT ![s] = f]
                                 /\ queue' = [queue EXCEPT ![n] = @ \ {f}]
    <3>1. PICK f \in queue[n] : /\ reply' = [reply EXCEPT ![s] = f]
                                /\ queue' = [queue EXCEPT ![n] = @ \ {f}]
      BY <2>1
    <3>2. f \in Function
      BY <1>3
    <3> QED
      BY <3>1, <3>2
  <2>2. CASE reply' = [reply EXCEPT ![s] = TORC_NO_WORK] /\ queue' = queue
    BY <2>2
  <2> QED
    BY <2>1, <2>2 DEF ServeThief
<1>5. /\ reply'[s] = r /\ \A w \in Worker : w # s => reply'[w] = reply[w]
  BY <1>1, <1>4 DEF Flow, Values
<1>6. Fresh => Post(s, n)' = {}
  <2>1. Fresh => m \in Closing
    BY <1>1 DEF Closing
  <2> QED
    BY <1>1, <1>2, <2>1, LastsTaken DEF Flow
<1>7. reply[s] \notin Function
  <2>1. Fresh => reply[s] \notin Function
    BY <1>1, <1>3
  <2>2. ~Fresh => Held = {}
    BY OverMeansNone, NoneLeft DEF Fresh
  <2> QED
    BY <1>1, <2>1, <2>2 DEF Held
<1>8. r \in Function => /\ r = registered /\ queue[n] = {r} /\ queue'[n] = {}
                        /\ \A k \in Node : k # n => queue'[k] = queue[k]
                        /\ n \in Queued /\ pending # 0 /\ Fresh
  <2>1. HAVE r \in Function
  <2>2. r \in queue[n] /\ queue' = [queue EXCEPT ![n] = queue[n] \ {r}]
    BY <1>4, <1>3, <2>1
  <2>3. r = registered /\ queue[n] = {r}
    BY <1>3, <2>2
  <2>4. queue'[n] = {} /\ \A k \in Node : k # n => queue'[k] = queue[k]
    BY <1>3, <2>2, <2>3
  <2>5. n \in Queued
    BY <2>3 DEF Queued
  <2>6. pending # 0
    BY <2>5, NoneLeft
  <2>7. Fresh
    BY <2>6, OverMeansNone DEF Fresh
  <2> QED
    BY <2>3, <2>4, <2>5, <2>6, <2>7
<1>9. r \notin Function => queue' = queue
  BY <1>4, <1>3
<1>10. \A k \in Node : /\ OneWork(chan'[<<Main, k>>])
                       /\ Sent(k)' <=> Sent(k)
                       /\ Unsent(k)' <=> Unsent(k)
  BY <1>0, <1>1, WorkTaken DEF Flow, Unsent, Says
<1>11. Values'
  <2>1. reply' \in [Worker -> {NULL, TORC_NO_WORK} \cup Function]
    BY <1>1, <1>4 DEF Flow, Values
  <2>2. queue' \in [Node -> SUBSET Function]
    BY <1>4, <1>3
  <2> QED
    BY <1>0, <2>1, <2>2 DEF Flow, Values
<1>12. Sending'
  BY <1>0, <1>2, SendingStill DEF Flow
<1>13. Letters'
  <2>1. KeepsAsks
    <3> SUFFICES ASSUME NEW w \in Worker, NEW k \in Node, NEW x \in Post(w, k), x \in Post(w, k)',
                        Fresh, k = victim[w]
                 PROVE  reply'[w] = reply[w]
      BY <1>0 DEF KeepsAsks
    <3>1. w # s
      BY <1>1, <1>6
    <3> QED
      BY <1>5, <3>1
  <2>2. KeepsEnds /\ KeepsStops
    BY <1>0, <1>2 DEF KeepsEnds, KeepsStops
  <2> QED
    BY <1>0, <1>1, <1>2, <2>1, <2>2, LettersStep DEF Flow
<1>14. Lasts'
  BY <1>1, <1>2, LastsTaken DEF Flow
<1>15. Switch'
  BY <1>0, <1>1 DEF Switch
<1>16. Finish'
  BY <1>0, <1>1, <1>2, Threads, FinishStill DEF Flow
<1>17. Carrying'
  BY <1>0, <1>1, <1>2, <1>5, <1>8 DEF Flow, Carrying
<1>18. Placed'
  <2> SUFFICES ASSUME NEW k \in Node
               PROVE  /\ queue'[k] \subseteq {registered}
                      /\ Unsent(k)' => queue'[k] = {} /\ ~Sent(k)'
                      /\ Sent(k)' => queue'[k] = {}
                      /\ OneWork(chan'[<<Main, k>>])
    BY <1>0 DEF Placed
  <2>1. queue'[k] \subseteq queue[k]
    BY <1>8, <1>9
  <2> QED
    BY <1>10, <2>1 DEF Flow, Placed
<1>19. Counting'
  <2>1. IsFiniteSet(Answer') /\ Cardinality(Answer') = Cardinality(Answer)
    BY <1>1, AnswerTaken DEF Flow, Counting, Counts
  <2>2. CASE r \notin Function
    <3>1. Queued' = Queued
      BY <1>9, <1>10, <2>2, QueuedStill
    <3>2. Held' = Held
      BY <1>0, <1>5, <1>7, <2>2 DEF Held
    <3> QED
      BY <1>0, <1>2, <2>1, <3>1, <3>2, CountingStill DEF Flow
  <2>3. CASE r \in Function
    <3>1. Queued' = Queued \ {n} /\ n \in Queued
      <4>1. ~Unsent(n) /\ ~Sent(n)
        BY <1>8, <2>3 DEF Flow, Placed
      <4> QED
        BY <1>8, <1>10, <2>3, <4>1 DEF Queued
    <3>2. s \notin Held /\ Held' = Held \cup {s}
      BY <1>0, <1>1, <1>5, <1>7, <1>8, <2>3 DEF Held
    <3>3. IsFiniteSet(Queued) /\ IsFiniteSet(Held) /\ IsFiniteSet(Answer)
      BY QueuedFinite DEF Flow, Counting
    <3>4. /\ Cardinality(Queued) \in Nat /\ Cardinality(Held) \in Nat /\ Cardinality(Answer) \in Nat
          /\ Cardinality(Queued') = Cardinality(Queued) - 1
          /\ IsFiniteSet(Held') /\ Cardinality(Held') = Cardinality(Held) + 1
      BY <3>1, <3>2, <3>3, FS_RemoveElement, FS_AddElement, FS_CardinalityType
    <3>5. /\ pending = Cardinality(Queued) + Cardinality(Held) + Cardinality(Answer)
          /\ pending <= N /\ (At(0) \notin Waiting => pending = 0)
      BY DEF Flow, Counting
    <3>6. pending' = Cardinality(Queued') + Cardinality(Held') + Cardinality(Answer')
      BY <1>0, <2>1, <3>4, <3>5
    <3> QED
      BY <1>0, <1>2, <2>1, <3>4, <3>5, <3>6 DEF Counting
  <2> QED
    BY <2>2, <2>3
<1>20. Agreeing'
  <2>1. CASE r \notin Function
    <3>1. Queued' = Queued
      BY <1>9, <1>10, <2>1, QueuedStill
    <3>2. Held' = Held
      BY <1>0, <1>5, <1>7, <2>1 DEF Held
    <3> QED
      BY <1>0, <3>1, <3>2, AgreeingStill DEF Flow
  <2>2. CASE r \in Function
    <3>1. mixed
      BY <1>1, <1>8, <2>2 DEF Flow, Agreeing
    <3> QED
      BY <1>0, <3>1 DEF Agreeing
  <2> QED
    BY <2>1, <2>2
<1> QED
  BY <1>11, <1>12, <1>13, <1>14, <1>15, <1>16, <1>17, <1>18, <1>19, <1>20 DEF Flow

----------------------------------------------------------------------------
(* The way to MPI_Finalize.                                                *)

\* Worker 0 ends the server of its node: by its last message to it, or by
\* the flag.
LEMMA ShutdownServerFlow ==
  ASSUME Inv, Link, Flow, NEW n \in Node, ShutdownServer(n) PROVE Flow'
<1> DEFINE s == First(n)
           m == Msg("TERMINATE_LOCAL", NULL)
<1>0. /\ thread_safe' = thread_safe /\ victim' = victim
      /\ reply' = reply /\ out' = out /\ queue' = queue /\ task' = task /\ table' = table
      /\ number_of_functions' = number_of_functions /\ pending' = pending
      /\ internode_stealing' = internode_stealing
      /\ appl_finished' = appl_finished /\ registered' = registered /\ enabled' = enabled
      /\ mixed' = mixed /\ resets' = resets /\ reset_count' = reset_count
      /\ 0 \in Node /\ Main \in Thread /\ Main \in Worker /\ Main = First(0)
      /\ s \in Thread /\ s \in Worker /\ (s = Main <=> n = 0)
  BY Threads DEF ShutdownServer, boot, tables, calls
<1>1. At(n) = "shutdown" /\ Goto(s, "join") /\ Channels
  BY DEF ShutdownServer, At, Link, Channels
<1>2. /\ \A v \in Worker : pc'[v] = IF v = s THEN "join" ELSE pc[v]
      /\ \A k \in Node : pc'[Server(k)] = pc[Server(k)]
      /\ \A k \in Node : At(k)' = IF k = n THEN "join" ELSE At(k)
  <2>1. Types /\ \A k \in Node : First(k) = s <=> k = n
    BY Threads DEF Inv
  <2> QED
    BY <1>0, <1>1, <2>1, WorkerGoto
<1>3. pc[s] = "shutdown"
  BY <1>1 DEF At
<1> HIDE DEF s, m
<1>4. (Over' <=> Over) /\ (Fresh' <=> Fresh)
  BY <1>0, <1>1, <1>2 DEF Over, Fresh, Ending
<1>5. \A k \in Node : At(k)' \in {"md_end"} \cup Ending => At(k) \in {"md_end"} \cup Ending
  BY <1>1, <1>2 DEF Ending
<1>6. out[Main].left = {} \/ At(0)' = At(0)
  BY <1>0, <1>1, <1>2 DEF Flow, Sending
<1>7. At(0)' \notin Waiting => At(0) \notin Waiting
  BY <1>0, <1>1, <1>2 DEF Waiting
<1>8. \A k \in Node : At(k) = "join" => At(k)' = "join"
  BY <1>2
<1>9. \A w \in Worker : pc'[w] = pc[w] \/ {pc[w], pc'[w]} \cap Moves = {}
  BY <1>2, <1>3 DEF Moves
<1>10. CASE ~ (N > 1 /\ thread_safe)
  <2>1. chan' = chan /\ termination_flag' = [termination_flag EXCEPT ![n] = IF N > 1 THEN 1 ELSE @]
    BY <1>10 DEF ShutdownServer
  <2>2. termination_flag' \in [Node -> 0 .. 1]
    BY <2>1 DEF Flow, Values
  <2>3. UNCHANGED <<thread_safe, victim, net, tables, appl_finished, calls>>
    BY <1>0, <2>1 DEF net, tables, calls
  <2>4. /\ internode_stealing' \in [Node -> BOOLEAN]
        /\ ~enabled => \A k \in Node : ~internode_stealing'[k]
    BY <1>0 DEF Flow, Values, Switch
  <2>5. \A w \in Worker : pc'[w] = pc[w] \/ (pc'[w] \notin Moves /\ pc[w] \notin Moves)
    BY <1>9
  <2> QED
    BY <1>2, <1>4, <1>5, <1>6, <1>7, <1>8, <2>2, <2>3, <2>4, <2>5, RestFlow
<1>11. CASE N > 1 /\ thread_safe
  <2>1. /\ Added(s, n, m) /\ m \in Message /\ m.type = "TERMINATE_LOCAL"
        /\ termination_flag' = termination_flag
    BY <1>11, CalmMessages DEF ShutdownServer, Send, Added, Msg, s, m
  <2>2. pc[Server(n)] = "serve"
    <3>1. pc[Server(n)] \in Served /\ pc[Server(n)] # "finish"
      BY <1>1, <1>11 DEF Inv, StartedUp, Early, Flow, Finish, FinishOf, Ending
    <3>2. pc[Server(n)] # "exited"
      BY <1>1, <1>11 DEF Link, Gone
    <3> QED
      BY <3>1, <3>2 DEF Served
  <2>3. /\ Post(s, n)' = Post(s, n) \cup {m}
        /\ \A a \in Thread, k \in Node : a # s \/ k # n => Post(a, k)' = Post(a, k)
    BY <1>0, <1>1, <2>1, PostAdded
  <2>4. \A x \in Post(s, n) : x \notin Closing
    <3> SUFFICES ASSUME NEW x \in Post(s, n) PROVE x \notin Closing
      OBVIOUS
    <3>1. Kind(s, n, x)
      BY <1>0 DEF Flow, Letters
    <3>2. x.type # "TERMINATE_WORKERS"
      BY <1>0, <3>1 DEF Kind
    <3>3. x.type # "TERMINATE_LOCAL"
      BY <1>1, <3>1 DEF Kind
    <3>4. Fresh => x.type # "STEALING_REQUEST"
      BY <1>3, <3>1 DEF Kind
    <3> QED
      BY <3>2, <3>3, <3>4 DEF Closing
  <2>5. Values'
    BY <1>0, <2>1 DEF Flow, Values
  <2>6. Sending'
    BY <1>0, <1>6, SendingStill DEF Flow
  <2>7. Letters'
    <3>1. KeepsAsks
      BY <1>0, <1>2, <1>3 DEF KeepsAsks
    <3>2. KeepsEnds
      BY <1>0 DEF KeepsEnds
    <3>3. KeepsStops
      BY <1>2, <1>8 DEF KeepsStops
    <3>4. Kind(s, n, m)'
      BY <1>0, <1>2, <1>11, <2>1, <2>2 DEF Kind, s
    <3>5. \A a \in Thread, k \in Node : \A x \in Post(a, k)' : x \in Post(a, k) \/ Kind(a, k, x)'
      BY <2>3, <3>4
    <3> QED
      BY <1>0, <1>4, <3>1, <3>2, <3>3, <3>5, LettersStep DEF Flow
  <2>8. Lasts'
    BY <1>0, <1>1, <1>4, <2>1, <2>4, LastsAdded DEF Flow
  <2>9. Switch'
    BY <1>0, <1>2 DEF Flow, Switch
  <2>10. Finish'
    <3>1. \A k \in Node : First(k) \in Thread
      BY Threads
    <3>2. \A k \in Node : pc'[Server(k)] = "exited" =>
            pc[Server(k)] = "exited" /\ Post(First(k), k)' \subseteq Post(First(k), k)
      BY <1>2, <2>2, <2>3, <3>1
    <3>3. \A k \in Node : k # 0 => Post(Main, k)' = Post(Main, k)
      BY <1>0, <2>3
    <3> QED
      BY <1>0, <1>2, <1>4, <1>5, <3>2, <3>3, FinishStill DEF Flow
  <2>11. Carrying'
    <3>1. \A w \in Worker : pc'[w] = pc[w] \/ {pc[w], pc'[w]} \cap {"write", "count", "asked"} = {}
      BY <1>9 DEF Moves
    <3>2. \A w \in Worker : pc'[w] \in {"sweep", "ask", "asked", "write", "count"} => out'[w].left = {}
      BY <1>0, <1>2 DEF Flow, Carrying
    <3> QED
      BY <1>0, <1>4, <3>1, <3>2, CarryingStill DEF Flow
  <2>12. \A k \in Node : /\ Unsent(k)' <=> Unsent(k)
                         /\ Sent(k)' <=> Sent(k)
                         /\ OneWork(chan'[<<Main, k>>])
    BY <1>0, <1>1, <2>1, WorkAdded DEF Unsent, Says, Flow
  <2>13. Placed'
    BY <1>0, <2>12, PlacedStill DEF Flow
  <2>14. Queued' = Queued
    BY <1>0, <2>12, QueuedStill
  <2>15. Held' = Held
    <3>1. \A w \in Worker : pc'[w] = pc[w] \/ {pc[w], pc'[w]} \cap {"write", "count"} = {}
      BY <1>9 DEF Moves
    <3> QED
      BY <1>0, <3>1, HeldStill
  <2>16. Counting'
    <3>1. ~Counts(s, n, m)
      BY <2>1 DEF Counts
    <3>2. IsFiniteSet(Answer') /\ Answer' = Answer
      BY <1>0, <1>1, <2>1, <3>1, AnswerAdded DEF Flow, Counting
    <3> QED
      BY <1>0, <1>7, <2>14, <2>15, <3>2, CountingStill DEF Flow
  <2>17. Agreeing'
    <3>1. \A w \in Held : pc'[w] = "count" => pc[w] = "count"
      BY <1>2 DEF Held
    <3> QED
      BY <1>0, <2>14, <2>15, <3>1, AgreeingStill DEF Flow
  <2> QED
    BY <2>5, <2>6, <2>7, <2>8, <2>9, <2>10, <2>11, <2>13, <2>16, <2>17 DEF Flow
<1> QED
  BY <1>10, <1>11

----------------------------------------------------------------------------
(* All steps.                                                              *)

LEMMA InitFlow == Init => Flow
<1> SUFFICES ASSUME Init PROVE Flow
  OBVIOUS
<1>0. /\ \A s \in Thread, n \in Node : chan[<<s, n>>] = <<>> /\ Post(s, n) = {}
      /\ \A s \in Thread : out[s].left = {} /\ ~Says(s, "RESET_STATISTICS")
      /\ \A w \in Worker : reply[w] = NULL /\ task[w] = NULL /\ pc[w] \in {"opt", "none"}
      /\ \A n \in Node : pc[Server(n)] # "exited" /\ At(n) = "opt"
      /\ \A n \in Node : queue[n] = {} /\ appl_finished[n] = 0
      /\ registered = 0 /\ pending = 0 /\ ~enabled /\ Main \in Thread /\ 0 \in Node
  <2>1. \A n \in Node : pc[Server(n)] # "exited" /\ At(n) = "opt"
    BY Threads DEF Init, Server, At, First
  <2>2. \A s \in Thread, n \in Node : chan[<<s, n>>] = <<>> /\ Post(s, n) = {}
    BY DEF Init, Post, Range
  <2>3. \A s \in Thread : out[s].left = {} /\ ~Says(s, "RESET_STATISTICS")
    BY DEF Init, NothingToSend, Says
  <2> QED
    BY <2>1, <2>2, <2>3, Threads DEF Init
<1>1. Values
  <2>1. \A w \in Worker : w[1] \in Node
    BY Threads
  <2>2. /\ thread_safe \in BOOLEAN /\ enabled \in BOOLEAN /\ mixed \in BOOLEAN
        /\ internode_stealing \in [Node -> BOOLEAN]
    BY CallsAssumption DEF Init
  <2>3. victim \in [Worker -> Node]
    BY <2>1 DEF Init
  <2>4. /\ reply \in [Worker -> {NULL, TORC_NO_WORK} \cup Function]
        /\ queue \in [Node -> SUBSET Function]
        /\ task \in [Worker -> Function \cup {NULL}]
        /\ table \in [Node -> [Function -> Function \cup {NULL}]]
    BY DEF Init
  <2>5. /\ number_of_functions \in [Node -> Nat] /\ appl_finished \in [Node -> Nat]
        /\ termination_flag \in [Node -> 0 .. 1]
    BY DEF Init
  <2>6. pending \in Int /\ registered \in 0 .. MaxRegistrations /\ resets \in 0 .. MaxResets
    BY CallsAssumption DEF Init
  <2>7. reset_count \in [Node -> 0 .. MaxResets + 1]
    <3>1. 0 \in 0 .. MaxResets + 1
      BY CallsAssumption
    <3> QED
      BY <3>1 DEF Init
  <2> QED
    BY <2>2, <2>3, <2>4, <2>5, <2>6, <2>7 DEF Values
<1>2. Sending
  BY <1>0 DEF Sending
<1>3. Letters
  BY <1>0 DEF Letters
<1>4. Lasts
  BY <1>0 DEF Lasts
<1>5. Switch
  BY <1>0 DEF Init, Switch
<1>6. Finish
  <2>1. \A n \in Node : At(n) \notin {"md_end"} \cup Ending
    BY <1>0 DEF Ending
  <2> QED
    BY <1>0, <2>1, Threads DEF Init, Finish, FinishOf, Told
<1>7. NULL \notin Function
  BY CallsAssumption DEF Function
<1>8. Carrying
  BY <1>0, <1>7 DEF Carrying
<1>9. Placed
  <2>1. \A n \in Node : ~Unsent(n) /\ ~Sent(n)
    BY <1>0 DEF Unsent, Says, Sent
  <2>2. \A n \in Node : OneWork(chan[<<Main, n>>])
    BY <1>0 DEF OneWork
  <2> QED
    BY <1>0, <2>1, <2>2 DEF Placed
<1>10. Queued = {}
  BY <1>0 DEF Queued, Unsent, Says, Sent
<1>11. Held = {}
  BY <1>0, <1>7 DEF Held
<1>12. Answer = {}
  BY <1>0, Threads DEF Answer
<1>13. Counting
  <2>1. Cardinality({}) = 0 /\ IsFiniteSet({})
    BY FS_EmptySet
  <2> QED
    BY <1>0, <1>10, <1>11, <1>12, <2>1, NodesAssumption DEF Counting
<1>14. Agreeing
  <2>1. \A n : HeldOn(n) = {}
    BY <1>11 DEF HeldOn
  <2>2. \A n \in Node : number_of_functions[n] = 0
    BY DEF Init
  <2> QED
    BY <1>0, <1>10, <2>1, <2>2 DEF Agreeing
<1> QED
  BY <1>1, <1>2, <1>3, <1>4, <1>5, <1>6, <1>8, <1>9, <1>13, <1>14 DEF Flow

LEMMA WorkerStepFlow == ASSUME Inv, Link, Flow, NEW w \in Worker, WorkerStep(w) PROVE Flow'
BY WorkerCreatedFlow, WorkerStartsFlow, TakeTaskFlow, WriteTableFlow, CountFunctionFlow,
   StartSweepFlow, WillAskFlow, AskForWorkFlow, SkipVictimFlow, GotTaskFlow, GotNothingFlow, StopsWaitingFlow,
   QuitFlow DEF WorkerStep

LEMMA FirstStepFlow == ASSUME Inv, Link, Flow, NEW n \in Node, FirstStep(n) PROVE Flow'
BY EnterBarrierFlow, LeaveBarrierFlow, StartThreadsFlow, FillNodeInfoFlow, WorkersEndedFlow,
   ShutdownServerFlow, JoinServerFlow DEF FirstStep

LEMMA MainStepFlow == ASSUME Inv, Link, Flow, MainStep PROVE Flow'
BY RegisterTaskFlow, WaitReturnsFlow, EnableStealingFlow, ResetStatisticsFlow, FinalizeFlow
   DEF MainStep

LEMMA ServerStepFlow == ASSUME Inv, Link, Flow, NEW n \in Node, ServerStep(n) PROVE Flow'
BY RecvWorkFlow, RecvAnswerFlow, ServeThiefFlow, RecvEnableFlow, RecvResetFlow,
   RecvTerminateFlow, CountFinishedFlow, RecvTerminateLocalFlow, ServerLeavesFlow DEF ServerStep

LEMMA NextFlow == Inv /\ Link /\ Flow /\ [Next]_vars => Flow'
<1> SUFFICES ASSUME Inv, Link, Flow, [Next]_vars PROVE Flow'
  OBVIOUS
<1>1. CASE UNCHANGED vars
  <2>1. /\ UNCHANGED <<thread_safe, victim, net, tables, flags, calls>> /\ pc' = pc
    BY <1>1 DEF vars, boot
  <2>2. \A n : At(n)' = At(n)
    BY <2>1 DEF At
  <2>3. Over' <=> Over
    BY <2>2 DEF Over
  <2> QED
    BY <2>1, <2>2, <2>3, AsideFlow
<1>2. ASSUME NEW s \in Thread, ThreadStep(s) PROVE Flow'
  <2>1. s[1] \in Node
    BY Threads DEF Server
  <2> QED
    BY <1>2, <2>1, SendNextFlow, WorkerStepFlow, FirstStepFlow, MainStepFlow, ServerStepFlow
       DEF ThreadStep
<1> QED
  BY <1>1, <1>2 DEF Next

----------------------------------------------------------------------------
(* What follows.                                                           *)

LEMMA FlowImpliesTables == Inv /\ Flow => TablesAgree
<1> SUFFICES ASSUME Inv, Flow, At(0) = "main", ~mixed, NEW n \in Node
             PROVE  /\ number_of_functions[n] = registered
                    /\ \A i \in 1 .. registered : table[n][i] = i
  BY Threads DEF TablesAgree, At
<1>1. Queued = {} /\ Held = {}
  BY CallsFirst
<1>2. HeldOn(n) = {}
  BY <1>1 DEF HeldOn
<1>3. /\ number_of_functions[n] + (IF n \in Queued \/ HeldOn(n) # {} THEN 1 ELSE 0) = registered
      /\ \A i \in 1 .. number_of_functions[n] : table[n][i] = i
      /\ number_of_functions[n] \in Nat
  BY DEF Flow, Agreeing, Values
<1>4. number_of_functions[n] = registered
  BY <1>1, <1>2, <1>3
<1> QED
  BY <1>3, <1>4

\* Where everybody is when a node has left the last barrier.
LEMMA AllLeft ==
  ASSUME Inv, NEW n \in Node, At(n) = "finalized"
  PROVE  /\ \A k \in Node : At(k) \in {"last", "finalized"}
         /\ \A w \in Worker : pc[w] # "asked"
         /\ Over
<1>1. \A k \in Node : At(k) \in {"last", "finalized"}
  <2>1. Done(At(n)) >= 7
    BY DoneValues
  <2> QED
    BY <2>1, OthersBehind
<1>2. ASSUME NEW w \in Worker PROVE pc[w] # "asked"
  <2>1. w \in Thread /\ w[2] # -1
    BY Threads, NodesAssumption
  <2>2. ExitsTogether
    BY InvImpliesExits
  <2>3. pc[w] \in {"exited"} \cup (IF w[2] = 0 THEN {"last", "finalized"} ELSE {})
    BY <2>1, <2>2 DEF ExitsTogether, At
  <2> QED
    BY <2>3
<1>3. Over
  BY <1>1, Threads DEF Over, Ending
<1> QED
  BY <1>1, <1>2, <1>3

LEMMA FlowImpliesUnread == Inv /\ Link /\ Flow => NothingUnread
<1> SUFFICES ASSUME Inv, Link, Flow, thread_safe, resets = 0, NEW n \in Node, At(n) = "finalized",
                    NEW s \in Thread, NEW k \in Node
             PROVE  chan[<<s, k>>] = <<>>
  BY DEF NothingUnread, At
<1>0. /\ \A j \in Node : At(j) \in {"last", "finalized"}
      /\ \A w \in Worker : pc[w] # "asked"
      /\ Over
  BY AllLeft
<1>1. Channels
  BY DEF Link, Channels
<1>2. Queued = {} /\ Answer = {}
  BY <1>0, OverMeansNone, NoneLeft
<1>3. appl_finished[k] = 1 /\ (k # 0 => Post(Main, k) = {})
  BY <1>0 DEF Flow, Finish, FinishOf, Told, Ending
<1>4. ASSUME NEW m \in Post(s, k) PROVE FALSE
  <2>1. Kind(s, k, m) /\ m \in Message
    BY <1>1, PostType DEF Flow, Letters
  <2>2. m.type # "WORK" /\ m.type # "ENABLE_STEALING" /\ m.type # "TERMINATE_WORKERS"
    BY <1>3, <2>1 DEF Kind
  <2>3. m.type # "RESET_STATISTICS"
    BY <2>1 DEF Kind
  <2>4. m.type # "ANSWER"
    <3> SUFFICES ASSUME m.type = "ANSWER" PROVE FALSE
      OBVIOUS
    <3>1. s \in Worker /\ s[1] # 0 /\ k = 0
      BY <2>1 DEF Kind
    <3>2. PICK i \in DOMAIN chan[<<s, k>>] : m = chan[<<s, k>>][i]
      BY DEF Post, Range
    <3>3. i \in Nat
      <4>1. chan[<<s, k>>] \in Seq(Message)
        BY <1>1 DEF Channels
      <4>2. DOMAIN chan[<<s, k>>] = 1 .. Len(chan[<<s, k>>]) /\ Len(chan[<<s, k>>]) \in Nat
        BY <4>1
      <4> QED
        BY <3>2, <4>2
    <3>4. <<s, i>> \in Answer
      BY <3>1, <3>2, <3>3 DEF Answer
    <3> QED
      BY <1>2, <3>4
  <2>5. m.type # "STEALING_REQUEST"
    BY <1>0, <2>1 DEF Kind, Fresh
  <2>6. m.type # "TERMINATE_LOCAL"
    BY <1>0, <2>1 DEF Kind
  <2> QED
    BY <2>1, <2>2, <2>3, <2>4, <2>5, <2>6 DEF Message
<1> QED
  BY <1>1, <1>4, PostEmpty

\* Every node has registered the same functions at the same places, for any
\* number of nodes, workers and registrations, whoever executes the tasks
\* that register them (no function is registered once stealing is on).
THEOREM AlwaysTablesAgree == Spec => []TablesAgree
BY InitInv, NextInv, InitLink, NextLink, InitFlow, NextFlow, FlowImpliesTables, PTL DEF Spec

\* With a thread safe library no message is left behind when a node calls
\* MPI_Finalize, unless the statistics have been reset.
THEOREM AlwaysNothingUnread == Spec => []NothingUnread
BY InitInv, NextInv, InitLink, NextLink, InitFlow, NextFlow, FlowImpliesUnread, PTL DEF Spec

----------------------------------------------------------------------------
(* Types.  Each worker counts itself once when it is created, and no node  *)
(* has active workers before it starts its threads.                        *)

Unborn  == {"none", "worker", "up"} \cup Unfilled
Born(n) == {v \in 0 .. kthreads[n] - 1 : pc[<<n, v>>] \notin Unborn}

Births ==
  \A n \in Node : /\ created_workers[n] = Cardinality(Born(n))
                  /\ At(n) \in Early => active_workers[n] = 0

LEMMA BornFinite ==
  \A n \in Node : /\ IsFiniteSet(Born(n)) /\ Cardinality(Born(n)) \in 0 .. kthreads[n]
                  /\ \A v \in 0 .. kthreads[n] - 1 : <<n, v>> \in Worker
<1> TAKE n \in Node
<1>1. kthreads[n] \in Nat \ {0}
  BY NodesAssumption
<1> DEFINE k == kthreads[n]
<1>2. k - 1 \in Int /\ ~ (0 > k - 1) /\ k - 1 - 0 + 1 = k
  BY <1>1
<1> HIDE DEF k
<1>3. IsFiniteSet(0 .. k - 1) /\ Cardinality(0 .. k - 1) = k
  BY <1>2, FS_Interval
<1>4. Born(n) \in SUBSET (0 .. k - 1)
  BY DEF Born, k
<1>5. IsFiniteSet(Born(n)) /\ Cardinality(Born(n)) <= k
  BY <1>3, <1>4, FS_Subset
<1>6. Cardinality(Born(n)) \in Nat
  BY <1>5, FS_CardinalityType
<1>7. \A v \in 0 .. kthreads[n] - 1 : <<n, v>> \in Worker
  BY DEF Worker
<1> QED
  BY <1>1, <1>5, <1>6, <1>7 DEF k

LEMMA BirthsStill ==
  ASSUME Births, created_workers' = created_workers,
         \A w \in Worker : pc'[w] \in Unborn <=> pc[w] \in Unborn,
         \A n \in Node : At(n)' \in Early => At(n) \in Early /\ active_workers'[n] = active_workers[n]
  PROVE  Births'
<1>1. ASSUME NEW n \in Node PROVE Born(n)' = Born(n)
  BY BornFinite DEF Born
<1> QED
  BY <1>1 DEF Births

\* A thread goes on, and is not born by that.
LEMMA BirthsGoto ==
  ASSUME Types, Births, created_workers' = created_workers, NEW s \in Thread, NEW to, Goto(s, to),
         s \in Worker => (to \in Unborn <=> pc[s] \in Unborn) /\ (to \in Early => pc[s] \in Early),
         \A n \in Node : At(n) \in Early => active_workers'[n] = active_workers[n]
  PROVE  Births'
<1>1. \A w \in Worker : pc'[w] = IF w = s THEN to ELSE pc[w]
  BY Threads DEF Goto, Types
<1>2. \A w \in Worker : pc'[w] \in Unborn <=> pc[w] \in Unborn
  BY <1>1
<1>3. ASSUME NEW n \in Node, At(n)' \in Early PROVE At(n) \in Early
  BY <1>1, <1>3, Threads DEF At
<1> QED
  BY <1>2, <1>3, BirthsStill

LEMMA BirthsCreated ==
  ASSUME Types, Births, NEW w \in Worker, WorkerCreated(w) PROVE Births'
<1> DEFINE n == w[1]
           v == w[2]
<1>0. n \in Node /\ v \in 0 .. kthreads[n] - 1 /\ w = <<n, v>>
  BY Threads
<1>1. /\ pc[w] = "worker" /\ Goto(w, "created") /\ active_workers' = active_workers
      /\ created_workers' = [created_workers EXCEPT ![n] = @ + 1]
      /\ created_workers \in [Node -> Nat]
  BY DEF WorkerCreated, Types
<1>2. \A u \in Worker : pc'[u] = IF u = w THEN "created" ELSE pc[u]
  BY <1>1, Threads DEF Goto, Types
<1> HIDE DEF n, v
<1>3. "created" \notin Unborn \cup Early /\ "worker" \in Unborn
  BY DEF Unborn, Unfilled, Early
<1>4. v \notin Born(n) /\ Born(n)' = Born(n) \cup {v}
  <2>1. \A u \in 0 .. kthreads[n] - 1 : pc'[<<n, u>>] = IF u = v THEN "created" ELSE pc[<<n, u>>]
    BY <1>0, <1>2, BornFinite
  <2> QED
    BY <1>0, <1>1, <1>3, <2>1 DEF Born
<1>5. ASSUME NEW m \in Node, m # n PROVE Born(m)' = Born(m)
  <2>1. \A u \in 0 .. kthreads[m] - 1 : pc'[<<m, u>>] = pc[<<m, u>>]
    BY <1>0, <1>2, <1>5, BornFinite
  <2> QED
    BY <2>1 DEF Born
<1>6. Cardinality(Born(n)') = Cardinality(Born(n)) + 1
  BY <1>0, <1>4, BornFinite, FS_AddElement
<1>7. created_workers'[n] = created_workers[n] + 1
      /\ \A m \in Node : m # n => created_workers'[m] = created_workers[m]
  BY <1>0, <1>1
<1>8. ASSUME NEW m \in Node, At(m)' \in Early PROVE At(m) \in Early
  BY <1>2, <1>3, <1>8, Threads DEF At
<1>9. ASSUME NEW m \in Node PROVE created_workers'[m] = Cardinality(Born(m)')
  BY <1>5, <1>6, <1>7 DEF Births
<1> QED
  BY <1>1, <1>8, <1>9 DEF Births

LEMMA BirthsStart ==
  ASSUME Inv, Births, NEW n \in Node, StartThreads(n) PROVE Births'
<1>1. /\ At(n) = "md_init" /\ created_workers' = created_workers
      /\ active_workers' = [active_workers EXCEPT ![n] = kthreads[n]]
      /\ active_workers \in [Node -> Int]
  BY DEF StartThreads, At, Inv, Types
<1>2. \A s \in Thread : /\ s[1] # n => pc'[s] = pc[s]
                        /\ s[1] = n /\ s[2] = 0 => pc'[s] = "gather"
                        /\ s[1] = n /\ s[2] # 0 /\ s[2] > 0 => pc'[s] = "worker"
  BY DEF StartThreads
<1>3. {"gather", "worker", "md_init", "none"} \subseteq Unborn /\ "gather" \notin Early
      /\ "md_init" \in Early
  BY DEF Unborn, Unfilled, Early
<1>4. ASSUME NEW w \in Worker PROVE pc'[w] \in Unborn <=> pc[w] \in Unborn
  <2>0. w \in Thread /\ w[1] \in Node /\ w[2] \in 0 .. kthreads[w[1]] - 1 /\ w = <<w[1], w[2]>>
    BY Threads
  <2>1. CASE w[1] # n
    BY <1>2, <2>0, <2>1
  <2>2. CASE w[1] = n /\ w[2] = 0
    BY <1>1, <1>2, <1>3, <2>0, <2>2 DEF At, First
  <2>3. CASE w[1] = n /\ w[2] # 0
    <3>1. w[2] \in 1 .. kthreads[n] - 1 /\ w[2] > 0
      BY <2>0, <2>3, NodesAssumption
    <3>2. pc[w] = "none"
      BY <1>1, <1>3, <2>0, <2>3, <3>1 DEF Inv, Counted
    <3> QED
      BY <1>2, <1>3, <2>0, <2>3, <3>1, <3>2
  <2> QED
    BY <2>1, <2>2, <2>3
<1>5. At(n)' = "gather" /\ \A m \in Node : m # n => At(m)' = At(m)
  <2>1. \A m \in Node : First(m) \in Thread /\ First(m)[1] = m /\ First(m)[2] = 0
    BY Threads DEF First
  <2> QED
    BY <1>2, <2>1 DEF At
<1>6. \A m \in Node : m # n => active_workers'[m] = active_workers[m]
  BY <1>1
<1>7. \A m \in Node : At(m)' \in Early => At(m) \in Early /\ active_workers'[m] = active_workers[m]
  BY <1>3, <1>5, <1>6
<1> QED
  BY <1>1, <1>4, <1>7, BirthsStill

LEMMA BirthsQuit ==
  ASSUME Inv, Births, NEW w \in Worker, Quit(w) PROVE Births'
<1>0. w \in Thread /\ w[1] \in Node /\ w[2] \in 0 .. kthreads[w[1]] - 1 /\ w = <<w[1], w[2]>>
  BY Threads
<1>1. pc[w] \in Busy /\ pc[w] \notin Unborn /\ "none" \notin Busy
  BY DEF Quit, Looking, Loop, Busy, Unborn, Unfilled, Early
<1>2. created_workers' = created_workers /\ active_workers \in [Node -> Int]
  BY DEF Quit, Inv, Types
<1>3. PICK to \in Busy \cup {"md_end", "exited"} :
        /\ Goto(w, to)
        /\ \/ active_workers' = active_workers
           \/ w[2] # 0 /\ active_workers' = [active_workers EXCEPT ![w[1]] = @ - 1]
  <2>1. Loop(w) \in Busy
    BY DEF Loop, Busy
  <2> QED
    BY <2>1 DEF Quit
<1>4. to \notin Unborn /\ to \notin Early
  BY DEF Unborn, Unfilled, Early, Busy
<1>5. ASSUME NEW n \in Node, At(n) \in Early PROVE active_workers'[n] = active_workers[n]
  <2>1. CASE w[1] # n
    BY <1>2, <1>3, <2>1
  <2>2. CASE w[1] = n /\ w[2] # 0
    <3>1. w[2] \in 1 .. kthreads[n] - 1
      BY <1>0, <2>2, NodesAssumption
    <3> QED
      BY <1>0, <1>1, <1>5, <2>2, <3>1 DEF Inv, Counted
  <2>3. CASE w[2] = 0
    BY <1>3, <2>3
  <2> QED
    BY <2>1, <2>2, <2>3
<1> QED
  BY <1>0, <1>1, <1>2, <1>3, <1>4, <1>5, BirthsGoto DEF Inv

\* A thread that is already at work, or a server, goes on.
LEMMA BirthsOn ==
  ASSUME Inv, Births, UNCHANGED <<created_workers, active_workers>>, NEW s \in Thread,
         NEW to \in Busy \cup Served \cup {"start", "md_end"} \cup Ending, Goto(s, to),
         s \in Worker => pc[s] \in Busy \cup {"created", "start", "md_end"} \cup Ending
  PROVE  Births'
<1>1. \A p \in Busy \cup {"created", "start", "md_end"} \cup Served \cup Ending : p \notin Unborn \cup Early
  BY DEF Served, Unborn, Unfilled, Early, Busy, Ending
<1>2. created_workers' = created_workers /\ active_workers' = active_workers
  OBVIOUS
<1>3. s \in Worker => (to \in Unborn <=> pc[s] \in Unborn) /\ (to \in Early => pc[s] \in Early)
  BY <1>1
<1> QED
  BY <1>2, <1>3, BirthsGoto DEF Inv

LEMMA BirthsSame ==
  ASSUME Births, UNCHANGED <<pc, created_workers, active_workers>> PROVE Births'
<1>1. pc' = pc /\ created_workers' = created_workers /\ active_workers' = active_workers
  OBVIOUS
<1>2. \A n \in Node : At(n)' = At(n)
  BY <1>1 DEF At
<1> QED
  BY <1>1, <1>2, BirthsStill

LEMMA BirthsLeave ==
  ASSUME Inv, Births, NEW n \in Node, LeaveBarrier(n) PROVE Births'
<1>1. /\ At(n) \in BarrierStage /\ Goto(First(n), AfterBarrier(n, At(n)))
      /\ created_workers' = created_workers /\ active_workers' = active_workers
      /\ First(n) \in Thread
  BY Threads DEF LeaveBarrier, Inv, Together, At
<1>2. AfterBarrier(n, At(n)) \in Unborn <=> At(n) \in Unborn
  BY <1>1 DEF AfterBarrier, BarrierStage, Unborn, Unfilled, Early
<1>3. AfterBarrier(n, At(n)) \in Early => At(n) \in Early
  BY <1>1 DEF AfterBarrier, BarrierStage, Early
<1> QED
  BY <1>1, <1>2, <1>3, BirthsGoto DEF Inv, At

LEMMA InitBirths == Init => Births
<1> SUFFICES ASSUME Init, NEW n \in Node PROVE created_workers[n] = Cardinality(Born(n)) /\ active_workers[n] = 0
  BY DEF Births
<1>1. \A w \in Worker : pc[w] \in {"opt", "none"}
  BY Threads DEF Init
<1>2. Born(n) = {}
  BY <1>1, BornFinite DEF Born, Unborn, Unfilled, Early
<1> QED
  BY <1>2, FS_EmptySet DEF Init

LEMMA WorkerStepBirths ==
  ASSUME Inv, Births, NEW w \in Worker, WorkerStep(w) PROVE Births'
<1>0. /\ w \in Thread /\ w[1] \in Node /\ Loop(w) \in Busy
      /\ {"write", "count", "sweep", "ask", "asked", "loop"} \subseteq Busy
  BY Threads DEF Loop, Busy
<1>1. CASE WorkerCreated(w)
  BY <1>1, BirthsCreated DEF Inv
<1>2. CASE WorkerStarts(w)
  <2>1. PICK to \in {"start", "loop"} : Goto(w, to)
    BY <1>2 DEF WorkerStarts
  <2> QED
    BY <1>0, <1>2, <2>1, BirthsOn DEF WorkerStarts, boot
<1>3. ASSUME NEW f \in Function, TakeTask(w, f) PROVE Births'
  BY <1>0, <1>3, BirthsOn DEF TakeTask, Looking, boot
<1>4. CASE WriteTable(w)
  BY <1>0, <1>4, BirthsOn DEF WriteTable, boot
<1>5. CASE CountFunction(w)
  BY <1>0, <1>5, BirthsOn DEF CountFunction, boot
<1>6. CASE StartSweep(w)
  BY <1>0, <1>6, BirthsOn DEF StartSweep, Looking, boot
<1>7. CASE WillAsk(w) \/ AskForWork(w)
  BY <1>0, <1>7, BirthsOn DEF WillAsk, AskForWork, boot
<1>8. CASE SkipVictim(w)
  BY <1>8, BirthsSame DEF SkipVictim, boot
<1>9. CASE GotTask(w)
  BY <1>0, <1>9, BirthsOn DEF GotTask, boot
<1>10. CASE GotNothing(w)
  BY <1>0, <1>10, BirthsOn DEF GotNothing, boot
<1>11. CASE StopsWaiting(w)
  BY <1>0, <1>11, BirthsOn DEF StopsWaiting, boot
<1>12. CASE Quit(w)
  BY <1>12, BirthsQuit
<1> QED
  BY <1>1, <1>2, <1>3, <1>4, <1>5, <1>6, <1>7, <1>8, <1>9, <1>10, <1>11, <1>12 DEF WorkerStep

LEMMA FirstStepBirths ==
  ASSUME Inv, Births, NEW n \in Node, FirstStep(n) PROVE Births'
<1>0. /\ First(n) \in Thread /\ First(n) \in Worker
      /\ {"end", "join", "last", "shutdown"} \subseteq Ending
  BY Threads DEF Ending
<1>1. CASE EnterBarrier(n)
  BY <1>1, BirthsSame DEF EnterBarrier
<1>2. CASE LeaveBarrier(n)
  BY <1>2, BirthsLeave
<1>3. CASE StartThreads(n)
  BY <1>3, BirthsStart
<1>4. CASE FillNodeInfo(n)
  <2>1. {"info", "up"} \subseteq Unborn /\ "up" \notin Early
    BY DEF Unborn, Unfilled, Early
  <2>2. /\ created_workers' = created_workers /\ active_workers' = active_workers
        /\ pc[First(n)] = "info" /\ Goto(First(n), "up")
    BY <1>4 DEF FillNodeInfo
  <2> QED
    BY <1>0, <2>1, <2>2, BirthsGoto DEF Inv
<1>5. CASE WorkersEnded(n)
  BY <1>0, <1>5, BirthsOn DEF WorkersEnded, boot
<1>6. CASE ShutdownServer(n)
  BY <1>0, <1>6, BirthsOn DEF ShutdownServer, boot
<1>7. CASE JoinServer(n)
  BY <1>0, <1>7, BirthsOn DEF JoinServer, boot
<1> QED
  BY <1>1, <1>2, <1>3, <1>4, <1>5, <1>6, <1>7 DEF FirstStep

LEMMA MainStepBirths == ASSUME Inv, Births, MainStep PROVE Births'
<1>0. Main \in Thread /\ {"main", "waitall"} \subseteq Busy
  BY Threads DEF Busy
<1>1. CASE RegisterTask
  BY <1>0, <1>1, BirthsOn DEF RegisterTask, MayCall, Calling, boot
<1>2. CASE WaitReturns
  BY <1>0, <1>2, BirthsOn DEF WaitReturns, boot
<1>3. CASE EnableStealing \/ ResetStatistics
  BY <1>3, BirthsSame DEF EnableStealing, ResetStatistics, boot
<1>4. CASE Finalize
  BY <1>0, <1>4, BirthsOn DEF Finalize, Calling, boot
<1> QED
  BY <1>1, <1>2, <1>3, <1>4 DEF MainStep

LEMMA ServerStepBirths == ASSUME Inv, Births, NEW n \in Node, ServerStep(n) PROVE Births'
<1>1. ASSUME NEW s \in Thread,
             \/ RecvWork(n, s) \/ RecvAnswer(n, s) \/ ServeThief(n, s)
             \/ RecvEnable(n, s) \/ RecvReset(n, s)
      PROVE  Births'
  <2>1. UNCHANGED <<pc, boot>>
    BY <1>1 DEF RecvWork, RecvAnswer, ServeThief, RecvEnable, RecvReset
  <2> QED
    BY <2>1, BirthsSame DEF boot
<1>2. ASSUME NEW s \in Thread, RecvTerminate(n, s) \/ RecvTerminateLocal(n, s) PROVE Births'
  BY <1>2, ServersApart, BirthsOn DEF Served, RecvTerminate, RecvTerminateLocal, boot
<1>3. CASE CountFinished(n) \/ ServerLeaves(n)
  BY <1>3, ServersApart, BirthsOn DEF Served, CountFinished, ServerLeaves, boot
<1> QED
  BY <1>1, <1>2, <1>3 DEF ServerStep

LEMMA NextBirths == Inv /\ Births /\ [Next]_vars => Births'
<1> SUFFICES ASSUME Inv, Births, [Next]_vars PROVE Births'
  OBVIOUS
<1>1. CASE UNCHANGED vars
  BY <1>1, BirthsSame DEF vars, boot
<1>2. ASSUME NEW s \in Thread, ThreadStep(s) PROVE Births'
  <2>1. s[1] \in Node
    BY Threads DEF Server
  <2>2. CASE SendNext(s)
    BY <2>2, BirthsSame DEF SendNext, boot
  <2> QED
    BY <1>2, <2>1, <2>2, WorkerStepBirths, FirstStepBirths, MainStepBirths, ServerStepBirths
       DEF ThreadStep
<1> QED
  BY <1>1, <1>2 DEF Next

LEMMA FlowImpliesTypeOK == Inv /\ Link /\ Flow /\ Births => TypeOK
<1> SUFFICES ASSUME Inv, Link, Flow, Births PROVE TypeOK
  OBVIOUS
<1>1. barriers \in [Node -> 0 .. 7]
  <2> SUFFICES ASSUME NEW n \in Node PROVE barriers[n] \in 0 .. 7
    BY DEF Inv, Types
  <2>1. /\ barriers[n] = Done(At(n)) + (IF inside[n] THEN 1 ELSE 0)
        /\ inside[n] => At(n) \in BarrierStage
        /\ At(n) \in FirstStage
    BY DEF Inv, Together, Types
  <2>2. /\ \A p \in FirstStage : Done(p) \in 0 .. 7
        /\ \A p \in BarrierStage : Done(p) \in 0 .. 6
    BY DoneValues DEF FirstStage, Uncreated, Unfilled, Early, Ending, BarrierStage
  <2> QED
    BY <2>1, <2>2
<1>2. ASSUME NEW n \in Node
      PROVE  created_workers[n] \in 0 .. kthreads[n] /\ active_workers[n] \in 0 .. kthreads[n]
  <2>0. kthreads[n] \in Nat \ {0}
    BY NodesAssumption
  <2>1. created_workers[n] \in 0 .. kthreads[n]
    BY BornFinite DEF Births
  <2>2. CASE At(n) \in Early
    BY <2>0, <2>1, <2>2 DEF Births
  <2>3. CASE At(n) \notin Early
    <3> DEFINE k == kthreads[n]
    <3>1. k - 1 \in Int /\ (IF 1 > k - 1 THEN 0 ELSE (k - 1) - 1 + 1) = k - 1
      BY <2>0
    <3>2. active_workers[n] = 1 + Cardinality(Alive(n)) /\ Cardinality(Alive(n)) \in Nat
      BY <2>3, AliveFinite DEF Inv, Counted
    <3>3. Alive(n) \in SUBSET (1 .. k - 1)
      BY DEF Alive
    <3> HIDE DEF k
    <3>4. IsFiniteSet(1 .. k - 1)
          /\ Cardinality(1 .. k - 1) = IF 1 > k - 1 THEN 0 ELSE (k - 1) - 1 + 1
      BY <3>1, FS_Interval
    <3>5. Cardinality(Alive(n)) <= Cardinality(1 .. k - 1)
      BY <3>3, <3>4, FS_Subset
    <3> QED
      BY <2>0, <2>1, <3>1, <3>2, <3>4, <3>5 DEF k
  <2> QED
    BY <2>2, <2>3
<1>3. \A s \in Thread : out[s].msg \in Message \cup {NULL} /\ out[s].left \subseteq Node
  <2>1. \A s \in Thread : out[s].msg \in Message \cup {NULL}
    BY DEF Link, Outs, Calm
  <2> QED
    BY <2>1 DEF Flow, Sending, Others
<1>4. pending \in 0 .. N
  <2>1. IsFiniteSet(Queued) /\ IsFiniteSet(Held) /\ IsFiniteSet(Answer)
    BY QueuedFinite DEF Flow, Counting
  <2>2. Cardinality(Queued) \in Nat /\ Cardinality(Held) \in Nat /\ Cardinality(Answer) \in Nat
    BY <2>1, FS_CardinalityType
  <2>3. pending = Cardinality(Queued) + Cardinality(Held) + Cardinality(Answer) /\ pending <= N
    BY DEF Flow, Counting
  <2> QED
    BY <2>2, <2>3, NodesAssumption
<1>5. appl_finished \in [Node -> 0 .. 1]
  BY DEF Flow, Finish, FinishOf, Values
<1>6. pc \in [Thread -> Stage] /\ inside \in [Node -> BOOLEAN] /\ node_info \in [Node -> [Node -> Nat]]
  BY DEF Inv, Types
<1>7. chan \in [Thread \X Node -> Seq(Message)]
  BY DEF Link
<1> QED
  BY <1>1, <1>2, <1>3, <1>4, <1>5, <1>6, <1>7 DEF TypeOK, Flow, Values

\* Every variable keeps its type: a node enters seven barriers at most, counts
\* each of its workers once, and the main program waits for one answer from
\* each node at most.
THEOREM AlwaysTypeOK == Spec => []TypeOK
BY InitInv, NextInv, InitLink, NextLink, InitFlow, NextFlow, InitBirths, NextBirths,
   FlowImpliesTypeOK, PTL DEF Spec

=============================================================================
