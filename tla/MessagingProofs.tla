-------------------------- MODULE MessagingProofs ---------------------------
(***************************************************************************)
(* Type correctness of the messages, for any number of nodes, workers,     *)
(* tasks and arguments, and the order of the messages of a channel.        *)
(*                                                                         *)
(* TypeOK is not inductive: which kind of message a tag brings depends on  *)
(* who sent it, and the server that gets a request for work answers it to  *)
(* the node and with the tag of the worker that sent it.  Types bounds     *)
(* messages and activities by their kinds, and Requests says that requests *)
(* come from workers of other nodes.  That is enough (AlwaysTypeOK).       *)
(*                                                                         *)
(* The rest of the module is about one channel.  The messages with the     *)
(* tags of servers form a lane, those with reply tags another.  A lane is  *)
(* a chain: what its receiver waits for, then the messages, each followed  *)
(* by those it makes the receiver wait for, then what its sender has yet   *)
(* to send.  Between threads the chains, and where the tasks are, make the *)
(* invariant Inv; the lemmas say what a send, a receive or a change of     *)
(* activity does to each chain.                                            *)
(***************************************************************************)
EXTENDS Messaging, FiniteSetTheorems, SequenceTheorems, WellFoundedInduction, TLAPS

----------------------------------------------------------------------------
(* Numbers and sequences.                                                  *)

\* A set of natural numbers has a least element.
LEMMA LeastNumber ==
  ASSUME NEW S \in SUBSET Nat, S # {}
  PROVE  \E x \in S : \A y \in S : x <= y
<1> DEFINE Upto(x) == S \cap (0 .. x)
           T == {Upto(x) : x \in S}
<1>1. T \subseteq FiniteSubsetsOf(Nat)
  <2> SUFFICES ASSUME NEW x \in S PROVE IsFiniteSet(Upto(x)) /\ Upto(x) \in SUBSET Nat
    BY DEF FiniteSubsetsOf
  <2>1. IsFiniteSet(0 .. x)
    BY FS_Interval
  <2> QED
    BY <2>1, FS_Subset
<1>2. \E X \in T : \A Y \in T : <<Y, X>> \notin StrictSubsetOrdering(Nat)
  <2>1. T # {}
    OBVIOUS
  <2> HIDE DEF T
  <2> QED
    BY <1>1, <2>1, FS_StrictSubsetOrderingWellFounded, WFMin
<1>3. PICK x \in S : \A y \in S : <<Upto(y), Upto(x)>> \notin StrictSubsetOrdering(Nat)
  BY <1>2
<1>4. ASSUME NEW y \in S, ~ (x <= y) PROVE FALSE
  <2>1. /\ x \in Nat /\ y \in Nat /\ x \in 0 .. x /\ x \notin 0 .. y
        /\ \A z \in 0 .. y : z \in 0 .. x
    BY <1>4
  <2> HIDE DEF T
  <2>2. x \in Upto(x) /\ x \notin Upto(y)
    BY <2>1
  <2>3. Upto(y) \subseteq Upto(x)
    BY <2>1
  <2>4. Upto(y) \in SUBSET Nat /\ Upto(x) \in SUBSET Nat
    OBVIOUS
  <2> QED
    BY <1>3, <2>2, <2>3, <2>4 DEF StrictSubsetOrdering
<1> QED
  BY <1>3, <1>4

LEMMA MinIsLeast ==
  ASSUME NEW S \in SUBSET Nat, S # {}
  PROVE  Min(S) \in S /\ \A y \in S : Min(S) <= y
BY LeastNumber DEF Min

\* A bounded set of natural numbers has a greatest element.
LEMMA GreatestNumber ==
  ASSUME NEW n \in Nat, NEW S \in SUBSET (1 .. n), S # {}
  PROVE  \E x \in S : \A y \in S : y <= x
<1> DEFINE T == {n - x : x \in S}
<1>1. T \subseteq Nat /\ T # {}
  <2>1. \A x \in S : n - x \in Nat
    OBVIOUS
  <2> QED
    BY <2>1
<1>2. PICK y \in T : \A z \in T : y <= z
  <2> HIDE DEF T
  <2> QED
    BY <1>1, LeastNumber
<1>3. PICK x \in S : y = n - x
  OBVIOUS
<1>4. ASSUME NEW z \in S PROVE z <= x
  <2>1. n - x <= n - z
    BY <1>2, <1>3
  <2> QED
    BY <2>1
<1> QED
  BY <1>4

\* Where the elements of a sequence were before one was removed.
Shift(f, p) == IF p < f THEN p ELSE p + 1

LEMMA RemoveFacts ==
  ASSUME NEW S, NEW q \in Seq(S), NEW f \in DOMAIN q
  PROVE  /\ RemoveAt(q, f) \in Seq(S)
         /\ Len(RemoveAt(q, f)) = Len(q) - 1
         /\ DOMAIN RemoveAt(q, f) = 1 .. Len(q) - 1
         /\ \A p \in DOMAIN RemoveAt(q, f) :
              Shift(f, p) \in DOMAIN q \ {f} /\ RemoveAt(q, f)[p] = q[Shift(f, p)]
         /\ \A p, r \in DOMAIN RemoveAt(q, f) : p < r <=> Shift(f, p) < Shift(f, r)
         /\ \A k \in DOMAIN q \ {f} : \E p \in DOMAIN RemoveAt(q, f) : Shift(f, p) = k
<1>1. DOMAIN q = 1 .. Len(q) /\ Len(q) \in Nat /\ f \in 1 .. Len(q) /\ \A i \in 1 .. Len(q) : q[i] \in S
  OBVIOUS
<1> DEFINE a == SubSeq(q, 1, f - 1)
           b == SubSeq(q, f + 1, Len(q))
<1>2. a \in Seq(S) /\ Len(a) = f - 1 /\ \A i \in 1 .. f - 1 : a[i] = q[i]
  <2>1. a \in Seq(S) /\ Len(a) = (IF 1 <= f - 1 THEN f - 1 - 1 + 1 ELSE 0)
        /\ \A i \in 1 .. f - 1 - 1 + 1 : a[i] = q[1 + i - 1]
    BY <1>1, SubSeqProperties
  <2>2. (IF 1 <= f - 1 THEN f - 1 - 1 + 1 ELSE 0) = f - 1
        /\ f - 1 - 1 + 1 = f - 1 /\ \A i \in 1 .. f - 1 : 1 + i - 1 = i
    BY <1>1
  <2> QED
    BY <2>1, <2>2
<1>3. b \in Seq(S) /\ Len(b) = Len(q) - f /\ \A i \in 1 .. Len(q) - f : b[i] = q[f + i]
  <2>1. b \in Seq(S) /\ Len(b) = (IF f + 1 <= Len(q) THEN Len(q) - (f + 1) + 1 ELSE 0)
        /\ \A i \in 1 .. Len(q) - (f + 1) + 1 : b[i] = q[f + 1 + i - 1]
    BY <1>1, SubSeqProperties
  <2>2. (IF f + 1 <= Len(q) THEN Len(q) - (f + 1) + 1 ELSE 0) = Len(q) - f
        /\ Len(q) - (f + 1) + 1 = Len(q) - f /\ \A i \in 1 .. Len(q) - f : f + 1 + i - 1 = f + i
    BY <1>1
  <2> QED
    BY <2>1, <2>2
<1> DEFINE r == a \o b
<1>4. r \in Seq(S) /\ Len(r) = Len(q) - 1
      /\ \A i \in 1 .. Len(q) - 1 : r[i] = IF i <= f - 1 THEN a[i] ELSE b[i - (f - 1)]
  <2> HIDE DEF a, b
  <2>1. r \in Seq(S) /\ Len(r) = Len(a) + Len(b)
        /\ \A i \in 1 .. Len(a) + Len(b) : r[i] = IF i <= Len(a) THEN a[i] ELSE b[i - Len(a)]
    BY <1>2, <1>3, ConcatProperties
  <2>2. Len(a) + Len(b) = Len(q) - 1
    BY <1>1, <1>2, <1>3
  <2> QED
    BY <1>2, <2>1, <2>2
<1>5. RemoveAt(q, f) = r
  BY DEF RemoveAt
<1> HIDE DEF a, b, r
<1>6. ASSUME NEW i \in 1 .. Len(q) - 1 PROVE r[i] = q[Shift(f, i)] /\ Shift(f, i) \in 1 .. Len(q) /\ Shift(f, i) # f
  <2>1. CASE i <= f - 1
    <3>1. i \in 1 .. f - 1 /\ i < f
      BY <1>1, <2>1
    <3> QED
      BY <1>1, <1>2, <1>4, <2>1, <3>1 DEF Shift
  <2>2. CASE ~ (i <= f - 1)
    <3>1. i - (f - 1) \in 1 .. Len(q) - f /\ ~ (i < f) /\ f + (i - (f - 1)) = i + 1
          /\ i + 1 \in 1 .. Len(q) /\ i + 1 # f
      BY <1>1, <2>2
    <3>2. r[i] = q[f + (i - (f - 1))]
      BY <1>3, <1>4, <2>2, <3>1
    <3> QED
      BY <3>1, <3>2 DEF Shift
  <2> QED
    BY <2>1, <2>2
<1>7. DOMAIN r = 1 .. Len(q) - 1
  BY <1>4
<1>8. \A p, s \in 1 .. Len(q) - 1 : p < s <=> Shift(f, p) < Shift(f, s)
  BY <1>1 DEF Shift
<1>9. ASSUME NEW k \in 1 .. Len(q), k # f PROVE \E p \in 1 .. Len(q) - 1 : Shift(f, p) = k
  <2>1. CASE k < f
    BY <1>1, <2>1 DEF Shift
  <2>2. CASE k > f
    <3>1. k - 1 \in 1 .. Len(q) - 1 /\ Shift(f, k - 1) = k
      BY <1>1, <2>2 DEF Shift
    <3> QED
      BY <3>1
  <2> QED
    BY <1>1, <1>9, <2>1, <2>2
<1> QED
  BY <1>1, <1>4, <1>5, <1>6, <1>7, <1>8, <1>9

LEMMA AppendFacts ==
  ASSUME NEW S, NEW q \in Seq(S), NEW e
  PROVE  /\ e \in S => Append(q, e) \in Seq(S)
         /\ Len(Append(q, e)) = Len(q) + 1
         /\ DOMAIN Append(q, e) = 1 .. Len(q) + 1
         /\ \A p \in DOMAIN q : p \in DOMAIN Append(q, e) /\ p < Len(q) + 1 /\ Append(q, e)[p] = q[p]
         /\ \A p \in DOMAIN Append(q, e) : p \in DOMAIN q \/ p = Len(q) + 1
         /\ Append(q, e)[Len(q) + 1] = e
         /\ Len(q) + 1 \in DOMAIN Append(q, e)
<1>0. q \in Seq(S \cup {e}) /\ (e \in S => Append(q, e) \in Seq(S))
  <2>1. Len(q) \in Nat /\ q = [i \in 1 .. Len(q) |-> q[i]] /\ \A i \in 1 .. Len(q) : q[i] \in S \cup {e}
    OBVIOUS
  <2>2. [i \in 1 .. Len(q) |-> q[i]] \in Seq(S \cup {e})
    BY <2>1
  <2> QED
    BY <2>1, <2>2, AppendProperties
<1>1. /\ Append(q, e) \in Seq(S \cup {e}) /\ Len(Append(q, e)) = Len(q) + 1
      /\ \A i \in 1 .. Len(q) : Append(q, e)[i] = q[i]
      /\ Append(q, e)[Len(q) + 1] = e
  BY <1>0, AppendProperties
<1>2. DOMAIN Append(q, e) = 1 .. Len(q) + 1 /\ DOMAIN q = 1 .. Len(q) /\ Len(q) \in Nat
  BY <1>0, <1>1, LenProperties
<1> QED
  BY <1>0, <1>1, <1>2

\* What First finds.
LEMMA FirstFacts ==
  ASSUME NEW s, NEW n, NEW tag, NEW S, chan[<<s, n>>] \in Seq(S)
  PROVE  /\ First(s, n, tag) # 0 =>
              /\ First(s, n, tag) \in DOMAIN chan[<<s, n>>]
              /\ chan[<<s, n>>][First(s, n, tag)].tag = tag
              /\ \A p \in DOMAIN chan[<<s, n>>] :
                   chan[<<s, n>>][p].tag = tag => First(s, n, tag) <= p
         /\ First(s, n, tag) = 0 => \A p \in DOMAIN chan[<<s, n>>] : chan[<<s, n>>][p].tag # tag
<1> DEFINE q == chan[<<s, n>>]
           I == {i \in 1 .. Len(q) : q[i].tag = tag}
<1>1. DOMAIN q = 1 .. Len(q) /\ Len(q) \in Nat
  OBVIOUS
<1>2. First(s, n, tag) = IF I # {} THEN Min(I) ELSE 0
  BY DEF First, SelectInSeq
<1>3. I \subseteq Nat /\ I \subseteq DOMAIN q /\ 0 \notin I
  BY <1>1
<1>4. CASE I = {}
  BY <1>1, <1>2, <1>4
<1>5. CASE I # {}
  <2>1. Min(I) \in I /\ \A y \in I : Min(I) <= y
    <3> HIDE DEF I
    <3> QED
      BY <1>3, <1>5, MinIsLeast
  <2> QED
    BY <1>1, <1>2, <1>3, <1>5, <2>1
<1> QED
  BY <1>4, <1>5

----------------------------------------------------------------------------
(* What is to follow a message.                                            *)

\* What is due: the arguments left of a task, or nothing.
NoDue == [task |-> NULL, left |-> {}]

DueOf(t, S) == IF S = {} THEN NoDue ELSE [task |-> t, left |-> S]

Above(S, k) == {j \in S : j > k}

\* The arguments that go to node n in the course of a task.
Cargo(t, n, home) == IF home[t] = n THEN SentResults(t) ELSE SentArgs(t)

\* What follows message m on a channel to node n.
Rest(m, n, home) ==
  IF m.type = "TORC_BCAST" THEN DueOf(NULL, {0})
  ELSE IF m.type = "TORC_NORMAL_ENQUEUE" THEN DueOf(m.task, SentArgs(m.task))
  ELSE IF m.type = "TORC_ANSWER" THEN DueOf(m.task, SentResults(m.task))
  ELSE IF m.type = "stolen" /\ home[m.task] # n THEN DueOf(m.task, SentArgs(m.task))
  ELSE IF m.type = "data" /\ m.task # NULL
         THEN DueOf(m.task, Above(Cargo(m.task, n, home), m.i))
  ELSE NoDue

\* Message m may come where d is due.
Link(d, m) ==
  IF m.type = "data" THEN d # NoDue /\ m.task = d.task /\ m.i = Min(d.left) ELSE d = NoDue

\* The positions of a channel that hold replies to a thief, or that do not.
Lane(q, L) == {p \in DOMAIN q : (q[p].tag >= 100) = L}

\* The messages of a lane fit together: from what the receiver waits for to
\* what the sender still has to send.
ChainOf(q, L, dr, ds, n, home) ==
  /\ Lane(q, L) = {} => dr = ds
  /\ \A p \in Lane(q, L) :
       /\ (\A k \in Lane(q, L) : k >= p) => Link(dr, q[p])
       /\ (\A k \in Lane(q, L) : k <= p) => ds = Rest(q[p], n, home)
       /\ \A r \in Lane(q, L) :
            p < r /\ (\A k \in Lane(q, L) : k <= p \/ k >= r) => Link(Rest(q[p], n, home), q[r])

\* The message that was appended, in its lane and in the other one.
LEMMA ChainAppended ==
  ASSUME NEW S, NEW q \in Seq(S), NEW m, NEW L \in BOOLEAN, NEW dr, NEW ds, NEW n, NEW home,
         ChainOf(q, L, dr, ds, n, home), (m.tag >= 100) = L, Link(ds, m)
  PROVE  ChainOf(Append(q, m), L, dr, Rest(m, n, home), n, home)
<1> DEFINE r == Append(q, m)
           e == Len(q) + 1
<1>1. /\ DOMAIN r = 1 .. e /\ e \in Nat /\ e \in DOMAIN r /\ r[e] = m
      /\ \A p \in DOMAIN q : p \in DOMAIN r /\ p < e /\ r[p] = q[p] /\ p \in Nat
      /\ \A p \in DOMAIN r : p \in DOMAIN q \/ p = e
  BY AppendFacts
<1> HIDE DEF r, e
<1>2. Lane(r, L) = Lane(q, L) \cup {e} /\ e \notin Lane(q, L)
      /\ \A p \in Lane(q, L) : p \in Nat /\ p < e /\ r[p] = q[p] /\ ~ (p >= e) /\ p <= e
  BY <1>1 DEF Lane
<1>3. e <= e /\ e >= e /\ e \in Nat
  BY <1>1
<1>4. ASSUME \A k \in Lane(r, L) : k >= e PROVE Link(dr, m)
  <2>1. Lane(q, L) = {}
    BY <1>2, <1>4
  <2> QED
    BY <2>1 DEF ChainOf
<1>5. ASSUME NEW p \in Lane(q, L), \A k \in Lane(r, L) : k <= p \/ k >= e
      PROVE  Link(Rest(q[p], n, home), m)
  <2>1. \A k \in Lane(q, L) : k <= p
    BY <1>2, <1>5
  <2> QED
    BY <2>1 DEF ChainOf
<1>6. ASSUME NEW p \in Lane(r, L)
      PROVE  /\ (\A k \in Lane(r, L) : k >= p) => Link(dr, r[p])
             /\ (\A k \in Lane(r, L) : k <= p) => Rest(m, n, home) = Rest(r[p], n, home)
             /\ \A z \in Lane(r, L) : p < z /\ (\A k \in Lane(r, L) : k <= p \/ k >= z)
                  => Link(Rest(r[p], n, home), r[z])
  <2>1. CASE p = e
    <3>1. \A z \in Lane(r, L) : ~ (p < z)
      BY <1>2, <1>3, <2>1
    <3> QED
      BY <1>1, <1>4, <2>1, <3>1
  <2>2. CASE p # e
    <3>1. p \in Lane(q, L) /\ r[p] = q[p]
      BY <1>2, <1>6, <2>2
    <3>2. ~ (\A k \in Lane(r, L) : k <= p)
      BY <1>2, <3>1
    <3>3. (\A k \in Lane(r, L) : k >= p) => Link(dr, r[p])
      BY <1>2, <3>1 DEF ChainOf
    <3>4. ASSUME NEW z \in Lane(r, L), p < z, \A k \in Lane(r, L) : k <= p \/ k >= z
          PROVE  Link(Rest(r[p], n, home), r[z])
      <4>1. CASE z = e
        BY <1>1, <1>5, <3>1, <3>4, <4>1
      <4>2. CASE z # e
        <5>1. z \in Lane(q, L) /\ r[z] = q[z] /\ \A k \in Lane(q, L) : k <= p \/ k >= z
          BY <1>2, <3>4, <4>2
        <5> QED
          BY <3>1, <3>4, <5>1 DEF ChainOf
      <4> QED
        BY <4>1, <4>2
    <3> QED
      BY <3>2, <3>3, <3>4
  <2> QED
    BY <2>1, <2>2
<1>7. Lane(r, L) # {}
  BY <1>2
<1> QED
  BY <1>6, <1>7 DEF ChainOf, r

LEMMA OtherLaneAppended ==
  ASSUME NEW S, NEW q \in Seq(S), NEW m, NEW L \in BOOLEAN, (m.tag >= 100) # L
  PROVE  /\ Lane(Append(q, m), L) = Lane(q, L)
         /\ \A p \in Lane(q, L) : Append(q, m)[p] = q[p]
<1> DEFINE r == Append(q, m)
           e == Len(q) + 1
<1>1. /\ DOMAIN r = 1 .. e /\ e \in DOMAIN r /\ r[e] = m
      /\ \A p \in DOMAIN q : p \in DOMAIN r /\ r[p] = q[p]
      /\ \A p \in DOMAIN r : p \in DOMAIN q \/ p = e
  BY AppendFacts
<1> HIDE DEF r, e
<1> QED
  BY <1>1 DEF Lane, r

\* Only the messages of the lane matter, and where their tasks are at home.
LEMMA SameLane ==
  ASSUME NEW q, NEW r, NEW L, NEW dr, NEW ds, NEW n, NEW home, NEW home2,
         Lane(r, L) = Lane(q, L),
         \A p \in Lane(q, L) : r[p] = q[p] /\ Rest(q[p], n, home2) = Rest(q[p], n, home),
         ChainOf(q, L, dr, ds, n, home)
  PROVE  ChainOf(r, L, dr, ds, n, home2)
BY DEF ChainOf

\* The first message of a lane has been taken.
LEMMA ChainTaken ==
  ASSUME NEW S, NEW q \in Seq(S), NEW L \in BOOLEAN, NEW dr, NEW ds, NEW n, NEW home,
         ChainOf(q, L, dr, ds, n, home),
         NEW f \in Lane(q, L), \A k \in Lane(q, L) : k >= f
  PROVE  ChainOf(RemoveAt(q, f), L, Rest(q[f], n, home), ds, n, home)
<1> DEFINE r == RemoveAt(q, f)
           g(p) == Shift(f, p)
<1>0. f \in DOMAIN q /\ DOMAIN q \subseteq Nat
  BY DEF Lane
<1>1. /\ DOMAIN r \subseteq Nat
      /\ \A p \in DOMAIN r : g(p) \in DOMAIN q \ {f} /\ r[p] = q[g(p)] /\ g(p) \in Nat
      /\ \A p, z \in DOMAIN r : p < z <=> g(p) < g(z)
      /\ \A k \in DOMAIN q \ {f} : \E p \in DOMAIN r : g(p) = k
  <2>1. /\ DOMAIN r = 1 .. Len(q) - 1
        /\ \A p \in DOMAIN r : g(p) \in DOMAIN q \ {f} /\ r[p] = q[g(p)]
        /\ \A p, z \in DOMAIN r : p < z <=> g(p) < g(z)
        /\ \A k \in DOMAIN q \ {f} : \E p \in DOMAIN r : g(p) = k
    BY <1>0, RemoveFacts
  <2> HIDE DEF r, g
  <2>2. Len(q) - 1 \in Int /\ 1 .. Len(q) - 1 \subseteq Nat
    OBVIOUS
  <2> QED
    BY <1>0, <2>1, <2>2
<1> HIDE DEF r, g
<1>2. /\ \A p \in Lane(r, L) : p \in DOMAIN r /\ g(p) \in Lane(q, L) /\ g(p) # f /\ g(p) > f
      /\ \A p \in DOMAIN r : g(p) \in Lane(q, L) => p \in Lane(r, L)
  BY <1>0, <1>1 DEF Lane
<1>3. \A p, z \in Lane(r, L) : (p <= z <=> g(p) <= g(z)) /\ (p >= z <=> g(p) >= g(z))
  <2> SUFFICES ASSUME NEW p \in DOMAIN r, NEW z \in DOMAIN r
               PROVE  (p <= z <=> g(p) <= g(z)) /\ (p >= z <=> g(p) >= g(z))
    BY <1>2
  <2>1. p \in Nat /\ z \in Nat /\ g(p) \in Nat /\ g(z) \in Nat /\ (p < z <=> g(p) < g(z)) /\ (z < p <=> g(z) < g(p))
    BY <1>1
  <2> QED
    BY <2>1
<1>4. \A k \in Lane(q, L) : k # f => \E p \in Lane(r, L) : g(p) = k
  BY <1>1, <1>2 DEF Lane
<1>5. ASSUME Lane(r, L) = {} PROVE Rest(q[f], n, home) = ds
  <2>1. \A k \in Lane(q, L) : k <= f
    BY <1>0, <1>4, <1>5
  <2> QED
    BY <2>1 DEF ChainOf
<1>6. ASSUME NEW p \in Lane(r, L)
      PROVE  /\ (\A k \in Lane(r, L) : k >= p) => Link(Rest(q[f], n, home), r[p])
             /\ (\A k \in Lane(r, L) : k <= p) => ds = Rest(r[p], n, home)
             /\ \A z \in Lane(r, L) : p < z /\ (\A k \in Lane(r, L) : k <= p \/ k >= z)
                  => Link(Rest(r[p], n, home), r[z])
  <2>0. r[p] = q[g(p)] /\ g(p) \in Lane(q, L) /\ f < g(p) /\ f <= g(p) /\ f <= f
    BY <1>0, <1>1, <1>2
  <2>1. ASSUME \A k \in Lane(r, L) : k >= p PROVE Link(Rest(q[f], n, home), r[p])
    <3>1. \A k \in Lane(q, L) : k <= f \/ k >= g(p)
      <4> TAKE k \in Lane(q, L)
      <4>1. CASE k = f
        BY <2>0, <4>1
      <4>2. CASE k # f
        <5>1. PICK z \in Lane(r, L) : g(z) = k
          BY <1>4, <4>2
        <5> QED
          BY <1>3, <2>1, <5>1
      <4> QED
        BY <4>1, <4>2
    <3> QED
      BY <2>0, <3>1 DEF ChainOf
  <2>2. ASSUME \A k \in Lane(r, L) : k <= p PROVE ds = Rest(r[p], n, home)
    <3>1. \A k \in Lane(q, L) : k <= g(p)
      <4> TAKE k \in Lane(q, L)
      <4>1. CASE k = f
        BY <2>0, <4>1
      <4>2. CASE k # f
        <5>1. PICK z \in Lane(r, L) : g(z) = k
          BY <1>4, <4>2
        <5> QED
          BY <1>3, <2>2, <5>1
      <4> QED
        BY <4>1, <4>2
    <3> QED
      BY <2>0, <3>1 DEF ChainOf
  <2>3. ASSUME NEW z \in Lane(r, L), p < z, \A k \in Lane(r, L) : k <= p \/ k >= z
        PROVE  Link(Rest(r[p], n, home), r[z])
    <3>0. r[z] = q[g(z)] /\ g(z) \in Lane(q, L) /\ g(p) < g(z)
      BY <1>1, <1>2, <2>3
    <3>1. \A k \in Lane(q, L) : k <= g(p) \/ k >= g(z)
      <4> TAKE k \in Lane(q, L)
      <4>1. CASE k = f
        BY <2>0, <4>1
      <4>2. CASE k # f
        <5>1. PICK y \in Lane(r, L) : g(y) = k
          BY <1>4, <4>2
        <5>2. y <= p \/ y >= z
          BY <2>3, <5>1
        <5> QED
          BY <1>3, <5>1, <5>2
      <4> QED
        BY <4>1, <4>2
    <3> QED
      BY <2>0, <3>0, <3>1 DEF ChainOf
  <2> QED
    BY <2>1, <2>2, <2>3
<1>7. ChainOf(r, L, Rest(q[f], n, home), ds, n, home)
  BY <1>5, <1>6 DEF ChainOf
<1> QED
  BY <1>7 DEF r

\* The other lane loses nothing when a message is taken.
LEMMA OtherChainTaken ==
  ASSUME NEW S, NEW q \in Seq(S), NEW L \in BOOLEAN, NEW dr, NEW ds, NEW n, NEW home,
         ChainOf(q, L, dr, ds, n, home), NEW f \in DOMAIN q, f \notin Lane(q, L)
  PROVE  ChainOf(RemoveAt(q, f), L, dr, ds, n, home)
<1> DEFINE r == RemoveAt(q, f)
           g(p) == Shift(f, p)
<1>0. DOMAIN q \subseteq Nat
  BY DEF Lane
<1>1. /\ DOMAIN r \subseteq Nat
      /\ \A p \in DOMAIN r : g(p) \in DOMAIN q \ {f} /\ r[p] = q[g(p)] /\ g(p) \in Nat
      /\ \A p, z \in DOMAIN r : p < z <=> g(p) < g(z)
      /\ \A k \in DOMAIN q \ {f} : \E p \in DOMAIN r : g(p) = k
  <2>1. /\ DOMAIN r = 1 .. Len(q) - 1
        /\ \A p \in DOMAIN r : g(p) \in DOMAIN q \ {f} /\ r[p] = q[g(p)]
        /\ \A p, z \in DOMAIN r : p < z <=> g(p) < g(z)
        /\ \A k \in DOMAIN q \ {f} : \E p \in DOMAIN r : g(p) = k
    BY <1>0, RemoveFacts
  <2> HIDE DEF r, g
  <2>2. Len(q) - 1 \in Int /\ 1 .. Len(q) - 1 \subseteq Nat
    OBVIOUS
  <2> QED
    BY <1>0, <2>1, <2>2
<1> HIDE DEF r, g
<1>2. /\ \A p \in Lane(r, L) : p \in DOMAIN r /\ g(p) \in Lane(q, L) /\ r[p] = q[g(p)]
      /\ \A k \in Lane(q, L) : \E p \in Lane(r, L) : g(p) = k
  BY <1>0, <1>1 DEF Lane
<1>3. \A p, z \in Lane(r, L) :
        (p < z <=> g(p) < g(z)) /\ (p <= z <=> g(p) <= g(z)) /\ (p >= z <=> g(p) >= g(z))
  <2> SUFFICES ASSUME NEW p \in DOMAIN r, NEW z \in DOMAIN r
               PROVE  (p < z <=> g(p) < g(z)) /\ (p <= z <=> g(p) <= g(z)) /\ (p >= z <=> g(p) >= g(z))
    BY <1>2
  <2>1. p \in Nat /\ z \in Nat /\ g(p) \in Nat /\ g(z) \in Nat /\ (p < z <=> g(p) < g(z)) /\ (z < p <=> g(z) < g(p))
    BY <1>1
  <2> QED
    BY <2>1
<1>5. ASSUME Lane(r, L) = {} PROVE dr = ds
  BY <1>2, <1>5 DEF ChainOf
<1>6. ASSUME NEW p \in Lane(r, L)
      PROVE  /\ (\A k \in Lane(r, L) : k >= p) => Link(dr, r[p])
             /\ (\A k \in Lane(r, L) : k <= p) => ds = Rest(r[p], n, home)
             /\ \A z \in Lane(r, L) : p < z /\ (\A k \in Lane(r, L) : k <= p \/ k >= z)
                  => Link(Rest(r[p], n, home), r[z])
  <2>0. r[p] = q[g(p)] /\ g(p) \in Lane(q, L)
    BY <1>2
  <2>1. ASSUME \A k \in Lane(r, L) : k >= p PROVE Link(dr, r[p])
    <3>1. \A k \in Lane(q, L) : k >= g(p)
      BY <1>2, <1>3, <2>1
    <3> QED
      BY <2>0, <3>1 DEF ChainOf
  <2>2. ASSUME \A k \in Lane(r, L) : k <= p PROVE ds = Rest(r[p], n, home)
    <3>1. \A k \in Lane(q, L) : k <= g(p)
      BY <1>2, <1>3, <2>2
    <3> QED
      BY <2>0, <3>1 DEF ChainOf
  <2>3. ASSUME NEW z \in Lane(r, L), p < z, \A k \in Lane(r, L) : k <= p \/ k >= z
        PROVE  Link(Rest(r[p], n, home), r[z])
    <3>0. r[z] = q[g(z)] /\ g(z) \in Lane(q, L) /\ g(p) < g(z)
      BY <1>2, <1>3, <2>3
    <3>1. \A k \in Lane(q, L) : k <= g(p) \/ k >= g(z)
      <4> TAKE k \in Lane(q, L)
      <4>1. PICK y \in Lane(r, L) : g(y) = k
        BY <1>2
      <4>2. y <= p \/ y >= z
        BY <2>3, <4>1
      <4> QED
        BY <1>3, <4>1, <4>2
    <3> QED
      BY <2>0, <3>0, <3>1 DEF ChainOf
  <2> QED
    BY <2>1, <2>2, <2>3
<1>7. ChainOf(r, L, dr, ds, n, home)
  BY <1>5, <1>6 DEF ChainOf
<1> QED
  BY <1>7 DEF r

\* The first message of a lane with messages.
LEMMA LaneFirst ==
  ASSUME NEW S, NEW q \in Seq(S), NEW L, NEW dr, NEW ds, NEW n, NEW home,
         ChainOf(q, L, dr, ds, n, home), Lane(q, L) # {}
  PROVE  \E f \in Lane(q, L) : (\A k \in Lane(q, L) : k >= f) /\ Link(dr, q[f])
<1>1. Lane(q, L) \subseteq Nat
  BY DEF Lane
<1>2. PICK f \in Lane(q, L) : \A k \in Lane(q, L) : f <= k
  BY <1>1, LeastNumber
<1>3. \A k \in Lane(q, L) : k >= f
  BY <1>1, <1>2
<1> QED
  BY <1>3 DEF ChainOf

\* The message after another one of the lane, which is not the last.
LEMMA LaneNext ==
  ASSUME NEW S, NEW q \in Seq(S), NEW L, NEW dr, NEW ds, NEW n, NEW home,
         ChainOf(q, L, dr, ds, n, home), NEW p \in Lane(q, L),
         ~ \A k \in Lane(q, L) : k <= p
  PROVE  \E r \in Lane(q, L) : p < r /\ Link(Rest(q[p], n, home), q[r])
<1> DEFINE T == {k \in Lane(q, L) : k > p}
<1>1. Lane(q, L) \subseteq Nat
  BY DEF Lane
<1>2. T # {} /\ T \subseteq Nat
  BY <1>1
<1>3. PICK r \in T : \A k \in T : r <= k
  <2> HIDE DEF T
  <2> QED
    BY <1>2, LeastNumber
<1>4. r \in Lane(q, L) /\ p < r /\ \A k \in Lane(q, L) : k <= p \/ k >= r
  BY <1>1, <1>3
<1> QED
  BY <1>4 DEF ChainOf

\* What is in a lane for a task comes after its descriptor, or is what the
\* receiver waits for.
LEMMA Block ==
  ASSUME NEW S, NEW q \in Seq(S), NEW L, NEW dr, NEW ds, NEW n, NEW home,
         ChainOf(q, L, dr, ds, n, home), NEW t \in Task, dr.task # t,
         \A p \in Lane(q, L) : q[p].task = t => q[p].type = "data"
  PROVE  /\ \A p \in Lane(q, L) : q[p].task # t
         /\ ds.task # t
<1>0. Lane(q, L) \subseteq 1 .. Len(q) /\ Len(q) \in Nat /\ NULL # t /\ Lane(q, L) \subseteq Nat
  <2>1. Lane(q, L) \subseteq 1 .. Len(q) /\ Len(q) \in Nat
    BY DEF Lane
  <2>2. 1 .. Len(q) \subseteq Nat
    BY <2>1
  <2> QED
    BY <2>1, <2>2, DistinctAssumption
<1>1. \A m : Rest(m, n, home).task = t => m.task = t
  BY <1>0 DEF Rest, DueOf, NoDue
<1> DEFINE T == {p \in Lane(q, L) : q[p].task = t}
<1>2. ASSUME T # {} PROVE FALSE
  <2>1. PICK p \in T : \A k \in T : p <= k
    <3>1. T \subseteq Nat
      BY <1>0
    <3> HIDE DEF T
    <3> QED
      BY <1>2, <3>1, LeastNumber
  <2>2. q[p].type = "data" /\ p \in Lane(q, L) /\ q[p].task = t
    OBVIOUS
  <2> DEFINE B == {k \in Lane(q, L) : k < p}
  <2>3. CASE B = {}
    <3>1. \A k \in Lane(q, L) : k >= p
      BY <1>0, <2>3
    <3>2. Link(dr, q[p])
      BY <2>2, <3>1 DEF ChainOf
    <3> QED
      BY <2>2, <3>2 DEF Link
  <2>4. CASE B # {}
    <3>1. PICK b \in B : \A k \in B : k <= b
      <4>1. B \subseteq 1 .. Len(q)
        BY <1>0
      <4> HIDE DEF B
      <4> QED
        BY <1>0, <2>4, <4>1, GreatestNumber
    <3>2. b \in Lane(q, L) /\ b < p /\ \A k \in Lane(q, L) : k <= b \/ k >= p
      BY <1>0, <3>1
    <3>3. Link(Rest(q[b], n, home), q[p])
      BY <2>2, <3>2 DEF ChainOf
    <3>4. q[b].task = t
      BY <1>1, <2>2, <3>3 DEF Link
    <3>5. ~ (p <= b)
      BY <1>0, <2>2, <3>2
    <3> QED
      BY <2>1, <3>2, <3>4, <3>5
  <2> QED
    BY <2>3, <2>4
<1>3. ASSUME ds.task = t PROVE FALSE
  <2>1. CASE Lane(q, L) = {}
    BY <1>3, <2>1 DEF ChainOf
  <2>2. CASE Lane(q, L) # {}
    <3>1. PICK e \in Lane(q, L) : \A k \in Lane(q, L) : k <= e
      BY <1>0, <2>2, GreatestNumber
    <3>2. ds = Rest(q[e], n, home)
      BY <3>1 DEF ChainOf
    <3> QED
      BY <1>1, <1>2, <1>3, <3>2
  <2> QED
    BY <2>1, <2>2
<1> QED
  BY <1>2, <1>3

\* Parts of a set of numbers from some number on.
Upper(A, S) == A \subseteq S /\ \A a \in A, b \in S : b >= a => b \in A

LEMMA UpperRest ==
  ASSUME NEW S \in SUBSET Nat, NEW A, Upper(A, S), A # {}
  PROVE  /\ Min(A) \in A /\ Min(A) \in S /\ Min(A) \in Nat
         /\ A \ {Min(A)} = Above(S, Min(A))
         /\ Upper(A \ {Min(A)}, S)
<1>1. A \subseteq Nat /\ A \subseteq S
  BY DEF Upper
<1>2. Min(A) \in A /\ \A y \in A : Min(A) <= y
  BY <1>1, MinIsLeast
<1> DEFINE i == Min(A)
<1> HIDE DEF i
<1>3. i \in A /\ \A y \in A : i <= y
  BY <1>2 DEF i
<1>4. A \ {i} = Above(S, i)
  <2>1. \A y \in A \ {i} : y \in S /\ y > i
    BY <1>1, <1>3
  <2>2. \A y \in S : y > i => y \in A /\ y # i
    BY <1>1, <1>3 DEF Upper
  <2> QED
    BY <2>1, <2>2 DEF Above
<1>5. Upper(A \ {i}, S)
  BY <1>1, <1>3 DEF Upper
<1> QED
  BY <1>1, <1>3, <1>4, <1>5 DEF i

LEMMA UpperSelf == \A S : Upper(S, S)
BY DEF Upper

----------------------------------------------------------------------------
(* Arguments, threads and tags.                                            *)

LEMMA ArgFacts ==
  ASSUME NEW t \in Task
  PROVE  /\ DOMAIN args[t] \subseteq Nat
         /\ \A ways : Args(t, ways) \subseteq DOMAIN args[t]
         /\ SentArgs(t) \subseteq DOMAIN args[t] /\ SentArgs(t) \subseteq Nat
         /\ SentResults(t) \subseteq DOMAIN args[t] /\ SentResults(t) \subseteq Nat
<1>1. args[t] \in Seq(ArgSpec)
  BY TasksAssumption
<1>2. DOMAIN args[t] = 1 .. Len(args[t]) /\ Len(args[t]) \in Nat
  BY <1>1
<1>3. DOMAIN args[t] \subseteq Nat
  BY <1>2
<1> QED
  BY <1>3 DEF Args, SentArgs, SentResults

\* The receiver of a task waits for the arguments that its sender sends, and
\* the home node for the results that are sent back.
LEMMA Pairing ==
  ASSUME NEW t \in Task
  PROVE  /\ AwaitedArgs(t) = SentArgs(t)
         /\ AwaitedResults(t) = SentResults(t)
         /\ Outputs(t) = SentResults(t)
         /\ Inputs(t) = SentArgs(t) \cup Args(t, {"COP", "VAD"})
<1>1. args[t] \in Seq(ArgSpec)
  BY TasksAssumption
<1>2. ASSUME NEW i \in DOMAIN args[t]
      PROVE  i \in AwaitedArgs(t) <=> i \in SentArgs(t)
  <2>1. args[t][i] \in ArgSpec
    BY <1>1, <1>2
  <2>2. /\ Quantity(t, i) \in 0 .. 2
        /\ args[t][i].callway \in {"COP", "VAD", "REF", "PTR", "RES"}
        /\ args[t][i].callway = "VAD" => Quantity(t, i) <= 1
    BY <2>1 DEF ArgSpec, Quantity
  <2>3. /\ Way(t, i) \in {"COP", "COP2", "VAD", "REF", "PTR", "RES"}
        /\ Way(t, i) \in {"COP", "VAD"} => ~ (Quantity(t, i) > 1)
    BY <2>2 DEF Way
  <2> QED
    BY <1>2, <2>3 DEF AwaitedArgs, SentArgs, Args
<1>3. AwaitedArgs(t) \subseteq DOMAIN args[t] /\ SentArgs(t) \subseteq DOMAIN args[t]
  BY DEF AwaitedArgs, SentArgs, Args
<1>4. AwaitedArgs(t) = SentArgs(t)
  BY <1>2, <1>3
<1>5. AwaitedResults(t) = SentResults(t) /\ Outputs(t) = SentResults(t)
  BY DEF AwaitedResults, SentResults, Outputs, Args
<1>6. Inputs(t) = SentArgs(t) \cup Args(t, {"COP", "VAD"})
  BY DEF Inputs, SentArgs, Args
<1> QED
  BY <1>4, <1>5, <1>6

LEMMA Threads ==
  /\ \A w \in Worker : w \in Thread /\ w \notin Node /\ Here(w) = node_of[w] /\ Here(w) \in Node
  /\ \A n \in Node : n \in Thread /\ n \notin Worker /\ Here(n) = n
  /\ \A s \in Thread : (s \in Worker \/ s \in Node) /\ Here(s) \in Node /\ s # NULL
  /\ \A s \in Thread : s = Broadcaster => s \in Worker
BY NodesAssumption, CallsAssumption, DistinctAssumption DEF Thread, Here

LEMMA Tags ==
  /\ MAX_NVPS \in Nat /\ MAX_NVPS < 100
  /\ \A w \in Worker : Tag(w) \in Nat /\ Tag(w) < MAX_NVPS /\ Tag(w) < 100 /\ ReplyTag(w) \in Nat
                       /\ ReplyTag(w) >= 100 /\ ReplyTag(w) <= MAX_NVPS + 100
  /\ \A n \in Node : Tag(n) = MAX_NVPS
  /\ \A s \in Thread : Tag(s) \in Nat /\ Tag(s) <= MAX_NVPS /\ Tag(s) < 100
  /\ \A v, w \in Worker : Here(v) = Here(w) /\ (Tag(v) = Tag(w) \/ ReplyTag(v) = ReplyTag(w)) => v = w
<1>1. MAX_NVPS \in Nat /\ MAX_NVPS < 100
  BY NodesAssumption
<1>2. ASSUME NEW w \in Worker PROVE Tag(w) \in Nat /\ Tag(w) < MAX_NVPS /\ Tag(w) = vpid[w]
  <2>1. vpid[w] \in 0 .. MAX_NVPS - 1
    BY NodesAssumption
  <2> QED
    BY <1>1, <2>1 DEF Tag
<1>3. \A n \in Node : Tag(n) = MAX_NVPS
  BY Threads DEF Tag
<1>4. ASSUME NEW w \in Worker
      PROVE  /\ Tag(w) < 100 /\ ReplyTag(w) \in Nat
             /\ ReplyTag(w) >= 100 /\ ReplyTag(w) <= MAX_NVPS + 100
  BY <1>1, <1>2 DEF ReplyTag
<1>5. ASSUME NEW v \in Worker, NEW w \in Worker, Here(v) = Here(w),
             Tag(v) = Tag(w) \/ ReplyTag(v) = ReplyTag(w)
      PROVE  v = w
  <2>1. Tag(v) = Tag(w)
    BY <1>2, <1>5 DEF ReplyTag
  <2> QED
    BY <1>2, <1>5, <2>1, Threads, NodesAssumption
<1>6. ASSUME NEW s \in Thread PROVE Tag(s) \in Nat /\ Tag(s) <= MAX_NVPS /\ Tag(s) < 100
  BY <1>1, <1>2, <1>3, Threads
<1> QED
  BY <1>1, <1>2, <1>3, <1>4, <1>5, <1>6

----------------------------------------------------------------------------
(* Types.                                                                  *)

Descriptors == {"TORC_NORMAL_ENQUEUE", "TORC_ANSWER", "stolen"}

\* Messages of the kinds the program sends.
Letter ==
  {m \in Message :
     /\ m.type \in Descriptors => m.task \in Task
     /\ m.type \in {"STEALING_REQUEST", "TORC_NO_WORK", "TORC_BCAST"} => m.task = NULL
     /\ m.value \in IF m.type # "data" THEN {NULL}
                    ELSE IF m.task = NULL THEN {"old", "new"} ELSE Content}

\* What a thread may be busy with.
Busy(d, s) ==
  /\ d \in Activity
  /\ d.op \in {"run", "send", "result", "receive", "collect"} <=> d.task \in Task
  /\ d.inside # NULL => d.op = "send"
  /\ d.op \in {"idle", "run", "asked", "refused", "bcast", "ssend", "telling"} => d.left = {}
  /\ d.op \in {"send", "receive"} => Upper(d.left, SentArgs(d.task))
  /\ d.op \in {"result", "collect"} => Upper(d.left, SentResults(d.task))
  /\ d.op \in {"send", "result"} => d.left # {}
  /\ d.op \in {"buffer", "arriving"} => d.left = {0}
  /\ d.op \in {"send", "receive", "collect", "asked", "refused", "bcast", "ssend", "buffer"}
       => d.peer \in Node
  /\ d.op \in {"send", "asked", "refused", "bcast", "ssend"} => d.peer # Here(s)
  /\ d.op \in {"bcast", "ssend", "telling"} => s = Broadcaster
  /\ d.op \in {"asked", "refused"} => s \in Worker /\ d.tag = ReplyTag(s)
  /\ d.op \in {"collect", "buffer", "arriving"} => s \in Node /\ d.tag <= MAX_NVPS
  /\ d.op = "receive" => IF s \in Worker THEN d.tag = ReplyTag(s) ELSE d.tag <= MAX_NVPS
  /\ d.op = "send" /\ s \in Worker => d.tag = Tag(s)
  /\ d.op \in {"result", "bcast", "ssend"} => d.tag = Tag(s)

\* The arguments of all tasks.
Cell == UNION {[DOMAIN args[t] -> Content] : t \in Task}

Memory == {f \in [Task -> Cell] : \A t \in Task : f[t] \in [DOMAIN args[t] -> Content]}

ChanType   == chan \in [Thread \X Node -> Seq(Letter)]
DoingType  == doing \in [Thread -> Activity] /\ \A s \in Thread : Busy(doing[s], s)
MemoryType == localarg \in Memory /\ temparg \in [Node -> Memory]
TaskType   == /\ homenode \in [Task -> Node \cup {NULL}]
              /\ ready \in [Node -> SUBSET Task]
              /\ finished \subseteq Task /\ after \subseteq Task
RestType   == /\ thread_safe \in BOOLEAN
              /\ comm_m \in [Node -> Thread \cup {NULL}]
              /\ internode_stealing \in [Node -> BOOLEAN]
              /\ buffer \in [Node -> {"old", "new"}]
              /\ told \subseteq Node

Types == ChanType /\ DoingType /\ MemoryType /\ TaskType /\ RestType

LEMMA TypesImplyTypeOK == Types => TypeOK
<1> SUFFICES ASSUME Types PROVE TypeOK
  OBVIOUS
<1>1. chan \in [Thread \X Node -> Seq(Message)]
  <2>1. ASSUME NEW q \in Seq(Letter) PROVE q \in Seq(Message)
    <3>1. \A i \in 1 .. Len(q) : q[i] \in Message
      BY DEF Letter
    <3>2. Len(q) \in Nat /\ q = [i \in 1 .. Len(q) |-> q[i]]
      OBVIOUS
    <3>3. [i \in 1 .. Len(q) |-> q[i]] \in Seq(Message)
      BY <3>1, <3>2
    <3> QED
      BY <3>2, <3>3
  <2> QED
    BY <2>1 DEF Types, ChanType
<1>2. \A t \in Task : /\ localarg[t] \in [DOMAIN args[t] -> Content]
                      /\ \A n \in Node : temparg[n][t] \in [DOMAIN args[t] -> Content]
  BY DEF Types, MemoryType, Memory
<1> QED
  BY <1>1, <1>2 DEF Types, TypeOK, DoingType, TaskType, RestType

LEMMA InitTypes == Init => Types
<1> SUFFICES ASSUME Init PROVE Types
  OBVIOUS
<1>1. ChanType
  BY DEF Init, ChanType
<1>2. DoingType
  <2>1. Idle \in Activity
    BY Tags DEF Idle, Act, Activity
  <2>2. \A s : Busy(Idle, s)
    BY <2>1, DistinctAssumption DEF Busy, Idle, Act
  <2> QED
    BY <2>1, <2>2 DEF Init, DoingType
<1>3. MemoryType
  <2> DEFINE z == [t \in Task |-> [i \in DOMAIN args[t] |-> "none"]]
  <2>1. \A t \in Task : z[t] \in [DOMAIN args[t] -> Content]
    BY DEF Content
  <2>2. z \in [Task -> Cell]
    BY <2>1 DEF Cell
  <2>3. z \in Memory
    BY <2>1, <2>2 DEF Memory
  <2> QED
    BY <2>3 DEF Init, MemoryType
<1>4. TaskType
  BY DEF Init, TaskType
<1>5. RestType
  <2>1. \A T : [n \in Node |-> n \in T] \in [Node -> BOOLEAN]
    OBVIOUS
  <2>2. internode_stealing \in [Node -> BOOLEAN]
    <3>1. PICK T \in Thieves : internode_stealing = [n \in Node |-> n \in T]
      BY DEF Init
    <3> QED
      BY <2>1, <3>1
  <2>3. buffer \in [Node -> {"old", "new"}]
    BY DEF Init
  <2>4. comm_m \in [Node -> Thread \cup {NULL}] /\ thread_safe \in BOOLEAN /\ told = {}
    BY CallsAssumption DEF Init
  <2> QED
    BY <2>2, <2>3, <2>4 DEF RestType
<1> QED
  BY <1>1, <1>2, <1>3, <1>4, <1>5 DEF Types

LEMMA SendType ==
  ASSUME ChanType, NEW s, NEW n, NEW m \in Letter, Send(s, n, m) PROVE ChanType'
<1>1. \A c \in Thread \X Node : Append(chan[c], m) \in Seq(Letter)
  BY DEF ChanType
<1> QED
  BY <1>1 DEF ChanType, Send

LEMMA ReceiveType ==
  ASSUME ChanType, NEW s \in Thread, NEW n \in Node, NEW tag, Receive(s, n, tag)
  PROVE  ChanType'
<1>1. chan[<<s, n>>] \in Seq(Letter)
  BY DEF ChanType
<1>2. First(s, n, tag) \in DOMAIN chan[<<s, n>>]
  BY <1>1, FirstFacts DEF Receive
<1>3. RemoveAt(chan[<<s, n>>], First(s, n, tag)) \in Seq(Letter)
  BY <1>1, <1>2, RemoveFacts
<1> QED
  BY <1>3 DEF ChanType, Receive

LEMMA ReceivedType ==
  ASSUME ChanType, NEW s \in Thread, NEW n \in Node, NEW tag, First(s, n, tag) # 0
  PROVE  Received(s, n, tag) \in Letter /\ Received(s, n, tag).tag = tag
<1>1. chan[<<s, n>>] \in Seq(Letter)
  BY DEF ChanType
<1>2. First(s, n, tag) \in DOMAIN chan[<<s, n>>] /\ Received(s, n, tag).tag = tag
  BY <1>1, FirstFacts DEF Received
<1> QED
  BY <1>1, <1>2 DEF Received

LEMMA DoType ==
  ASSUME DoingType, NEW s \in Thread, NEW d, Busy(d, s), Do(s, d)
  PROVE  DoingType' /\ doing'[s] = d /\ \A r \in Thread : r # s => doing'[r] = doing[r]
<1>1. d \in Activity
  BY DEF Busy
<1>2. /\ doing' \in [Thread -> Activity] /\ doing'[s] = d
      /\ \A r \in Thread : r # s => doing'[r] = doing[r]
  BY <1>1 DEF DoingType, Do
<1>3. \A r \in Thread : Busy(doing'[r], r)
  BY <1>2 DEF DoingType
<1> QED
  BY <1>2, <1>3 DEF DoingType

LEMMA StoreType ==
  ASSUME NEW f \in Memory, NEW t \in Task, NEW g \in [DOMAIN args[t] -> Content]
  PROVE  [f EXCEPT ![t] = g] \in Memory
<1>1. g \in Cell
  BY DEF Cell
<1> QED
  BY <1>1 DEF Memory

LEMMA IdleBusy == \A s : Busy(Idle, s)
<1>1. Idle \in Activity
  BY Tags DEF Idle, Act, Activity
<1> QED
  BY <1>1, DistinctAssumption DEF Busy, Idle, Act

LEMMA RunBusy == \A t \in Task : \A s : Busy(Run(t), s)
<1>1. \A t \in Task : Run(t) \in Activity
  BY Tags DEF Run, Act, Activity
<1> QED
  BY <1>1, DistinctAssumption DEF Busy, Run, Act

\* What a sender does when it may be done.
LEMMA SettleBusy ==
  ASSUME NEW s \in Thread, NEW op \in {"send", "result"}, NEW t \in Task, NEW A, NEW n \in Node \cup {NULL},
         NEW g \in 0 .. MAX_NVPS + 100, NEW u \in Task \cup {NULL},
         op = "send" => /\ Upper(A, SentArgs(t)) /\ n \in Node /\ n # Here(s)
                        /\ s \in Worker => g = Tag(s),
         op = "result" => Upper(A, SentResults(t)) /\ g = Tag(s) /\ u = NULL
  PROVE  Busy(Settle(Act(op, t, A, n, g, u)), s)
<1> DEFINE d == Act(op, t, A, n, g, u)
<1>1. /\ d.op = op /\ d.task = t /\ d.left = A /\ d.peer = n /\ d.tag = g /\ d.inside = u
  BY DEF Act
<1>2. CASE A = {}
  BY <1>1, <1>2, IdleBusy, RunBusy DEF Settle
<1>3. CASE A # {}
  <2>1. Settle(d) = d
    BY <1>1, <1>3 DEF Settle
  <2>2. A \subseteq Nat
    BY ArgFacts DEF Upper
  <2>3. d \in Activity
    BY <2>2 DEF Act, Activity
  <2> HIDE DEF d
  <2>4. Busy(d, s)
    BY <1>1, <1>3, <2>3, DistinctAssumption DEF Busy
  <2> QED
    BY <2>1, <2>4 DEF d
<1> QED
  BY <1>2, <1>3

LEMMA ActFields ==
  ASSUME NEW d \in Activity
  PROVE  /\ d = Act(d.op, d.task, d.left, d.peer, d.tag, d.inside)
         /\ \A A : [d EXCEPT !.left = A] = Act(d.op, d.task, A, d.peer, d.tag, d.inside)
         /\ \A o : [d EXCEPT !.op = o] = Act(o, d.task, d.left, d.peer, d.tag, d.inside)
BY DEF Act, Activity

LEMMA OneLessFields ==
  ASSUME DoingType, NEW s \in Thread
  PROVE  OneLess(s) = Act(doing[s].op, doing[s].task, doing[s].left \ {NextArg(s)},
                          doing[s].peer, doing[s].tag, doing[s].inside)
<1>1. doing[s] \in Activity
  BY DEF DoingType
<1>2. OneLess(s) = [doing[s] EXCEPT !.left = doing[s].left \ {NextArg(s)}]
  BY <1>1 DEF OneLess
<1> QED
  BY <1>1, <1>2, ActFields

LEMMA CreateTypes == ASSUME Types, NEW s \in Thread, NEW t \in Task, Create(s, t) PROVE Types'
<1> USE DEF Types
<1>1. Here(s) \in Node /\ target[t] \in Node /\ localarg[t] \in [DOMAIN args[t] -> Content]
  BY Threads, TasksAssumption DEF MemoryType, Memory
<1>2. MemoryType'
  <2> DEFINE g == [i \in DOMAIN localarg[t] |-> IF i \in Inputs(t) THEN "in" ELSE "none"]
  <2>1. g \in [DOMAIN args[t] -> Content]
    BY <1>1 DEF Content
  <2>2. localarg' = [localarg EXCEPT ![t] = g] /\ temparg' = temparg
    BY DEF Create
  <2> HIDE DEF g
  <2> QED
    BY <2>1, <2>2, StoreType DEF MemoryType
<1>3. TaskType'
  <2>1. ready' \in [Node -> SUBSET Task]
    BY <1>1 DEF Create, TaskType
  <2>2. homenode' \in [Task -> Node \cup {NULL}] /\ finished' \subseteq Task /\ after' \subseteq Task
    BY <1>1 DEF Create, TaskType
  <2> QED
    BY <2>1, <2>2 DEF TaskType
<1>4. RestType'
  BY DEF Create, RestType
<1>5. ChanType' /\ DoingType'
  <2>1. CASE target[t] = Here(s)
    BY <2>1 DEF Create, ChanType, DoingType
  <2>2. CASE target[t] # Here(s)
    <3> DEFINE m == Descriptor(MAX_NVPS, "TORC_NORMAL_ENQUEUE", t)
               d == Settle(Act("send", t, SentArgs(t), target[t], Tag(s), doing[s].task))
    <3>1. Send(s, target[t], m) /\ Do(s, d)
      BY <2>2 DEF Create
    <3>2. m \in Letter
      BY Tags DEF Descriptor, Letter, Message, Descriptors
    <3>3. doing[s].task \in Task \cup {NULL} /\ Tag(s) \in 0 .. MAX_NVPS + 100
      BY Tags DEF DoingType, Activity
    <3>4. Busy(d, s)
      BY <1>1, <2>2, <3>3, SettleBusy, UpperSelf
    <3> HIDE DEF m, d
    <3> QED
      BY <3>1, <3>2, <3>4, SendType, DoType
  <2> QED
    BY <2>1, <2>2
<1> QED
  BY <1>2, <1>3, <1>4, <1>5

\* The next argument is one of those left.
LEMMA NextArgFacts ==
  ASSUME DoingType, NEW s \in Thread, doing[s].left # {}
  PROVE  /\ NextArg(s) \in doing[s].left /\ NextArg(s) \in Nat
         /\ doing[s].op \in {"send", "receive"} =>
              /\ doing[s].task \in Task /\ NextArg(s) \in SentArgs(doing[s].task)
              /\ NextArg(s) \in DOMAIN args[doing[s].task]
              /\ doing[s].left \ {NextArg(s)} = Above(SentArgs(doing[s].task), NextArg(s))
              /\ Upper(doing[s].left \ {NextArg(s)}, SentArgs(doing[s].task))
         /\ doing[s].op \in {"result", "collect"} =>
              /\ doing[s].task \in Task /\ NextArg(s) \in SentResults(doing[s].task)
              /\ NextArg(s) \in DOMAIN args[doing[s].task]
              /\ doing[s].left \ {NextArg(s)} = Above(SentResults(doing[s].task), NextArg(s))
              /\ Upper(doing[s].left \ {NextArg(s)}, SentResults(doing[s].task))
<1> DEFINE d == doing[s]
<1>1. Busy(d, s) /\ d \in Activity /\ NextArg(s) = Min(d.left)
  BY DEF DoingType, NextArg
<1> HIDE DEF d
<1>2. d.left \subseteq Nat /\ d.left # {}
  BY <1>1 DEF Activity, d
<1>3. Min(d.left) \in d.left /\ Min(d.left) \in Nat
  BY <1>2, MinIsLeast
<1>4. CASE d.op \in {"send", "receive"}
  <2>1. d.task \in Task /\ Upper(d.left, SentArgs(d.task))
    BY <1>1, <1>4 DEF Busy
  <2>2. SentArgs(d.task) \subseteq Nat /\ SentArgs(d.task) \subseteq DOMAIN args[d.task]
    BY <2>1, ArgFacts
  <2>3. /\ Min(d.left) \in SentArgs(d.task)
        /\ d.left \ {Min(d.left)} = Above(SentArgs(d.task), Min(d.left))
        /\ Upper(d.left \ {Min(d.left)}, SentArgs(d.task))
    BY <1>2, <2>1, <2>2, UpperRest
  <2>4. {"send", "receive"} \cap {"result", "collect"} = {}
    OBVIOUS
  <2> QED
    BY <1>1, <1>3, <1>4, <2>1, <2>2, <2>3, <2>4 DEF d
<1>5. CASE d.op \in {"result", "collect"}
  <2>1. d.task \in Task /\ Upper(d.left, SentResults(d.task))
    BY <1>1, <1>5 DEF Busy
  <2>2. SentResults(d.task) \subseteq Nat /\ SentResults(d.task) \subseteq DOMAIN args[d.task]
    BY <2>1, ArgFacts
  <2>3. /\ Min(d.left) \in SentResults(d.task)
        /\ d.left \ {Min(d.left)} = Above(SentResults(d.task), Min(d.left))
        /\ Upper(d.left \ {Min(d.left)}, SentResults(d.task))
    BY <1>2, <2>1, <2>2, UpperRest
  <2>4. {"send", "receive"} \cap {"result", "collect"} = {}
    OBVIOUS
  <2> QED
    BY <1>1, <1>3, <1>5, <2>1, <2>2, <2>3, <2>4 DEF d
<1> QED
  BY <1>1, <1>3, <1>4, <1>5 DEF d

LEMMA DataLetter ==
  ASSUME NEW g \in 0 .. MAX_NVPS + 100, NEW t \in Task, NEW i \in Nat, NEW v \in Content
  PROVE  Data(g, t, i, v) \in Letter
BY DistinctAssumption DEF Data, Letter, Message, Descriptors

LEMMA SendArgumentTypes == ASSUME Types, NEW s \in Thread, SendArgument(s) PROVE Types'
<1> USE DEF Types
<1> DEFINE d == doing[s]
           i == NextArg(s)
           v == IF homenode[d.task] # Here(s) THEN temparg[Here(s)][d.task][i] ELSE localarg[d.task][i]
           m == Data(d.tag, d.task, i, v)
<1>1. d.op = "send" /\ Send(s, d.peer, m) /\ Do(s, Settle(OneLess(s)))
  BY DEF SendArgument
<1>2. d \in Activity /\ Busy(d, s)
  BY DEF DoingType
<1>3. d.left # {} /\ d.task \in Task /\ d.peer \in Node /\ d.peer # Here(s)
      /\ d.tag \in 0 .. MAX_NVPS + 100 /\ d.inside \in Task \cup {NULL} /\ (s \in Worker => d.tag = Tag(s))
  BY <1>1, <1>2 DEF Busy, Activity
<1>4. i \in Nat /\ i \in DOMAIN args[d.task] /\ Upper(d.left \ {i}, SentArgs(d.task))
  BY <1>1, <1>3, NextArgFacts
<1>5. v \in Content
  <2>1. Here(s) \in Node
    BY Threads
  <2> QED
    BY <1>3, <1>4, <2>1 DEF MemoryType, Memory
<1>6. m \in Letter
  BY <1>3, <1>4, <1>5, DataLetter
<1>7. OneLess(s) = Act("send", d.task, d.left \ {i}, d.peer, d.tag, d.inside)
  BY <1>1, OneLessFields
<1>8. Busy(Settle(OneLess(s)), s)
  BY <1>3, <1>4, <1>7, SettleBusy
<1> HIDE DEF m, v
<1>9. ChanType' /\ DoingType'
  BY <1>1, <1>6, <1>8, SendType, DoType
<1>10. MemoryType' /\ TaskType' /\ RestType'
  BY DEF SendArgument, tasks, values, bcast, MemoryType, TaskType, RestType
<1> QED
  BY <1>9, <1>10

LEMMA AcceptsFacts ==
  ASSUME Types, NEW n \in Node, NEW s \in Thread, NEW type, Accepts(n, s, type)
  PROVE  /\ Received(s, n, MAX_NVPS) \in Letter /\ Received(s, n, MAX_NVPS).type = type
         /\ Received(s, n, MAX_NVPS).tag = MAX_NVPS
         /\ type \in Descriptors => AcceptedTask(n, s) \in Task
         /\ doing[n].op = "idle" /\ Here(n) = n /\ n \in Thread /\ Here(s) \in Node
<1>1. Received(s, n, MAX_NVPS) \in Letter /\ Received(s, n, MAX_NVPS).tag = MAX_NVPS
  BY ReceivedType DEF Accepts, Types
<1>2. Received(s, n, MAX_NVPS).type = type /\ doing[n].op = "idle"
  BY DEF Accepts
<1>3. type \in Descriptors => AcceptedTask(n, s) \in Task
  BY <1>1, <1>2 DEF Letter, AcceptedTask
<1> QED
  BY <1>1, <1>2, <1>3, Threads

\* The thread that gets the descriptor of a task.
LEMMA AllocateTypes ==
  ASSUME Types, NEW r \in Thread, NEW t \in Task, NEW peer \in Node, NEW tag \in 0 .. MAX_NVPS + 100,
         IF r \in Worker THEN tag = ReplyTag(r) ELSE tag <= MAX_NVPS,
         Allocate(r, t, peer, tag)
  PROVE  /\ DoingType' /\ temparg' \in [Node -> Memory]
         /\ doing'[r] = Act("receive", t, SentArgs(t), peer, tag, NULL)
         /\ \A x \in Thread : x # r => doing'[x] = doing[x]
<1> USE DEF Types
<1> DEFINE d == Act("receive", t, SentArgs(t), peer, tag, NULL)
<1>1. Do(r, d)
  BY Pairing DEF Allocate
<1>2. d \in Activity
  BY ArgFacts DEF Act, Activity
<1>3. Busy(d, r)
  <2>1. d.op = "receive" /\ d.task = t /\ d.left = SentArgs(t) /\ d.peer = peer /\ d.tag = tag /\ d.inside = NULL
    BY DEF Act
  <2> HIDE DEF d
  <2> QED
    BY <1>2, <2>1, UpperSelf, DistinctAssumption DEF Busy
<1> HIDE DEF d
<1>4. DoingType' /\ doing'[r] = d /\ \A x \in Thread : x # r => doing'[x] = doing[x]
  BY <1>1, <1>3, DoType
<1>5. temparg' \in [Node -> Memory]
  <2> DEFINE n == Here(r)
             g == [i \in DOMAIN temparg[n][t] |-> IF i \in Args(t, {"COP", "VAD"}) THEN localarg[t][i] ELSE "none"]
             f == [temparg[n] EXCEPT ![t] = g]
  <2>1. n \in Node /\ temparg[n] \in Memory /\ localarg \in Memory
    BY Threads DEF MemoryType
  <2>2. g \in [DOMAIN args[t] -> Content]
    BY <2>1 DEF Memory, Content
  <2>3. temparg' = [temparg EXCEPT ![n] = f]
    BY DEF Allocate
  <2> HIDE DEF g, n
  <2>4. f \in Memory
    BY <2>1, <2>2, StoreType
  <2> HIDE DEF f
  <2> QED
    BY <2>1, <2>3, <2>4 DEF MemoryType
<1> QED
  BY <1>4, <1>5 DEF d

LEMMA RecvWorkTypes == ASSUME Types, NEW n \in Node, NEW s \in Thread, RecvWork(n, s) PROVE Types'
<1> USE DEF Types
<1> DEFINE t == AcceptedTask(n, s)
<1>1. Accepts(n, s, "TORC_NORMAL_ENQUEUE") /\ Receive(s, n, MAX_NVPS) /\ Allocate(n, t, Here(s), Tag(s))
  BY DEF RecvWork
<1>2. t \in Task /\ n \in Thread /\ Here(s) \in Node
  BY <1>1, AcceptsFacts DEF Descriptors
<1>3. Tag(s) \in 0 .. MAX_NVPS + 100 /\ Tag(s) <= MAX_NVPS /\ n \notin Worker
  BY Tags, Threads
<1> HIDE DEF t
<1>4. DoingType' /\ temparg' \in [Node -> Memory]
  BY <1>1, <1>2, <1>3, AllocateTypes
<1>5. ChanType'
  BY <1>1, ReceiveType
<1>6. MemoryType' /\ TaskType' /\ RestType'
  BY <1>4 DEF RecvWork, tasks, bcast, MemoryType, TaskType, RestType
<1> QED
  BY <1>4, <1>5, <1>6

LEMMA FreedContent == \A v \in Content : Freed(v) \in Content
BY DEF Freed, Content

LEMMA RecvAnswerTypes == ASSUME Types, NEW n \in Node, NEW s \in Thread, RecvAnswer(n, s) PROVE Types'
<1> USE DEF Types
<1> DEFINE t == AcceptedTask(n, s)
           d == Act("collect", t, AwaitedResults(t), Here(s), Tag(s), NULL)
           g == [i \in DOMAIN localarg[t] |-> IF i \in Args(t, {"COP2"}) THEN Freed(localarg[t][i]) ELSE localarg[t][i]]
<1>1. /\ Accepts(n, s, "TORC_ANSWER") /\ Receive(s, n, MAX_NVPS)
      /\ localarg' = [localarg EXCEPT ![t] = g] /\ Do(n, d)
  BY DEF RecvAnswer
<1>2. t \in Task /\ n \in Thread /\ Here(s) \in Node
  BY <1>1, AcceptsFacts DEF Descriptors
<1>3. Tag(s) \in 0 .. MAX_NVPS + 100 /\ Tag(s) <= MAX_NVPS /\ n \notin Worker
  BY Tags, Threads
<1> HIDE DEF t
<1>4. Busy(d, n)
  <2>1. AwaitedResults(t) = SentResults(t)
    BY <1>2, Pairing
  <2>2. d.op = "collect" /\ d.task = t /\ d.left = SentResults(t) /\ d.peer = Here(s) /\ d.tag = Tag(s) /\ d.inside = NULL
    BY <2>1 DEF Act
  <2>3. d \in Activity
    BY <1>2, <1>3, <2>1, ArgFacts DEF Act, Activity
  <2> HIDE DEF d
  <2> QED
    BY <1>2, <1>3, <2>2, <2>3, UpperSelf, DistinctAssumption DEF Busy
<1>5. g \in [DOMAIN args[t] -> Content]
  BY <1>2, FreedContent DEF MemoryType, Memory
<1> HIDE DEF d, g
<1>6. DoingType' /\ ChanType'
  BY <1>1, <1>2, <1>4, DoType, ReceiveType
<1>7. MemoryType'
  <2>1. temparg' = temparg
    BY DEF RecvAnswer
  <2> QED
    BY <1>1, <1>2, <1>5, <2>1, StoreType DEF MemoryType
<1>8. TaskType' /\ RestType'
  BY DEF RecvAnswer, tasks, bcast, TaskType, RestType
<1> QED
  BY <1>6, <1>7, <1>8

\* What ServeThief does to the channels, in terms of m, the reply.
Replies(n, s, m) ==
  chan' = [chan EXCEPT ![<<s, n>>] = RemoveAt(chan[<<s, n>>], First(s, n, MAX_NVPS)),
                       ![<<n, Here(s)>>] = Append(@, m)]

LEMMA RepliesType ==
  ASSUME ChanType, NEW s \in Worker, NEW n \in Node, First(s, n, MAX_NVPS) # 0, NEW m \in Letter, Replies(n, s, m)
  PROVE  /\ ChanType'
         /\ chan'[<<s, n>>] = RemoveAt(chan[<<s, n>>], First(s, n, MAX_NVPS))
         /\ chan'[<<n, Here(s)>>] = Append(chan[<<n, Here(s)>>], m)
         /\ \A x \in Thread, y \in Node :
              <<x, y>> \notin {<<s, n>>, <<n, Here(s)>>} => chan'[<<x, y>>] = chan[<<x, y>>]
<1>1. <<s, n>> \in Thread \X Node /\ <<n, Here(s)>> \in Thread \X Node /\ <<s, n>> # <<n, Here(s)>>
  BY Threads
<1>2. \A c \in Thread \X Node : chan[c] \in Seq(Letter) /\ Append(chan[c], m) \in Seq(Letter)
  BY DEF ChanType
<1>3. RemoveAt(chan[<<s, n>>], First(s, n, MAX_NVPS)) \in Seq(Letter)
  <2>1. First(s, n, MAX_NVPS) \in DOMAIN chan[<<s, n>>]
    BY <1>1, <1>2, FirstFacts
  <2> QED
    BY <1>1, <1>2, <2>1, RemoveFacts
<1> DEFINE a == RemoveAt(chan[<<s, n>>], First(s, n, MAX_NVPS))
<1>4. a \in Seq(Letter) /\ chan' = [chan EXCEPT ![<<s, n>>] = a, ![<<n, Here(s)>>] = Append(@, m)]
  BY <1>3 DEF Replies
<1> HIDE DEF a
<1>5. chan'[<<s, n>>] = a /\ chan'[<<n, Here(s)>>] = Append(chan[<<n, Here(s)>>], m)
  BY <1>1, <1>4 DEF ChanType
<1>6. \A c \in Thread \X Node : c # <<s, n>> /\ c # <<n, Here(s)>> => chan'[c] = chan[c]
  BY <1>4 DEF ChanType
<1>7. ChanType'
  BY <1>1, <1>2, <1>4 DEF ChanType
<1> QED
  BY <1>5, <1>6, <1>7 DEF a

LEMMA ServeThiefTypes ==
  ASSUME Types, NEW n \in Node, NEW s \in Worker, Here(s) # n, ServeThief(n, s) PROVE Types'
<1> USE DEF Types
<1>1. Accepts(n, s, "STEALING_REQUEST") /\ s \in Thread /\ n \in Thread /\ n \notin Worker
      /\ Here(s) \in Node /\ Here(n) = n
  BY Threads DEF ServeThief
<1>2. First(s, n, MAX_NVPS) # 0 /\ ReplyTag(s) \in 0 .. MAX_NVPS + 100
  BY <1>1, Tags DEF Accepts
<1>3. MemoryType' /\ RestType'
  BY DEF ServeThief, values, bcast, MemoryType, RestType
<1>4. homenode' = homenode /\ finished' = finished /\ after' = after
  BY DEF ServeThief, bcast
<1>5. CASE \E t \in ready[n] :
             /\ ready' = [ready EXCEPT ![n] = @ \ {t}]
             /\ Replies(n, s, Descriptor(ReplyTag(s), "stolen", t))
             /\ Do(n, IF homenode[t] = Here(s) THEN Idle
                      ELSE Settle(Act("send", t, SentArgs(t), Here(s), ReplyTag(s), NULL)))
  <2>1. PICK t \in ready[n] :
             /\ ready' = [ready EXCEPT ![n] = @ \ {t}]
             /\ Replies(n, s, Descriptor(ReplyTag(s), "stolen", t))
             /\ Do(n, IF homenode[t] = Here(s) THEN Idle
                      ELSE Settle(Act("send", t, SentArgs(t), Here(s), ReplyTag(s), NULL)))
    BY <1>5
  <2>2. t \in Task
    BY DEF TaskType
  <2> DEFINE d == IF homenode[t] = Here(s) THEN Idle
                  ELSE Settle(Act("send", t, SentArgs(t), Here(s), ReplyTag(s), NULL))
             m == Descriptor(ReplyTag(s), "stolen", t)
  <2>3. Busy(d, n)
    BY <1>1, <1>2, <2>2, IdleBusy, SettleBusy, UpperSelf
  <2>4. m \in Letter
    BY <1>2, <2>2 DEF Descriptor, Letter, Message, Descriptors
  <2> HIDE DEF d, m
  <2>5. Replies(n, s, m) /\ Do(n, d)
    BY <2>1 DEF d, m
  <2>6. ChanType' /\ DoingType'
    BY <1>1, <1>2, <2>3, <2>4, <2>5, RepliesType, DoType
  <2>7. TaskType'
    BY <1>4, <2>1 DEF TaskType
  <2> QED
    BY <1>3, <2>6, <2>7
<1>6. CASE /\ Replies(n, s, Descriptor(ReplyTag(s), "TORC_NO_WORK", NULL))
           /\ UNCHANGED <<ready, doing>>
  <2> DEFINE m == Descriptor(ReplyTag(s), "TORC_NO_WORK", NULL)
  <2>1. m \in Letter
    BY <1>2 DEF Descriptor, Letter, Message, Descriptors
  <2> HIDE DEF m
  <2>2. ChanType'
    BY <1>2, <1>6, <2>1, RepliesType DEF m
  <2>3. DoingType' /\ TaskType'
    BY <1>4, <1>6 DEF DoingType, TaskType
  <2> QED
    BY <1>3, <2>2, <2>3
<1> QED
  BY <1>5, <1>6 DEF ServeThief, Replies

LEMMA RecvBcastTypes == ASSUME Types, NEW n \in Node, NEW s \in Thread, RecvBcast(n, s) PROVE Types'
<1> USE DEF Types
<1> DEFINE d == Act("buffer", NULL, {0}, Here(s), Tag(s), NULL)
<1>1. n \in Thread /\ Here(s) \in Node /\ Tag(s) \in 0 .. MAX_NVPS + 100 /\ Tag(s) <= MAX_NVPS
  BY Threads, Tags
<1>2. d.op = "buffer" /\ d.task = NULL /\ d.left = {0} /\ d.peer = Here(s) /\ d.tag = Tag(s) /\ d.inside = NULL
  BY DEF Act
<1>3. d \in Activity
  BY <1>1 DEF Act, Activity
<1> HIDE DEF d
<1>4. Busy(d, n)
  BY <1>1, <1>2, <1>3, DistinctAssumption DEF Busy
<1>5. Do(n, d) /\ Receive(s, n, MAX_NVPS)
  BY DEF RecvBcast, d
<1>6. DoingType' /\ ChanType'
  BY <1>1, <1>4, <1>5, DoType, ReceiveType
<1>7. MemoryType' /\ TaskType' /\ RestType'
  BY DEF RecvBcast, tasks, values, bcast, MemoryType, TaskType, RestType
<1> QED
  BY <1>6, <1>7

LEMMA EnterToReceiveTypes == ASSUME Types, NEW s \in Thread, EnterToReceive(s) PROVE Types'
<1>1. comm_m' \in [Node -> Thread \cup {NULL}]
  BY DEF Types, RestType, EnterToReceive, Enter
<1> QED
  BY <1>1 DEF Types, EnterToReceive, tasks, values, bcast, ChanType, DoingType, MemoryType, TaskType, RestType

LEMMA LeaveType ==
  ASSUME Types, NEW s, Leave(s) PROVE comm_m' \in [Node -> Thread \cup {NULL}]
BY DEF Types, RestType, Leave

\* A receiver has one argument less to wait for.
LEMMA LessBusy ==
  ASSUME DoingType, NEW s \in Thread, doing[s].op \in {"receive", "collect"}, doing[s].left # {}
  PROVE  Busy(OneLess(s), s)
<1> DEFINE d == doing[s]
           i == NextArg(s)
           e == OneLess(s)
<1>1. Busy(d, s) /\ d \in Activity
  BY DEF DoingType
<1>2. e = Act(d.op, d.task, d.left \ {i}, d.peer, d.tag, d.inside)
  BY OneLessFields
<1>3. /\ d.op = "receive" => Upper(d.left \ {i}, SentArgs(d.task))
      /\ d.op = "collect" => Upper(d.left \ {i}, SentResults(d.task))
  BY NextArgFacts
<1>4. e.op = d.op /\ e.task = d.task /\ e.left = d.left \ {i} /\ e.peer = d.peer /\ e.tag = d.tag /\ e.inside = d.inside
  BY <1>2 DEF Act
<1>5. e \in Activity
  BY <1>1, <1>2 DEF Act, Activity
<1> HIDE DEF d, i, e
<1>6. d.op \in {"receive", "collect"}
  BY DEF d
<1> QED
  BY <1>1, <1>3, <1>4, <1>5, <1>6 DEF Busy, e

LEMMA ArgValueContent ==
  ASSUME NEW m \in Letter, NEW t \in Task, NEW i PROVE ArgValue(m, t, i) \in Content
BY DistinctAssumption DEF ArgValue, Letter, Content

LEMMA MatchesFacts ==
  ASSUME Types, NEW r \in Thread, NEW s \in Thread, Matches(r, s)
  PROVE  /\ Here(r) \in Node /\ Here(s) = doing[r].peer
         /\ Receive(s, Here(r), doing[r].tag) /\ First(s, Here(r), doing[r].tag) # 0
         /\ Received(s, Here(r), doing[r].tag) \in Letter
         /\ ChanType'
<1>1. Here(r) \in Node /\ Here(s) = doing[r].peer /\ Receive(s, Here(r), doing[r].tag)
  BY Threads DEF Matches
<1>2. First(s, Here(r), doing[r].tag) # 0
  BY <1>1 DEF Receive
<1>3. Received(s, Here(r), doing[r].tag) \in Letter
  BY <1>1, <1>2, ReceivedType DEF Types
<1>4. ChanType'
  BY <1>1, ReceiveType DEF Types
<1> QED
  BY <1>1, <1>2, <1>3, <1>4

LEMMA RecvArgumentTypes ==
  ASSUME Types, NEW r \in Thread, NEW s \in Thread, RecvArgument(r, s) PROVE Types'
<1> USE DEF Types
<1> DEFINE d == doing[r]
           i == NextArg(r)
           n == Here(r)
           v == ArgValue(Received(s, n, d.tag), d.task, i)
           f == [temparg[n] EXCEPT ![d.task] = [temparg[n][d.task] EXCEPT ![i] = v]]
<1>1. d.op = "receive" /\ d.left # {} /\ Matches(r, s) /\ Do(r, OneLess(r)) /\ Leave(r)
      /\ temparg' = [temparg EXCEPT ![n] = f]
  BY DEF RecvArgument
<1>2. d.task \in Task /\ i \in DOMAIN args[d.task]
  BY <1>1, NextArgFacts
<1>3. v \in Content /\ n \in Node /\ ChanType'
  BY <1>1, <1>2, MatchesFacts, ArgValueContent
<1>4. DoingType'
  BY <1>1, LessBusy, DoType
<1>5. [temparg[n][d.task] EXCEPT ![i] = v] \in [DOMAIN args[d.task] -> Content]
  BY <1>2, <1>3 DEF MemoryType, Memory
<1>6. f \in Memory
  BY <1>2, <1>3, <1>5, StoreType DEF MemoryType
<1> HIDE DEF f, n, v
<1>7. MemoryType'
  BY <1>1, <1>3, <1>6 DEF MemoryType, RecvArgument
<1>8. TaskType' /\ RestType'
  BY <1>1, LeaveType DEF RecvArgument, tasks, bcast, TaskType, RestType
<1> QED
  BY <1>3, <1>4, <1>7, <1>8

LEMMA HaveArgumentsTypes == ASSUME Types, NEW r \in Thread, HaveArguments(r) PROVE Types'
<1> USE DEF Types
<1> DEFINE t == doing[r].task
<1>1. t \in Task
  BY DEF DoingType, Busy, HaveArguments
<1>2. (Do(r, Run(t)) /\ UNCHANGED ready)
      \/ (Do(r, Idle) /\ ready' = [ready EXCEPT ![r] = @ \cup {t}])
  BY DEF HaveArguments
<1>3. DoingType'
  BY <1>1, <1>2, DoType, IdleBusy, RunBusy
<1>4. TaskType'
  BY <1>1, <1>2 DEF HaveArguments, bcast, TaskType
<1> QED
  BY <1>3, <1>4 DEF HaveArguments, values, bcast, ChanType, MemoryType, RestType

LEMMA CollectResultTypes ==
  ASSUME Types, NEW r \in Thread, NEW s \in Thread, CollectResult(r, s) PROVE Types'
<1> USE DEF Types
<1> DEFINE d == doing[r]
           i == NextArg(r)
           v == ArgValue(Received(s, Here(r), d.tag), d.task, i)
           g == [localarg[d.task] EXCEPT ![i] = v]
<1>1. d.op = "collect" /\ d.left # {} /\ Matches(r, s) /\ Do(r, OneLess(r)) /\ Leave(r)
      /\ localarg' = [localarg EXCEPT ![d.task] = g] /\ temparg' = temparg
  BY DEF CollectResult
<1>2. d.task \in Task /\ i \in DOMAIN args[d.task]
  BY <1>1, NextArgFacts
<1>3. v \in Content /\ ChanType'
  BY <1>1, <1>2, MatchesFacts, ArgValueContent
<1>4. DoingType'
  BY <1>1, LessBusy, DoType
<1>5. g \in [DOMAIN args[d.task] -> Content]
  BY <1>2, <1>3 DEF MemoryType, Memory
<1> HIDE DEF g
<1>6. MemoryType'
  BY <1>1, <1>2, <1>5, StoreType DEF MemoryType
<1>7. TaskType' /\ RestType'
  BY <1>1, LeaveType DEF CollectResult, tasks, bcast, TaskType, RestType
<1> QED
  BY <1>3, <1>4, <1>6, <1>7

LEMMA HaveResultsTypes == ASSUME Types, NEW r \in Node, HaveResults(r) PROVE Types'
<1> USE DEF Types
<1>1. doing[r].task \in Task /\ r \in Thread
  BY Threads DEF DoingType, Busy, HaveResults
<1>2. DoingType'
  BY <1>1, DoType, IdleBusy DEF HaveResults
<1>3. TaskType'
  BY <1>1 DEF HaveResults, bcast, TaskType
<1> QED
  BY <1>2, <1>3 DEF HaveResults, values, bcast, ChanType, MemoryType, RestType

LEMMA TakeReadyTypes ==
  ASSUME Types, NEW w \in Worker, NEW t \in Task, TakeReady(w, t) PROVE Types'
<1> USE DEF Types
<1>1. DoingType'
  BY Threads, DoType, RunBusy DEF TakeReady
<1>2. TaskType'
  BY DEF TakeReady, bcast, TaskType
<1> QED
  BY <1>1, <1>2 DEF TakeReady, values, bcast, ChanType, MemoryType, RestType

\* What a task leaves in its arguments.
LEMMA AfterRunType ==
  ASSUME NEW t \in Task, NEW v \in [DOMAIN args[t] -> Content]
  PROVE  AfterRun(t, v) \in [DOMAIN args[t] -> Content]
<1>1. "out" \in Content
  BY DEF Content
<1> QED
  BY <1>1, FreedContent DEF AfterRun

LEMMA FinishAtHomeTypes == ASSUME Types, NEW s \in Thread, FinishAtHome(s) PROVE Types'
<1> USE DEF Types
<1> DEFINE t == doing[s].task
           g == AfterRun(t, localarg[t])
<1>1. t \in Task
  BY DEF DoingType, Busy, FinishAtHome
<1>2. localarg[t] \in [DOMAIN args[t] -> Content]
  BY <1>1 DEF MemoryType, Memory
<1>3. g \in [DOMAIN args[t] -> Content]
  BY <1>1, <1>2, AfterRunType
<1>4. localarg' = [localarg EXCEPT ![t] = g] /\ temparg' = temparg
  BY DEF FinishAtHome
<1> HIDE DEF g
<1>5. MemoryType'
  BY <1>1, <1>3, <1>4, StoreType DEF MemoryType
<1>6. DoingType'
  BY DoType, IdleBusy DEF FinishAtHome
<1>7. TaskType' /\ RestType' /\ ChanType'
  BY <1>1 DEF FinishAtHome, bcast, TaskType, RestType, ChanType
<1> QED
  BY <1>5, <1>6, <1>7

\* A node's buffers of one task change.
LEMMA StoreRemote ==
  ASSUME Types, NEW n \in Node, NEW t \in Task, NEW g \in [DOMAIN args[t] -> Content],
         temparg' = [temparg EXCEPT ![n] = [temparg[n] EXCEPT ![t] = g]]
  PROVE  temparg' \in [Node -> Memory]
<1> DEFINE f == [temparg[n] EXCEPT ![t] = g]
<1>1. temparg[n] \in Memory /\ temparg \in [Node -> Memory]
  BY DEF Types, MemoryType
<1>2. f \in Memory
  BY <1>1, StoreType
<1> HIDE DEF f
<1> QED
  BY <1>1, <1>2 DEF f

LEMMA FinishAwayTypes == ASSUME Types, NEW s \in Thread, FinishAway(s) PROVE Types'
<1> USE DEF Types
<1> DEFINE t == doing[s].task
           n == Here(s)
           g == AfterRun(t, temparg[n][t])
           m == Descriptor(MAX_NVPS, "TORC_ANSWER", t)
           d == Settle(Act("result", t, SentResults(t), homenode[t], Tag(s), NULL))
<1>1. t \in Task /\ n \in Node /\ homenode[t] \in Node \cup {NULL}
  BY Threads DEF DoingType, Busy, FinishAway, TaskType
<1>2. temparg[n][t] \in [DOMAIN args[t] -> Content]
  BY <1>1 DEF MemoryType, Memory
<1>3. g \in [DOMAIN args[t] -> Content]
  BY <1>1, <1>2, AfterRunType
<1>4. temparg' = [temparg EXCEPT ![n] = [temparg[n] EXCEPT ![t] = g]] /\ localarg' = localarg
  BY DEF FinishAway
<1>5. m \in Letter
  BY <1>1, Tags DEF Descriptor, Letter, Message, Descriptors
<1>6. Busy(d, s)
  <2>1. Tag(s) \in 0 .. MAX_NVPS + 100
    BY Tags
  <2> QED
    BY <1>1, <2>1, SettleBusy, UpperSelf
<1>7. Send(s, homenode[t], m) /\ Do(s, d)
  BY DEF FinishAway
<1> HIDE DEF g, m, d
<1>8. MemoryType'
  BY <1>1, <1>3, <1>4, StoreRemote DEF MemoryType
<1>9. ChanType' /\ DoingType'
  BY <1>5, <1>6, <1>7, SendType, DoType
<1>10. TaskType' /\ RestType'
  BY DEF FinishAway, tasks, bcast, TaskType, RestType
<1> QED
  BY <1>8, <1>9, <1>10

LEMMA SendResultTypes == ASSUME Types, NEW s \in Thread, SendResult(s) PROVE Types'
<1> USE DEF Types
<1> DEFINE d == doing[s]
           i == NextArg(s)
           n == Here(s)
           t == d.task
           g == [temparg[n][t] EXCEPT ![i] = Freed(@)]
           m == Data(d.tag, t, i, temparg[n][t][i])
<1>1. d.op = "result" /\ Send(s, d.peer, m) /\ Do(s, Settle(OneLess(s)))
  BY DEF SendResult
<1>2. d \in Activity /\ Busy(d, s)
  BY DEF DoingType
<1>3. d.left # {} /\ t \in Task /\ d.tag \in 0 .. MAX_NVPS + 100 /\ d.tag = Tag(s) /\ d.inside = NULL
      /\ d.peer \in Node \cup {NULL}
  BY <1>1, <1>2 DEF Busy, Activity
<1>4. i \in Nat /\ i \in DOMAIN args[t] /\ Upper(d.left \ {i}, SentResults(t))
  BY <1>1, <1>3, NextArgFacts
<1>5. n \in Node
  BY Threads
<1>6. temparg[n][t] \in [DOMAIN args[t] -> Content]
  BY <1>3, <1>5 DEF MemoryType, Memory
<1>7. m \in Letter
  BY <1>3, <1>4, <1>6, DataLetter
<1>8. Busy(Settle(OneLess(s)), s)
  <2>1. OneLess(s) = Act("result", t, d.left \ {i}, d.peer, d.tag, d.inside)
    BY <1>1, OneLessFields
  <2> QED
    BY <1>3, <1>4, <2>1, SettleBusy
<1>9. g \in [DOMAIN args[t] -> Content]
  BY <1>4, <1>6, FreedContent
<1>10. localarg' = localarg /\ \/ temparg' = temparg
                               \/ temparg' = [temparg EXCEPT ![n] = [temparg[n] EXCEPT ![t] = g]]
  BY DEF SendResult
<1> HIDE DEF g, m
<1>11. MemoryType'
  BY <1>3, <1>5, <1>9, <1>10, StoreRemote DEF MemoryType
<1>12. ChanType' /\ DoingType'
  BY <1>1, <1>7, <1>8, SendType, DoType
<1>13. TaskType' /\ RestType'
  BY DEF SendResult, tasks, bcast, TaskType, RestType
<1> QED
  BY <1>11, <1>12, <1>13

LEMMA NextNode == \A n \in Node : (n + 1) % N \in Node
BY NodesAssumption DEF Node

LEMMA AskForWorkTypes == ASSUME Types, NEW w \in Worker, AskForWork(w) PROVE Types'
<1> USE DEF Types
<1> DEFINE n == Here(w)
           v == ((IF doing[w].op = "refused" THEN doing[w].peer ELSE n) + 1) % N
           m == Descriptor(MAX_NVPS, "STEALING_REQUEST", NULL)
           d == Act("asked", NULL, {}, v, ReplyTag(w), NULL)
<1>1. Send(w, v, m) /\ Do(w, d) /\ v # n /\ doing[w].op \in {"idle", "refused"}
  BY DEF AskForWork
<1>2. n \in Node /\ w \in Thread /\ v \in Node
  <2>1. n \in Node /\ w \in Thread
    BY Threads
  <2>2. doing[w].op = "refused" => doing[w].peer \in Node
    BY <2>1 DEF DoingType, Busy
  <2> QED
    BY <2>1, <2>2, NextNode
<1>3. m \in Letter
  BY Tags DEF Descriptor, Letter, Message, Descriptors
<1> HIDE DEF m, v
<1>4. Busy(d, w)
  <2>1. ReplyTag(w) \in 0 .. MAX_NVPS + 100
    BY Tags
  <2>2. d.op = "asked" /\ d.task = NULL /\ d.left = {} /\ d.peer = v /\ d.tag = ReplyTag(w) /\ d.inside = NULL
    BY DEF Act
  <2>3. d \in Activity
    BY <1>2, <2>1 DEF Act, Activity
  <2> HIDE DEF d
  <2> QED
    BY <1>1, <1>2, <2>2, <2>3, DistinctAssumption DEF Busy
<1> HIDE DEF d
<1>5. ChanType' /\ DoingType'
  BY <1>1, <1>2, <1>3, <1>4, SendType, DoType
<1>6. MemoryType' /\ TaskType' /\ RestType'
  BY DEF AskForWork, tasks, values, bcast, MemoryType, TaskType, RestType
<1> QED
  BY <1>5, <1>6

LEMMA GiveUpTypes == ASSUME Types, NEW w \in Worker, GiveUp(w) PROVE Types'
<1> USE DEF Types
<1>1. DoingType'
  BY Threads, DoType, IdleBusy DEF GiveUp
<1>2. internode_stealing' \in [Node -> BOOLEAN]
  BY DEF GiveUp, RestType
<1>3. ChanType' /\ MemoryType' /\ TaskType'
  BY DEF GiveUp, tasks, values, bcast, ChanType, MemoryType, TaskType
<1> QED
  BY <1>1, <1>2, <1>3 DEF GiveUp, bcast, RestType

LEMMA AnsweredFacts ==
  ASSUME Types, NEW w \in Worker, NEW type, Answered(w, type)
  PROVE  LET d == doing[w]
             m == Received(d.peer, Here(w), d.tag)
         IN  /\ d.op = "asked" /\ d.peer \in Node /\ d.peer # Here(w) /\ d.tag = ReplyTag(w)
             /\ w \in Thread /\ Here(w) \in Node /\ d.peer \in Thread
             /\ First(d.peer, Here(w), d.tag) # 0 /\ Receive(d.peer, Here(w), d.tag)
             /\ m \in Letter /\ m.tag = d.tag /\ m.type = type
             /\ type \in Descriptors => m.task \in Task
             /\ ChanType'
<1> DEFINE d == doing[w]
           m == Received(d.peer, Here(w), d.tag)
<1>1. d.op = "asked" /\ Receive(d.peer, Here(w), d.tag) /\ m.type = type
  BY DEF Answered
<1>2. w \in Thread /\ Here(w) \in Node
  BY Threads
<1>3. Busy(d, w)
  BY <1>2 DEF Types, DoingType
<1>4. d.peer \in Node /\ d.peer # Here(w) /\ d.tag = ReplyTag(w)
  BY <1>1, <1>3 DEF Busy
<1>5. d.peer \in Thread /\ First(d.peer, Here(w), d.tag) # 0
  BY <1>1, <1>4, Threads DEF Receive
<1>6. m \in Letter /\ m.tag = d.tag /\ ChanType'
  BY <1>1, <1>2, <1>5, ReceivedType, ReceiveType DEF Types
<1>7. type \in Descriptors => m.task \in Task
  BY <1>1, <1>6 DEF Letter
<1> QED
  BY <1>1, <1>2, <1>4, <1>5, <1>6, <1>7

LEMMA RefusedTypes == ASSUME Types, NEW w \in Worker, Refused(w) PROVE Types'
<1> USE DEF Types
<1> DEFINE d == doing[w]
           e == [d EXCEPT !.op = "refused"]
<1>1. Answered(w, "TORC_NO_WORK") /\ Do(w, e)
  BY DEF Refused
<1>2. d.op = "asked" /\ w \in Thread /\ ChanType'
  BY <1>1, AnsweredFacts
<1>3. Busy(d, w) /\ d \in Activity
  BY <1>2 DEF DoingType
<1>4. e.op = "refused" /\ e.task = d.task /\ e.left = d.left /\ e.peer = d.peer /\ e.tag = d.tag /\ e.inside = d.inside
      /\ e \in Activity
  BY <1>3 DEF Activity
<1> HIDE DEF d, e
<1>5. Busy(e, w)
  BY <1>2, <1>3, <1>4 DEF Busy, d
<1>6. DoingType'
  BY <1>1, <1>2, <1>5, DoType DEF d, e
<1> QED
  BY <1>2, <1>6 DEF Refused, tasks, values, bcast, MemoryType, TaskType, RestType

LEMMA StolenTypes == ASSUME Types, NEW w \in Worker, Stolen(w) PROVE Types'
<1> USE DEF Types
<1> DEFINE d == doing[w]
           t == Received(d.peer, Here(w), d.tag).task
<1>1. Answered(w, "stolen")
      /\ IF homenode[t] # Here(w) THEN Allocate(w, t, d.peer, d.tag) ELSE Do(w, Run(t)) /\ UNCHANGED temparg
  BY DEF Stolen
<1>2. d.op = "asked" /\ w \in Thread /\ ChanType' /\ t \in Task /\ d.peer \in Node /\ d.tag = ReplyTag(w)
  BY <1>1, AnsweredFacts DEF Descriptors
<1>3. d.tag \in 0 .. MAX_NVPS + 100
  BY <1>2 DEF DoingType, Activity
<1> HIDE DEF d, t
<1>4. DoingType' /\ temparg' \in [Node -> Memory]
  <2>1. CASE homenode[t] # Here(w)
    BY <1>1, <1>2, <1>3, <2>1, AllocateTypes
  <2>2. CASE homenode[t] = Here(w)
    BY <1>1, <1>2, <2>2, DoType, RunBusy DEF MemoryType
  <2> QED
    BY <2>1, <2>2
<1>5. MemoryType' /\ TaskType' /\ RestType'
  BY <1>4 DEF Stolen, tasks, bcast, MemoryType, TaskType, RestType
<1> QED
  BY <1>2, <1>4, <1>5

\* The next node of a broadcast.
LEMMA NextToTell ==
  ASSUME NEW w \in Worker, Others(w) \ told # {}
  PROVE  Min(Others(w) \ told) \in Others(w) \ told /\ Min(Others(w) \ told) \in Node /\ Min(Others(w) \ told) # Here(w)
<1>1. Others(w) \ told \subseteq Nat
  <2>1. Node \subseteq Nat
    BY DEF Node
  <2> QED
    BY <2>1 DEF Others
<1>2. Min(Others(w) \ told) \in Others(w) \ told
  BY <1>1, MinIsLeast
<1> QED
  BY <1>2 DEF Others

LEMMA BroadcastTypes == ASSUME Types, NEW w \in Worker, Broadcast(w) PROVE Types'
<1> USE DEF Types
<1> DEFINE n == Min(Others(w) \ told)
           m == Descriptor(MAX_NVPS, "TORC_BCAST", NULL)
           d == Act("bcast", NULL, {}, n, Tag(w), NULL)
<1>1. w = Broadcaster /\ Send(w, n, m) /\ Do(w, d) /\ n \in Node /\ n # Here(w)
  BY NextToTell DEF Broadcast
<1>2. m \in Letter
  BY Tags DEF Descriptor, Letter, Message, Descriptors
<1>3. w \in Thread /\ Tag(w) \in 0 .. MAX_NVPS + 100
  BY Tags, Threads
<1> HIDE DEF n, m
<1>4. d.op = "bcast" /\ d.task = NULL /\ d.left = {} /\ d.peer = n /\ d.tag = Tag(w) /\ d.inside = NULL
  BY DEF Act
<1>5. d \in Activity
  BY <1>1, <1>3 DEF Act, Activity
<1> HIDE DEF d
<1>6. Busy(d, w)
  BY <1>1, <1>3, <1>4, <1>5, DistinctAssumption DEF Busy
<1>7. ChanType' /\ DoingType'
  BY <1>1, <1>2, <1>3, <1>6, SendType, DoType
<1>8. MemoryType' /\ TaskType' /\ RestType'
  BY DEF Broadcast, tasks, values, bcast, MemoryType, TaskType, RestType
<1> QED
  BY <1>7, <1>8

LEMMA SsendTypes == ASSUME Types, NEW w \in Worker, Ssend(w) PROVE Types'
<1> USE DEF Types
<1> DEFINE d == doing[w]
           m == Data(d.tag, NULL, 0, buffer[Here(w)])
           e == [d EXCEPT !.op = "ssend"]
<1>1. d.op = "bcast" /\ Send(w, d.peer, m) /\ Do(w, e) /\ Enter(w)
  BY DEF Ssend
<1>2. w \in Thread /\ Here(w) \in Node
  BY Threads
<1>3. d \in Activity /\ Busy(d, w)
  BY <1>2 DEF DoingType
<1>4. m \in Letter
  <2>1. buffer[Here(w)] \in {"old", "new"} /\ d.tag \in 0 .. MAX_NVPS + 100
    BY <1>2, <1>3 DEF RestType, Activity
  <2> QED
    BY <2>1 DEF Data, Letter, Message, Descriptors
<1>5. e.op = "ssend" /\ e.task = d.task /\ e.left = d.left /\ e.peer = d.peer /\ e.tag = d.tag /\ e.inside = d.inside
      /\ e \in Activity
  BY <1>3 DEF Activity
<1> HIDE DEF d, e, m
<1>6. Busy(e, w)
  BY <1>1, <1>3, <1>5 DEF Busy
<1>7. DoingType' /\ ChanType'
  BY <1>1, <1>2, <1>4, <1>6, DoType, SendType DEF e
<1>8. comm_m' \in [Node -> Thread \cup {NULL}]
  BY <1>1, <1>2 DEF Enter, RestType
<1>9. MemoryType' /\ TaskType' /\ RestType'
  BY <1>8 DEF Ssend, tasks, values, bcast, MemoryType, TaskType, RestType
<1> QED
  BY <1>7, <1>9

LEMMA ToldTypes == ASSUME Types, NEW w \in Worker, Told(w) PROVE Types'
<1> USE DEF Types
<1> DEFINE e == Act("telling", NULL, {}, NULL, 0, NULL)
           d == IF told' = Others(w) THEN Idle ELSE e
<1>1. doing[w].op = "ssend" /\ told' = told \cup {doing[w].peer} /\ Do(w, d) /\ Leave(w)
  BY DEF Told, SsendDone
<1>2. w \in Thread
  BY Threads
<1>3. Busy(doing[w], w)
  BY <1>2 DEF DoingType
<1>4. doing[w].peer \in Node /\ w = Broadcaster
  BY <1>1, <1>3 DEF Busy
<1>5. e.op = "telling" /\ e.task = NULL /\ e.left = {} /\ e.inside = NULL
  BY DEF Act
<1>6. e \in Activity
  BY Tags DEF Act, Activity
<1> HIDE DEF e
<1>7. Busy(e, w)
  BY <1>4, <1>5, <1>6, DistinctAssumption DEF Busy
<1>8. Busy(d, w)
  BY <1>7, IdleBusy
<1> HIDE DEF d
<1>9. DoingType'
  BY <1>1, <1>2, <1>8, DoType
<1>10. RestType'
  BY <1>1, <1>4, LeaveType DEF Told, RestType
<1>11. ChanType' /\ MemoryType' /\ TaskType'
  BY DEF Told, tasks, values, ChanType, MemoryType, TaskType
<1> QED
  BY <1>9, <1>10, <1>11

LEMMA MatchBufferTypes == ASSUME Types, NEW n \in Node, NEW s \in Thread, MatchBuffer(n, s) PROVE Types'
<1> USE DEF Types
<1> DEFINE d == doing[n]
           e == [d EXCEPT !.op = "arriving"]
<1>1. d.op = "buffer" /\ Matches(n, s) /\ Do(n, e)
  BY DEF MatchBuffer
<1>2. n \in Thread
  BY Threads
<1>3. d \in Activity /\ Busy(d, n)
  BY <1>2 DEF DoingType
<1>4. e.op = "arriving" /\ e.task = d.task /\ e.left = d.left /\ e.peer = d.peer /\ e.tag = d.tag /\ e.inside = d.inside
      /\ e \in Activity
  BY <1>3 DEF Activity
<1> HIDE DEF d, e
<1>5. Busy(e, n)
  BY <1>1, <1>3, <1>4 DEF Busy
<1>6. DoingType' /\ ChanType'
  BY <1>1, <1>2, <1>5, DoType, MatchesFacts DEF e
<1>7. MemoryType' /\ TaskType' /\ RestType'
  BY DEF MatchBuffer, tasks, values, bcast, MemoryType, TaskType, RestType
<1> QED
  BY <1>6, <1>7

LEMMA BufferArrivesTypes == ASSUME Types, NEW n \in Node, BufferArrives(n) PROVE Types'
<1> USE DEF Types
<1>1. DoingType'
  BY Threads, DoType, IdleBusy DEF BufferArrives
<1>2. RestType'
  BY LeaveType DEF BufferArrives, RestType
<1>3. ChanType' /\ MemoryType' /\ TaskType'
  BY DEF BufferArrives, tasks, values, ChanType, MemoryType, TaskType
<1> QED
  BY <1>1, <1>2, <1>3

----------------------------------------------------------------------------
(* What a step does to the channels.                                       *)

LEMMA SentFacts ==
  ASSUME ChanType, NEW s \in Thread, NEW n \in Node, NEW m, Send(s, n, m)
  PROVE  /\ chan[<<s, n>>] \in Seq(Letter)
         /\ chan'[<<s, n>>] = Append(chan[<<s, n>>], m)
         /\ \A x \in Thread, y \in Node : ~ (x = s /\ y = n) => chan'[<<x, y>>] = chan[<<x, y>>]
         /\ \A x \in Thread, y \in Node : \A p \in DOMAIN chan[<<x, y>>] :
              p \in DOMAIN chan'[<<x, y>>] /\ chan'[<<x, y>>][p] = chan[<<x, y>>][p]
<1>1. chan' = [chan EXCEPT ![<<s, n>>] = Append(@, m)] /\ <<s, n>> \in Thread \X Node
  BY DEF Send
<1>2. chan'[<<s, n>>] = Append(chan[<<s, n>>], m) /\ chan[<<s, n>>] \in Seq(Letter)
  BY <1>1 DEF ChanType
<1>3. \A x \in Thread, y \in Node : ~ (x = s /\ y = n) => chan'[<<x, y>>] = chan[<<x, y>>]
  BY <1>1 DEF ChanType
<1> DEFINE q == chan[<<s, n>>]
           r == chan'[<<s, n>>]
<1>4. \A p \in DOMAIN q : p \in DOMAIN r /\ r[p] = q[p]
  <2>1. r = Append(q, m) /\ q \in Seq(Letter)
    BY <1>2
  <2> HIDE DEF q, r
  <2> QED
    BY <2>1, AppendFacts
<1> QED
  BY <1>2, <1>3, <1>4

LEMMA TakenFacts ==
  ASSUME ChanType, NEW s \in Thread, NEW n \in Node, NEW tag, Receive(s, n, tag)
  PROVE  /\ chan[<<s, n>>] \in Seq(Letter)
         /\ First(s, n, tag) \in DOMAIN chan[<<s, n>>]
         /\ chan[<<s, n>>][First(s, n, tag)] = Received(s, n, tag) /\ Received(s, n, tag).tag = tag
         /\ chan'[<<s, n>>] = RemoveAt(chan[<<s, n>>], First(s, n, tag))
         /\ \A x \in Thread, y \in Node : ~ (x = s /\ y = n) => chan'[<<x, y>>] = chan[<<x, y>>]
<1>1. chan[<<s, n>>] \in Seq(Letter) /\ <<s, n>> \in Thread \X Node
  BY DEF ChanType
<1>2. /\ First(s, n, tag) # 0
      /\ chan' = [chan EXCEPT ![<<s, n>>] = RemoveAt(@, First(s, n, tag))]
  BY DEF Receive
<1>3. First(s, n, tag) \in DOMAIN chan[<<s, n>>] /\ chan[<<s, n>>][First(s, n, tag)].tag = tag
  BY <1>1, <1>2, FirstFacts
<1>4. chan'[<<s, n>>] = RemoveAt(chan[<<s, n>>], First(s, n, tag))
      /\ \A x \in Thread, y \in Node : ~ (x = s /\ y = n) => chan'[<<x, y>>] = chan[<<x, y>>]
  BY <1>1, <1>2 DEF ChanType
<1> QED
  BY <1>1, <1>3, <1>4 DEF Received

\* A message of a channel after a step was there before, or was just sent.
LEMMA SentOrOld ==
  ASSUME ChanType, NEW s \in Thread, NEW n, NEW m, Send(s, n, m),
         NEW x \in Thread, NEW y \in Node, NEW p \in DOMAIN chan'[<<x, y>>]
  PROVE  \/ p \in DOMAIN chan[<<x, y>>] /\ chan'[<<x, y>>][p] = chan[<<x, y>>][p]
         \/ x = s /\ y = n /\ chan'[<<x, y>>][p] = m
<1>1. CASE x = s /\ y = n
  <2> DEFINE q == chan[<<s, n>>]
             r == chan'[<<s, n>>]
  <2>1. r = Append(q, m) /\ q \in Seq(Letter)
    BY <1>1, SentFacts
  <2>2. p \in DOMAIN r
    BY <1>1
  <2> HIDE DEF q, r
  <2>3. (p \in DOMAIN q /\ r[p] = q[p]) \/ (p = Len(q) + 1 /\ r[p] = m)
    BY <2>1, <2>2, AppendFacts
  <2> QED
    BY <1>1, <2>3 DEF q, r
<1>2. CASE ~ (x = s /\ y = n)
  <2>1. chan'[<<x, y>>] = chan[<<x, y>>]
    BY <1>2 DEF Send, ChanType
  <2> QED
    BY <2>1
<1> QED
  BY <1>1, <1>2

LEMMA TakenIsOld ==
  ASSUME ChanType, NEW s \in Thread, NEW n \in Node, NEW tag, Receive(s, n, tag),
         NEW x \in Thread, NEW y \in Node, NEW p \in DOMAIN chan'[<<x, y>>]
  PROVE  \E r \in DOMAIN chan[<<x, y>>] : chan'[<<x, y>>][p] = chan[<<x, y>>][r]
<1>1. CASE x = s /\ y = n
  <2>1. chan[<<s, n>>] \in Seq(Letter) /\ First(s, n, tag) \in DOMAIN chan[<<s, n>>]
        /\ chan'[<<s, n>>] = RemoveAt(chan[<<s, n>>], First(s, n, tag))
    BY TakenFacts
  <2> QED
    BY <1>1, <2>1, RemoveFacts
<1>2. CASE ~ (x = s /\ y = n)
  <2>1. chan'[<<x, y>>] = chan[<<x, y>>]
    BY <1>2, TakenFacts
  <2> QED
    BY <2>1
<1> QED
  BY <1>1, <1>2

----------------------------------------------------------------------------
(* Type correctness.  Requests for work are all the types rest on: they    *)
(* come from workers of other nodes.                                       *)

Requests ==
  \A s \in Thread, n \in Node : \A p \in DOMAIN chan[<<s, n>>] :
    chan[<<s, n>>][p].type = "STEALING_REQUEST" => s \in Worker /\ Here(s) # n

LEMMA SameRequests == ASSUME Requests, UNCHANGED chan PROVE Requests'
BY DEF Requests

LEMMA SendRequests ==
  ASSUME Types, Requests, NEW s \in Thread, NEW n, NEW m, Send(s, n, m),
         m.type = "STEALING_REQUEST" => s \in Worker /\ Here(s) # n
  PROVE  Requests'
<1>1. ChanType
  BY DEF Types
<1>2. ASSUME NEW x \in Thread, NEW y \in Node, NEW p \in DOMAIN chan'[<<x, y>>], chan'[<<x, y>>][p].type = "STEALING_REQUEST"
      PROVE  x \in Worker /\ Here(x) # y
  <2>1. \/ p \in DOMAIN chan[<<x, y>>] /\ chan'[<<x, y>>][p] = chan[<<x, y>>][p]
        \/ x = s /\ y = n /\ chan'[<<x, y>>][p] = m
    BY <1>1, SentOrOld
  <2> QED
    BY <1>2, <2>1 DEF Requests
<1> QED
  BY <1>2 DEF Requests

LEMMA ReceiveRequests ==
  ASSUME Types, Requests, NEW s \in Thread, NEW n \in Node, NEW tag, Receive(s, n, tag)
  PROVE  Requests'
<1>1. ChanType
  BY DEF Types
<1>2. ASSUME NEW x \in Thread, NEW y \in Node, NEW p \in DOMAIN chan'[<<x, y>>], chan'[<<x, y>>][p].type = "STEALING_REQUEST"
      PROVE  x \in Worker /\ Here(x) # y
  <2>1. \E r \in DOMAIN chan[<<x, y>>] : chan'[<<x, y>>][p] = chan[<<x, y>>][r]
    BY <1>1, TakenIsOld
  <2> QED
    BY <1>2, <2>1 DEF Requests
<1> QED
  BY <1>2 DEF Requests

LEMMA Fields ==
  ASSUME NEW tag, NEW type, NEW t, NEW i, NEW v
  PROVE  /\ Descriptor(tag, type, t).tag = tag /\ Descriptor(tag, type, t).type = type
         /\ Descriptor(tag, type, t).task = t /\ Descriptor(tag, type, t).value = NULL
         /\ Data(tag, t, i, v).tag = tag /\ Data(tag, t, i, v).type = "data"
         /\ Data(tag, t, i, v).task = t /\ Data(tag, t, i, v).i = i /\ Data(tag, t, i, v).value = v
BY DEF Descriptor, Data

LEMMA CreateRequests ==
  ASSUME Types, Requests, NEW s \in Thread, NEW t \in Task, Create(s, t) PROVE Requests'
<1>1. CASE target[t] = Here(s)
  BY <1>1, SameRequests DEF Create
<1>2. CASE target[t] # Here(s)
  <2>1. Send(s, target[t], Descriptor(MAX_NVPS, "TORC_NORMAL_ENQUEUE", t)) /\ target[t] \in Node
    BY <1>2, TasksAssumption DEF Create
  <2> QED
    BY <2>1, SendRequests, Fields
<1> QED
  BY <1>1, <1>2

LEMMA SendArgumentRequests ==
  ASSUME Types, Requests, NEW s \in Thread, SendArgument(s) PROVE Requests'
<1>1. PICK v : Send(s, doing[s].peer, Data(doing[s].tag, doing[s].task, NextArg(s), v))
  BY DEF SendArgument
<1> QED
  BY <1>1, SendRequests, Fields

LEMMA FinishAwayRequests ==
  ASSUME Types, Requests, NEW s \in Thread, FinishAway(s) PROVE Requests'
<1>1. Send(s, homenode[doing[s].task], Descriptor(MAX_NVPS, "TORC_ANSWER", doing[s].task))
  BY DEF FinishAway
<1> QED
  BY <1>1, SendRequests, Fields

LEMMA SendResultRequests ==
  ASSUME Types, Requests, NEW s \in Thread, SendResult(s) PROVE Requests'
<1>1. PICK v : Send(s, doing[s].peer, Data(doing[s].tag, doing[s].task, NextArg(s), v))
  BY DEF SendResult
<1> QED
  BY <1>1, SendRequests, Fields

LEMMA AskForWorkRequests ==
  ASSUME Types, Requests, NEW w \in Worker, AskForWork(w) PROVE Requests'
<1>1. PICK v : v # Here(w) /\ Send(w, v, Descriptor(MAX_NVPS, "STEALING_REQUEST", NULL))
  BY DEF AskForWork
<1> QED
  BY <1>1, SendRequests, Threads

LEMMA BroadcastRequests ==
  ASSUME Types, Requests, NEW w \in Worker, Broadcast(w) PROVE Requests'
<1>1. PICK v : Send(w, v, Descriptor(MAX_NVPS, "TORC_BCAST", NULL))
  BY DEF Broadcast
<1> QED
  BY <1>1, SendRequests, Threads, Fields

LEMMA SsendRequests ==
  ASSUME Types, Requests, NEW w \in Worker, Ssend(w) PROVE Requests'
<1>1. Send(w, doing[w].peer, Data(doing[w].tag, NULL, 0, buffer[Here(w)]))
  BY DEF Ssend
<1> QED
  BY <1>1, SendRequests, Threads, Fields

\* Both channels of a server that answers a thief.
LEMMA RepliesFacts ==
  ASSUME ChanType, NEW s \in Worker, NEW n \in Node, First(s, n, MAX_NVPS) # 0, NEW m, Replies(n, s, m)
  PROVE  /\ chan[<<s, n>>] \in Seq(Letter) /\ chan[<<n, Here(s)>>] \in Seq(Letter)
         /\ First(s, n, MAX_NVPS) \in DOMAIN chan[<<s, n>>]
         /\ chan[<<s, n>>][First(s, n, MAX_NVPS)] = Received(s, n, MAX_NVPS)
         /\ chan'[<<s, n>>] = RemoveAt(chan[<<s, n>>], First(s, n, MAX_NVPS))
         /\ chan'[<<n, Here(s)>>] = Append(chan[<<n, Here(s)>>], m)
         /\ \A x \in Thread, y \in Node :
              ~ (x = s /\ y = n) /\ ~ (x = n /\ y = Here(s)) => chan'[<<x, y>>] = chan[<<x, y>>]
<1>1. <<s, n>> \in Thread \X Node /\ <<n, Here(s)>> \in Thread \X Node /\ <<s, n>> # <<n, Here(s)>>
  BY Threads
<1>2. chan[<<s, n>>] \in Seq(Letter) /\ chan[<<n, Here(s)>>] \in Seq(Letter)
  BY <1>1 DEF ChanType
<1>3. First(s, n, MAX_NVPS) \in DOMAIN chan[<<s, n>>]
  BY <1>2, FirstFacts
<1> DEFINE a == RemoveAt(chan[<<s, n>>], First(s, n, MAX_NVPS))
<1>4. chan' = [chan EXCEPT ![<<s, n>>] = a, ![<<n, Here(s)>>] = Append(@, m)]
  BY DEF Replies
<1> HIDE DEF a
<1>5. chan'[<<s, n>>] = a /\ chan'[<<n, Here(s)>>] = Append(chan[<<n, Here(s)>>], m)
  BY <1>1, <1>4 DEF ChanType
<1>6. \A c \in Thread \X Node : c # <<s, n>> /\ c # <<n, Here(s)>> => chan'[c] = chan[c]
  BY <1>4 DEF ChanType
<1>7. \A x \in Thread, y \in Node :
        ~ (x = s /\ y = n) /\ ~ (x = n /\ y = Here(s)) => chan'[<<x, y>>] = chan[<<x, y>>]
  BY <1>6
<1> QED
  BY <1>2, <1>3, <1>5, <1>7 DEF a, Received

LEMMA RepliesOrOld ==
  ASSUME ChanType, NEW s \in Worker, NEW n \in Node, First(s, n, MAX_NVPS) # 0, NEW m, Replies(n, s, m),
         NEW x \in Thread, NEW y \in Node, NEW p \in DOMAIN chan'[<<x, y>>]
  PROVE  \/ \E r \in DOMAIN chan[<<x, y>>] : chan'[<<x, y>>][p] = chan[<<x, y>>][r]
         \/ x = n /\ y = Here(s) /\ chan'[<<x, y>>][p] = m
<1>0. s \in Thread /\ n \in Thread /\ Here(s) \in Node /\ s # n
  BY Threads
<1>1. CASE x = s /\ y = n
  <2>1. chan[<<s, n>>] \in Seq(Letter) /\ First(s, n, MAX_NVPS) \in DOMAIN chan[<<s, n>>]
        /\ chan'[<<s, n>>] = RemoveAt(chan[<<s, n>>], First(s, n, MAX_NVPS))
    BY RepliesFacts
  <2> QED
    BY <1>1, <2>1, RemoveFacts
<1>2. CASE x = n /\ y = Here(s)
  <2> DEFINE q == chan[<<n, Here(s)>>]
             r == chan'[<<n, Here(s)>>]
  <2>1. r = Append(q, m) /\ q \in Seq(Letter)
    BY RepliesFacts
  <2>2. p \in DOMAIN r
    BY <1>2
  <2> HIDE DEF q, r
  <2>3. (p \in DOMAIN q /\ r[p] = q[p]) \/ (p = Len(q) + 1 /\ r[p] = m)
    BY <2>1, <2>2, AppendFacts
  <2> QED
    BY <1>2, <2>3 DEF q, r
<1>3. CASE ~ (x = s /\ y = n) /\ ~ (x = n /\ y = Here(s))
  <2>1. chan'[<<x, y>>] = chan[<<x, y>>]
    BY <1>3, RepliesFacts
  <2> QED
    BY <2>1
<1> QED
  BY <1>1, <1>2, <1>3

LEMMA ServeThiefRequests ==
  ASSUME Types, Requests, NEW n \in Node, NEW s \in Worker, ServeThief(n, s) PROVE Requests'
<1>1. PICK m : Replies(n, s, m) /\ m.type # "STEALING_REQUEST"
  <2>1. \/ \E t \in ready[n] : Replies(n, s, Descriptor(ReplyTag(s), "stolen", t))
        \/ Replies(n, s, Descriptor(ReplyTag(s), "TORC_NO_WORK", NULL))
    BY DEF ServeThief, Replies
  <2> QED
    BY <2>1, Fields
<1>2. First(s, n, MAX_NVPS) # 0 /\ ChanType
  BY DEF ServeThief, Accepts, Types
<1>3. ASSUME NEW x \in Thread, NEW y \in Node, NEW p \in DOMAIN chan'[<<x, y>>], chan'[<<x, y>>][p].type = "STEALING_REQUEST"
      PROVE  x \in Worker /\ Here(x) # y
  <2>1. \/ \E r \in DOMAIN chan[<<x, y>>] : chan'[<<x, y>>][p] = chan[<<x, y>>][r]
        \/ x = n /\ y = Here(s) /\ chan'[<<x, y>>][p] = m
    BY <1>1, <1>2, RepliesOrOld
  <2> QED
    BY <1>1, <1>3, <2>1 DEF Requests
<1> QED
  BY <1>3 DEF Requests

\* A server serves workers of other nodes.
LEMMA ThiefIsAway ==
  ASSUME Types, Requests, NEW n \in Node, NEW s \in Thread, ServeThief(n, s)
  PROVE  s \in Worker /\ Here(s) # n
<1>1. /\ First(s, n, MAX_NVPS) # 0
      /\ Received(s, n, MAX_NVPS).type = "STEALING_REQUEST"
      /\ chan[<<s, n>>] \in Seq(Letter)
  BY DEF ServeThief, Accepts, Types, ChanType
<1>2. First(s, n, MAX_NVPS) \in DOMAIN chan[<<s, n>>]
  BY <1>1, FirstFacts
<1>3. chan[<<s, n>>][First(s, n, MAX_NVPS)].type = "STEALING_REQUEST"
  BY <1>1 DEF Received
<1> QED
  BY <1>2, <1>3 DEF Requests

LEMMA ServerTypes ==
  ASSUME Types, Requests, NEW n \in Node, ServerStep(n) PROVE Types' /\ Requests'
<1>1. ASSUME NEW s \in Thread, RecvWork(n, s) PROVE Types' /\ Requests'
  BY <1>1, RecvWorkTypes, ReceiveRequests DEF RecvWork
<1>2. ASSUME NEW s \in Thread, RecvAnswer(n, s) PROVE Types' /\ Requests'
  BY <1>2, RecvAnswerTypes, ReceiveRequests DEF RecvAnswer
<1>3. ASSUME NEW s \in Thread, ServeThief(n, s) PROVE Types' /\ Requests'
  BY <1>3, ThiefIsAway, ServeThiefTypes, ServeThiefRequests
<1>4. ASSUME NEW s \in Thread, RecvBcast(n, s) PROVE Types' /\ Requests'
  BY <1>4, RecvBcastTypes, ReceiveRequests DEF RecvBcast
<1>5. ASSUME NEW s \in Thread, CollectResult(n, s) PROVE Types' /\ Requests'
  <2>1. Types' /\ n \in Thread
    BY <1>5, CollectResultTypes, Threads
  <2>2. Matches(n, s)
    BY <1>5 DEF CollectResult
  <2>3. Receive(s, Here(n), doing[n].tag) /\ Here(n) \in Node
    BY <2>1, <2>2, MatchesFacts
  <2> QED
    BY <2>1, <2>3, ReceiveRequests
<1>6. ASSUME NEW s \in Thread, MatchBuffer(n, s) PROVE Types' /\ Requests'
  <2>1. Types' /\ n \in Thread
    BY <1>6, MatchBufferTypes, Threads
  <2>2. Matches(n, s)
    BY <1>6 DEF MatchBuffer
  <2>3. Receive(s, Here(n), doing[n].tag) /\ Here(n) \in Node
    BY <2>1, <2>2, MatchesFacts
  <2> QED
    BY <2>1, <2>3, ReceiveRequests
<1>7. ASSUME HaveResults(n) PROVE Types' /\ Requests'
  BY <1>7, HaveResultsTypes, SameRequests DEF HaveResults
<1>8. ASSUME BufferArrives(n) PROVE Types' /\ Requests'
  BY <1>8, BufferArrivesTypes, SameRequests DEF BufferArrives
<1> QED
  BY <1>1, <1>2, <1>3, <1>4, <1>5, <1>6, <1>7, <1>8 DEF ServerStep

LEMMA WorkerTypes ==
  ASSUME Types, Requests, NEW w \in Worker, WorkerStep(w) PROVE Types' /\ Requests'
<1>1. ASSUME NEW t \in Task, TakeReady(w, t) PROVE Types' /\ Requests'
  BY <1>1, TakeReadyTypes, SameRequests DEF TakeReady
<1>2. ASSUME AskForWork(w) PROVE Types' /\ Requests'
  BY <1>2, AskForWorkTypes, AskForWorkRequests
<1>3. ASSUME GiveUp(w) PROVE Types' /\ Requests'
  BY <1>3, GiveUpTypes, SameRequests DEF GiveUp
<1>4. ASSUME Refused(w) PROVE Types' /\ Requests'
  BY <1>4, RefusedTypes, AnsweredFacts, ReceiveRequests DEF Refused
<1>5. ASSUME Stolen(w) PROVE Types' /\ Requests'
  BY <1>5, StolenTypes, AnsweredFacts, ReceiveRequests DEF Stolen
<1>6. ASSUME Broadcast(w) PROVE Types' /\ Requests'
  BY <1>6, BroadcastTypes, BroadcastRequests
<1>7. ASSUME Ssend(w) PROVE Types' /\ Requests'
  BY <1>7, SsendTypes, SsendRequests
<1>8. ASSUME Told(w) PROVE Types' /\ Requests'
  BY <1>8, ToldTypes, SameRequests DEF Told
<1> QED
  BY <1>1, <1>2, <1>3, <1>4, <1>5, <1>6, <1>7, <1>8 DEF WorkerStep

LEMMA StepTypes ==
  ASSUME Types, Requests, [Next]_vars PROVE Types' /\ Requests'
<1>1. ASSUME NEW s \in Thread, NEW t \in Task, Create(s, t) PROVE Types' /\ Requests'
  BY <1>1, CreateTypes, CreateRequests
<1>2. ASSUME NEW s \in Thread, SendArgument(s) PROVE Types' /\ Requests'
  BY <1>2, SendArgumentTypes, SendArgumentRequests
<1>3. ASSUME NEW s \in Thread, EnterToReceive(s) PROVE Types' /\ Requests'
  BY <1>3, EnterToReceiveTypes, SameRequests DEF EnterToReceive
<1>4. ASSUME NEW s \in Thread, HaveArguments(s) PROVE Types' /\ Requests'
  BY <1>4, HaveArgumentsTypes, SameRequests DEF HaveArguments
<1>5. ASSUME NEW s \in Thread, NEW r \in Thread, RecvArgument(s, r) PROVE Types' /\ Requests'
  BY <1>5, RecvArgumentTypes, MatchesFacts, ReceiveRequests DEF RecvArgument
<1>6. ASSUME NEW s \in Thread, FinishAtHome(s) PROVE Types' /\ Requests'
  BY <1>6, FinishAtHomeTypes, SameRequests DEF FinishAtHome
<1>7. ASSUME NEW s \in Thread, FinishAway(s) PROVE Types' /\ Requests'
  BY <1>7, FinishAwayTypes, FinishAwayRequests
<1>8. ASSUME NEW s \in Thread, SendResult(s) PROVE Types' /\ Requests'
  BY <1>8, SendResultTypes, SendResultRequests
<1>9. ASSUME NEW s \in Node, ServerStep(s) PROVE Types' /\ Requests'
  BY <1>9, ServerTypes
<1>10. ASSUME NEW s \in Worker, WorkerStep(s) PROVE Types' /\ Requests'
  BY <1>10, WorkerTypes
<1>11. ASSUME UNCHANGED vars PROVE Types' /\ Requests'
  <2>1. Types'
    BY <1>11 DEF vars, tasks, values, bcast, Types, ChanType, DoingType, MemoryType, TaskType, RestType
  <2>2. Requests'
    BY <1>11, SameRequests DEF vars
  <2> QED
    BY <2>1, <2>2
<1> QED
  BY <1>1, <1>2, <1>3, <1>4, <1>5, <1>6, <1>7, <1>8, <1>9, <1>10, <1>11 DEF Next, ThreadStep

LEMMA InitRequests == Init => Requests
<1> SUFFICES ASSUME Init PROVE Requests
  OBVIOUS
<1>1. \A s \in Thread, n \in Node : chan[<<s, n>>] = <<>>
  BY DEF Init
<1> QED
  BY <1>1 DEF Requests

\* Messages, activities, arguments and buffers are of the kinds the program
\* has, in every state: what is received as a task, an argument or a buffer
\* was sent as one.
THEOREM AlwaysTypeOK == Spec => []TypeOK
<1>1. Init => Types /\ Requests
  BY InitTypes, InitRequests
<1>2. (Types /\ Requests) /\ [Next]_vars => (Types /\ Requests)'
  BY StepTypes
<1>3. Types /\ Requests => TypeOK
  BY TypesImplyTypeOK
<1> QED
  BY <1>1, <1>2, <1>3, PTL DEF Spec

----------------------------------------------------------------------------
(* The messages of a channel, and what its ends are busy with.             *)

\* What a thread with activity d still has to send to node n.
Owes(d, n, L) ==
  IF d.op \in {"send", "result"} /\ d.peer = n /\ (d.tag >= 100) = L THEN DueOf(d.task, d.left)
  ELSE IF d.op = "bcast" /\ d.peer = n /\ ~L THEN DueOf(NULL, {0})
  ELSE NoDue

\* What a server with activity d waits for from thread s.
Expects(d, s) ==
  IF d.op \in {"receive", "collect", "buffer"} /\ d.peer = Here(s) /\ d.tag = Tag(s)
    THEN DueOf(d.task, d.left) ELSE NoDue

\* A worker with activity d waits for a reply of node k, or for what follows.
Asks(d, k) == d.op \in {"asked", "receive"} /\ d.peer = k

\* Between a thread and a server.
WorkAt(s, n) ==
  ChainOf(chan[<<s, n>>], FALSE, Expects(doing[n], s), Owes(doing[s], n, FALSE), n, homenode)

WorkChain == \A s \in Thread, n \in Node : WorkAt(s, n)

\* Between a server and the worker of a node that asked it, if there is one.
ReplyAt(k, n) ==
  /\ \A w \in Worker : Here(w) = n /\ Asks(doing[w], k) =>
       ChainOf(chan[<<k, n>>], TRUE, DueOf(doing[w].task, doing[w].left),
               Owes(doing[k], n, TRUE), n, homenode)
  /\ (\A w \in Worker : Here(w) = n => ~ Asks(doing[w], k)) =>
       Lane(chan[<<k, n>>], TRUE) = {} /\ Owes(doing[k], n, TRUE) = NoDue

ReplyChain == \A k, n \in Node : ReplyAt(k, n)

\* A message and the channel it is on.
MessageOK(m, s, n, home) ==
  /\ m.task # NULL => home[m.task] # NULL
  /\ m.tag < 100 =>
       IF m.type = "data" THEN s \in Worker /\ m.tag = Tag(s)
       ELSE /\ m.tag = MAX_NVPS
            /\ m.type \in {"TORC_NORMAL_ENQUEUE", "TORC_ANSWER", "STEALING_REQUEST", "TORC_BCAST"}
  /\ m.tag >= 100 => s \in Node /\ m.type \in {"stolen", "TORC_NO_WORK", "data"}
  /\ m.type = "TORC_NORMAL_ENQUEUE" =>
       /\ target[m.task] = n /\ home[m.task] = Here(s) /\ home[m.task] # n
       /\ s \in Node => SentArgs(m.task) = {}
  /\ m.type = "TORC_ANSWER" => /\ home[m.task] = n /\ Here(s) # n
                               /\ s \in Node => SentResults(m.task) = {}
  /\ m.type = "TORC_BCAST" => s \in Worker /\ Here(s) # n

Messages ==
  \A s \in Thread, n \in Node : \A p \in DOMAIN chan[<<s, n>>] :
    MessageOK(chan[<<s, n>>][p], s, n, homenode)

\* What thread s is busy with, and where its task is at home.
ActivityOK(d, s, home) ==
  /\ d.task # NULL => home[d.task] # NULL
  /\ d.inside # NULL => home[d.inside] # NULL
  /\ d.op = "run" /\ s \in Node => d.task \in Direct /\ target[d.task] = s /\ home[d.task] # s
  /\ d.op = "send" => /\ d.peer # home[d.task]
                      /\ s \in Node => d.tag >= 100 /\ d.inside = NULL
  /\ d.op = "result" => s \in Worker /\ d.peer = home[d.task] /\ home[d.task] # Here(s)
  /\ d.op = "receive" => /\ home[d.task] # Here(s)
                         /\ s \in Node => /\ target[d.task] = s
                                          /\ d.tag = MAX_NVPS => d.left = {}
  /\ d.op = "collect" => home[d.task] = s /\ (d.tag = MAX_NVPS => d.left = {})
  /\ d.op \in {"receive", "collect", "buffer"} => d.peer # Here(s)
  /\ d.op = "buffer" => d.tag < MAX_NVPS

Activities == \A s \in Thread : ActivityOK(doing[s], s, homenode)

\* One worker of a node asks at a time; its request is the last message it
\* sent, and there is one request or one reply.
Request(s, n, p) ==
  /\ s \in Worker /\ doing[s].op = "asked" /\ doing[s].peer = n
  /\ p = Len(chan[<<s, n>>])
  /\ Lane(chan[<<n, Here(s)>>], TRUE) = {}

Reply(m, k, n) ==
  \E w \in Worker : /\ Here(w) = n /\ Asks(doing[w], k) /\ m.tag = ReplyTag(w)
                    /\ m.type # "data" => doing[w].op = "asked"

Alone ==
  \A v, w \in Worker :
    Here(v) = Here(w) /\ doing[v].op \in {"asked", "receive"} /\ doing[w].op \in {"asked", "receive"}
      => v = w

RequestsLast ==
  \A s \in Thread, n \in Node : \A p \in DOMAIN chan[<<s, n>>] :
    chan[<<s, n>>][p].type = "STEALING_REQUEST" => Request(s, n, p)

Asked ==
  \A k, n \in Node : \A p \in Lane(chan[<<k, n>>], TRUE) :
    /\ Reply(chan[<<k, n>>][p], k, n)
    /\ \A r \in Lane(chan[<<k, n>>], TRUE) :
         chan[<<k, n>>][p].type # "data" /\ chan[<<k, n>>][r].type # "data" => p = r

\* A server that answers a thief uses the tag of that thief.
Serving ==
  \A k \in Node : doing[k].op = "send" =>
    \E w \in Worker : Here(w) = doing[k].peer /\ Asks(doing[w], k) /\ doing[k].tag = ReplyTag(w)

Asking == Alone /\ RequestsLast /\ Asked /\ Serving

----------------------------------------------------------------------------
(* Where a task is.                                                        *)

\* A message of the channel hands on task t.
Brings(q, t) == \E p \in DOMAIN q : q[p].type \in Descriptors /\ q[p].task = t

Holds(d, t) == (d.op \in {"run", "receive", "collect"} /\ d.task = t) \/ d.inside = t

\* Task t is in place i of kind k.
At(k, i, t) ==
  \/ k = "chan"   /\ \E s \in Thread, n \in Node : i = <<s, n>> /\ Brings(chan[<<s, n>>], t)
  \/ k = "ready"  /\ i \in Node /\ t \in ready[i]
  \/ k = "thread" /\ i \in Thread /\ Holds(doing[i], t)
  \/ k = "done"   /\ i = 0 /\ t \in finished

\* A task is nowhere before it is created, and then in one place at most.
Apart ==
  \A t \in Task : \A k, i : At(k, i, t) =>
    homenode[t] # NULL /\ \A l, j : At(l, j, t) => k = l /\ i = j

NoRepeat ==
  \A s \in Thread, n \in Node : \A p, r \in DOMAIN chan[<<s, n>>] :
    /\ chan[<<s, n>>][p].type \in Descriptors /\ chan[<<s, n>>][r].type \in Descriptors
    /\ chan[<<s, n>>][p].task = chan[<<s, n>>][r].task
    => p = r

Traffic == WorkChain /\ ReplyChain /\ Messages /\ Activities /\ Asking /\ Apart /\ NoRepeat

Inv == Types /\ Requests /\ Traffic

----------------------------------------------------------------------------
(* What a step does to the chains.                                         *)

\* Tasks stay where they were created.
HomeKept(home, home2) == \A t \in Task : home[t] # NULL => home2[t] = home[t]

LEMMA SameHome == \A home : HomeKept(home, home)
BY DEF HomeKept

LEMMA SameRest ==
  ASSUME NEW m \in Letter, NEW n, NEW home, NEW home2, HomeKept(home, home2),
         m.task # NULL => home[m.task] # NULL
  PROVE  Rest(m, n, home2) = Rest(m, n, home)
<1>1. m.task # NULL => m.task \in Task
  BY DEF Letter, Message
<1>2. m.task # NULL => home2[m.task] = home[m.task]
  BY <1>1 DEF HomeKept
<1>3. m.type = "stolen" => m.task # NULL
  BY DistinctAssumption DEF Letter, Descriptors
<1> QED
  BY <1>2, <1>3 DEF Rest, Cargo

LEMMA SameMessageOK ==
  ASSUME NEW m \in Letter, NEW s, NEW n, NEW home, NEW home2, HomeKept(home, home2),
         MessageOK(m, s, n, home)
  PROVE  MessageOK(m, s, n, home2)
<1>1. m.task # NULL => m.task \in Task /\ home[m.task] # NULL
  BY DEF Letter, Message, MessageOK
<1>2. m.task # NULL => home2[m.task] = home[m.task]
  BY <1>1 DEF HomeKept
<1>3. m.type \in Descriptors => m.task # NULL
  BY DistinctAssumption DEF Letter
<1> QED
  BY <1>1, <1>2, <1>3 DEF MessageOK, Descriptors

LEMMA SameActivityOK ==
  ASSUME NEW d, NEW s, Busy(d, s), NEW home, NEW home2, HomeKept(home, home2),
         ActivityOK(d, s, home)
  PROVE  ActivityOK(d, s, home2)
<1>1. (d.task # NULL => d.task \in Task) /\ (d.inside # NULL => d.inside \in Task)
  BY DEF Busy, Activity
<1>2. /\ d.task # NULL => home2[d.task] = home[d.task] /\ home2[d.task] # NULL
      /\ d.inside # NULL => home2[d.inside] # NULL
  BY <1>1 DEF HomeKept, ActivityOK
<1>3. d.op \in {"run", "send", "result", "receive", "collect"} => d.task # NULL
  BY DistinctAssumption DEF Busy
<1> QED
  BY <1>2, <1>3 DEF ActivityOK

\* The lane of a channel that has not changed.
LEMMA ChainKept ==
  ASSUME Types, Messages, HomeKept(homenode, homenode'), NEW s \in Thread, NEW n \in Node,
         NEW L, NEW dr, NEW ds, ChainOf(chan[<<s, n>>], L, dr, ds, n, homenode)
  PROVE  ChainOf(chan[<<s, n>>], L, dr, ds, n, homenode')
<1> DEFINE q == chan[<<s, n>>]
<1>1. \A p \in Lane(q, L) : q[p] \in Letter /\ MessageOK(q[p], s, n, homenode)
  BY DEF Lane, Messages, Types, ChanType
<1>2. ASSUME NEW p \in Lane(q, L) PROVE Rest(q[p], n, homenode') = Rest(q[p], n, homenode)
  <2>1. q[p] \in Letter /\ (q[p].task # NULL => homenode[q[p].task] # NULL)
    BY <1>1 DEF MessageOK
  <2> HIDE DEF q
  <2> QED
    BY <2>1, SameRest
<1> HIDE DEF q
<1>3. ChainOf(q, L, dr, ds, n, homenode)
  BY DEF q
<1>4. ChainOf(q, L, dr, ds, n, homenode')
  BY <1>2, <1>3, SameLane
<1> QED
  BY <1>4 DEF q

LEMMA WorkKept ==
  ASSUME Types, Messages, HomeKept(homenode, homenode'), NEW s \in Thread, NEW n \in Node,
         WorkAt(s, n), chan'[<<s, n>>] = chan[<<s, n>>],
         Expects(doing'[n], s) = Expects(doing[n], s),
         Owes(doing'[s], n, FALSE) = Owes(doing[s], n, FALSE)
  PROVE  WorkAt(s, n)'
BY ChainKept DEF WorkAt

LEMMA ReplyKept ==
  ASSUME Types, Messages, HomeKept(homenode, homenode'), NEW k \in Node, NEW n \in Node,
         ReplyAt(k, n), chan'[<<k, n>>] = chan[<<k, n>>],
         Owes(doing'[k], n, TRUE) = Owes(doing[k], n, TRUE),
         \A w \in Worker : Here(w) = n => /\ Asks(doing'[w], k) = Asks(doing[w], k)
                                          /\ Asks(doing[w], k) =>
                                               /\ doing'[w].task = doing[w].task
                                               /\ doing'[w].left = doing[w].left
  PROVE  ReplyAt(k, n)'
<1>1. k \in Thread
  BY Threads
<1>2. ASSUME NEW w \in Worker, Here(w) = n, Asks(doing'[w], k)
      PROVE  ChainOf(chan[<<k, n>>], TRUE, DueOf(doing'[w].task, doing'[w].left),
                     Owes(doing'[k], n, TRUE), n, homenode')
  <2>1. /\ ChainOf(chan[<<k, n>>], TRUE, DueOf(doing[w].task, doing[w].left),
                   Owes(doing[k], n, TRUE), n, homenode)
        /\ doing'[w].task = doing[w].task /\ doing'[w].left = doing[w].left
    BY <1>2 DEF ReplyAt
  <2> QED
    BY <1>1, <2>1, ChainKept
<1>3. (\A w \in Worker : Here(w) = n => ~ Asks(doing'[w], k)) =>
         Lane(chan[<<k, n>>], TRUE) = {} /\ Owes(doing'[k], n, TRUE) = NoDue
  BY DEF ReplyAt
<1> QED
  BY <1>2, <1>3 DEF ReplyAt

\* A thread goes on without touching a channel.
LEMMA GoOnChains ==
  ASSUME Types, Messages, WorkChain, ReplyChain, HomeKept(homenode, homenode'), chan' = chan,
         NEW s \in Thread, \A x \in Thread : x # s => doing'[x] = doing[x],
         \A x \in Thread : Expects(doing'[s], x) = Expects(doing[s], x),
         \A y \in Node, L \in BOOLEAN : Owes(doing'[s], y, L) = Owes(doing[s], y, L),
         s \in Worker => \A k \in Node : Asks(doing'[s], k) = Asks(doing[s], k)
                           /\ (Asks(doing[s], k) => doing'[s].task = doing[s].task /\ doing'[s].left = doing[s].left)
  PROVE  WorkChain' /\ ReplyChain'
<1>1. ASSUME NEW x \in Thread, NEW y \in Node PROVE WorkAt(x, y)'
  <2>1. y \in Thread
    BY Threads
  <2>2. Expects(doing'[y], x) = Expects(doing[y], x) /\ Owes(doing'[x], y, FALSE) = Owes(doing[x], y, FALSE)
    BY <2>1
  <2>3. WorkAt(x, y)
    BY DEF WorkChain
  <2> QED
    BY <2>2, <2>3, WorkKept
<1>2. ASSUME NEW k \in Node, NEW y \in Node PROVE ReplyAt(k, y)'
  <2>1. k \in Thread /\ Worker \subseteq Thread
    BY Threads
  <2>2. Owes(doing'[k], y, TRUE) = Owes(doing[k], y, TRUE)
    BY <2>1
  <2>3. ReplyAt(k, y)
    BY DEF ReplyChain
  <2>4. ASSUME NEW w \in Worker
        PROVE  /\ Asks(doing'[w], k) = Asks(doing[w], k)
               /\ Asks(doing[w], k) => doing'[w].task = doing[w].task /\ doing'[w].left = doing[w].left
    BY <2>1
  <2> QED
    BY <2>2, <2>3, <2>4, ReplyKept
<1>3. WorkChain'
  BY <1>1 DEF WorkChain
<1>4. ReplyChain'
  BY <1>2 DEF ReplyChain
<1> QED
  BY <1>3, <1>4

\* An activity that neither sends nor waits for anything.
Settled(d) == d.op \notin {"send", "result", "bcast", "receive", "collect", "buffer", "asked"}

LEMMA SettledFacts ==
  ASSUME NEW d, Settled(d)
  PROVE  /\ \A x : Expects(d, x) = NoDue
         /\ \A y, L : Owes(d, y, L) = NoDue
         /\ \A k : Asks(d, k) = FALSE
BY DEF Settled, Expects, Owes, Asks

\* Activity d sends message m to node n, and activity e comes after that.
Sends(d, e, m, n, home) ==
  LET L == m.tag >= 100
  IN  /\ Link(Owes(d, n, L), m)
      /\ Owes(e, n, L) = Rest(m, n, home)
      /\ Owes(e, n, ~L) = Owes(d, n, ~L)
      /\ \A y \in Node, M \in BOOLEAN : y # n => Owes(e, y, M) = Owes(d, y, M)
      /\ d.op \notin {"receive", "collect", "buffer", "asked"}
      /\ e.op \notin {"receive", "collect", "buffer"}

LEMMA SendWork ==
  ASSUME Types, Messages, WorkChain, HomeKept(homenode, homenode'),
         NEW s \in Thread, NEW n \in Node, NEW m, Send(s, n, m),
         \A x \in Thread : x # s => doing'[x] = doing[x],
         Sends(doing[s], doing'[s], m, n, homenode')
  PROVE  WorkChain'
<1> DEFINE L == m.tag >= 100
<1>0. ChanType /\ Node \subseteq Thread
  BY Threads DEF Types
<1>1. \A y \in Node : \A x \in Thread : Expects(doing'[y], x) = Expects(doing[y], x)
  <2>1. \A x : Expects(doing[s], x) = NoDue /\ Expects(doing'[s], x) = NoDue
    BY DEF Sends, Expects
  <2> QED
    BY <1>0, <2>1
<1>2. ASSUME NEW x \in Thread, NEW y \in Node, ~ (x = s /\ y = n) PROVE WorkAt(x, y)'
  <2>1. chan'[<<x, y>>] = chan[<<x, y>>] /\ WorkAt(x, y)
    BY <1>0, <1>2, SentFacts DEF WorkChain
  <2>2. Owes(doing'[x], y, FALSE) = Owes(doing[x], y, FALSE)
    BY <1>2 DEF Sends
  <2> QED
    BY <1>1, <2>1, <2>2, WorkKept
<1>3. WorkAt(s, n)'
  <2> DEFINE q == chan[<<s, n>>]
  <2>1. chan'[<<s, n>>] = Append(q, m) /\ q \in Seq(Letter)
    BY <1>0, SentFacts
  <2>2. ChainOf(q, FALSE, Expects(doing'[n], s), Owes(doing[s], n, FALSE), n, homenode')
    <3>1. ChainOf(q, FALSE, Expects(doing[n], s), Owes(doing[s], n, FALSE), n, homenode)
      BY DEF WorkChain, WorkAt
    <3> QED
      BY <1>1, <3>1, ChainKept
  <2> HIDE DEF q
  <2>3. CASE L
    <3>1. Lane(Append(q, m), FALSE) = Lane(q, FALSE) /\ \A p \in Lane(q, FALSE) : Append(q, m)[p] = q[p]
      BY <2>1, <2>3, OtherLaneAppended
    <3>2. Owes(doing'[s], n, FALSE) = Owes(doing[s], n, FALSE)
      BY <2>3 DEF Sends
    <3>3. ChainOf(Append(q, m), FALSE, Expects(doing'[n], s), Owes(doing[s], n, FALSE), n, homenode')
      BY <2>2, <3>1, SameLane
    <3> QED
      BY <2>1, <3>2, <3>3 DEF WorkAt
  <2>4. CASE ~L
    <3>0. (m.tag >= 100) = FALSE
      BY <2>4
    <3>1. Link(Owes(doing[s], n, FALSE), m) /\ Owes(doing'[s], n, FALSE) = Rest(m, n, homenode') /\ (m.tag >= 100) = FALSE
      BY <3>0 DEF Sends
    <3>2. ChainOf(Append(q, m), FALSE, Expects(doing'[n], s), Rest(m, n, homenode'), n, homenode')
      BY <2>1, <2>2, <3>1, ChainAppended
    <3> QED
      BY <2>1, <3>1, <3>2 DEF WorkAt
  <2> QED
    BY <2>3, <2>4
<1> QED
  BY <1>2, <1>3 DEF WorkChain

LEMMA SendReply ==
  ASSUME Types, Messages, ReplyChain, HomeKept(homenode, homenode'),
         NEW s \in Thread, NEW n \in Node, NEW m, Send(s, n, m),
         \A x \in Thread : x # s => doing'[x] = doing[x],
         Sends(doing[s], doing'[s], m, n, homenode'),
         doing'[s].op # "asked", m.tag >= 100 => m.type = "data"
  PROVE  ReplyChain'
<1> DEFINE L == m.tag >= 100
<1>0. ChanType /\ Node \subseteq Thread /\ Worker \subseteq Thread
  BY Threads DEF Types
<1>1. ASSUME NEW w \in Worker, NEW k \in Node
      PROVE  /\ Asks(doing'[w], k) = Asks(doing[w], k)
             /\ Asks(doing[w], k) => doing'[w].task = doing[w].task /\ doing'[w].left = doing[w].left
  <2>1. Asks(doing[s], k) = FALSE /\ Asks(doing'[s], k) = FALSE
    BY DEF Sends, Asks
  <2> QED
    BY <1>0, <2>1
<1>2. ASSUME NEW k \in Node, NEW y \in Node, ~ (k = s /\ y = n) PROVE ReplyAt(k, y)'
  <2>1. chan'[<<k, y>>] = chan[<<k, y>>] /\ ReplyAt(k, y)
    BY <1>0, <1>2, SentFacts DEF ReplyChain
  <2>2. Owes(doing'[k], y, TRUE) = Owes(doing[k], y, TRUE)
    BY <1>0, <1>2 DEF Sends
  <2> QED
    BY <1>1, <2>1, <2>2, ReplyKept
<1>3. ASSUME s \in Node PROVE ReplyAt(s, n)'
  <2> DEFINE q == chan[<<s, n>>]
  <2>1. chan'[<<s, n>>] = Append(q, m) /\ q \in Seq(Letter)
    BY <1>0, SentFacts
  <2>2. ReplyAt(s, n)
    BY <1>3 DEF ReplyChain
  <2>3. ASSUME NEW w \in Worker, Here(w) = n, Asks(doing[w], s)
        PROVE  ChainOf(q, TRUE, DueOf(doing'[w].task, doing'[w].left), Owes(doing[s], n, TRUE), n, homenode')
    <3>1. ChainOf(q, TRUE, DueOf(doing[w].task, doing[w].left), Owes(doing[s], n, TRUE), n, homenode)
      BY <2>2, <2>3 DEF ReplyAt
    <3>2. doing'[w].task = doing[w].task /\ doing'[w].left = doing[w].left
      BY <1>1, <1>3, <2>3
    <3> QED
      BY <3>1, <3>2, ChainKept
  <2>4. (\A w \in Worker : Here(w) = n => ~ Asks(doing[w], s)) => Lane(q, TRUE) = {} /\ Owes(doing[s], n, TRUE) = NoDue
    BY <2>2 DEF ReplyAt
  <2> HIDE DEF q
  <2>5. CASE ~L
    <3>1. Lane(Append(q, m), TRUE) = Lane(q, TRUE) /\ \A p \in Lane(q, TRUE) : Append(q, m)[p] = q[p]
      BY <2>1, <2>5, OtherLaneAppended
    <3>2. Owes(doing'[s], n, TRUE) = Owes(doing[s], n, TRUE)
      BY <2>5 DEF Sends
    <3>3. ASSUME NEW w \in Worker, Here(w) = n, Asks(doing'[w], s)
          PROVE  ChainOf(Append(q, m), TRUE, DueOf(doing'[w].task, doing'[w].left), Owes(doing'[s], n, TRUE), n, homenode')
      <4>1. ChainOf(q, TRUE, DueOf(doing'[w].task, doing'[w].left), Owes(doing[s], n, TRUE), n, homenode')
        BY <1>1, <1>3, <2>3, <3>3
      <4> QED
        BY <3>1, <3>2, <4>1, SameLane
    <3>4. (\A w \in Worker : Here(w) = n => ~ Asks(doing'[w], s)) =>
             Lane(Append(q, m), TRUE) = {} /\ Owes(doing'[s], n, TRUE) = NoDue
      BY <1>1, <1>3, <2>4, <3>1, <3>2
    <3> QED
      BY <2>1, <3>3, <3>4 DEF ReplyAt
  <2>6. CASE L
    <3>1. Link(Owes(doing[s], n, TRUE), m) /\ Owes(doing'[s], n, TRUE) = Rest(m, n, homenode') /\ (m.tag >= 100) = TRUE
      BY <2>6 DEF Sends
    <3>2. Owes(doing[s], n, TRUE) # NoDue
      BY <2>6, <3>1 DEF Link
    <3>3. ~ \A w \in Worker : Here(w) = n => ~ Asks(doing'[w], s)
      BY <1>1, <1>3, <2>4, <3>2
    <3>4. ASSUME NEW w \in Worker, Here(w) = n, Asks(doing'[w], s)
          PROVE  ChainOf(Append(q, m), TRUE, DueOf(doing'[w].task, doing'[w].left), Owes(doing'[s], n, TRUE), n, homenode')
      <4>1. ChainOf(q, TRUE, DueOf(doing'[w].task, doing'[w].left), Owes(doing[s], n, TRUE), n, homenode')
        BY <1>1, <1>3, <2>3, <3>4
      <4>2. ChainOf(Append(q, m), TRUE, DueOf(doing'[w].task, doing'[w].left), Rest(m, n, homenode'), n, homenode')
        BY <2>1, <3>1, <4>1, ChainAppended
      <4> QED
        BY <3>1, <4>2
    <3> QED
      BY <2>1, <3>3, <3>4 DEF ReplyAt
  <2> QED
    BY <2>5, <2>6
<1> QED
  BY <1>2, <1>3 DEF ReplyChain

\* Nothing comes into a lane when a message is taken.
LEMMA LaneTaken ==
  ASSUME NEW S, NEW q \in Seq(S), NEW f \in DOMAIN q, NEW L
  PROVE  /\ \A p \in Lane(RemoveAt(q, f), L) :
              \E r \in Lane(q, L) : r # f /\ r = Shift(f, p) /\ RemoveAt(q, f)[p] = q[r]
         /\ Lane(q, L) \subseteq {f} => Lane(RemoveAt(q, f), L) = {}
<1>1. ASSUME NEW p \in Lane(RemoveAt(q, f), L)
      PROVE  \E r \in Lane(q, L) : r # f /\ r = Shift(f, p) /\ RemoveAt(q, f)[p] = q[r]
  <2>1. p \in DOMAIN RemoveAt(q, f) /\ (RemoveAt(q, f)[p].tag >= 100) = L
    BY <1>1 DEF Lane
  <2>2. Shift(f, p) \in DOMAIN q \ {f} /\ RemoveAt(q, f)[p] = q[Shift(f, p)]
    BY <2>1, RemoveFacts
  <2>3. Shift(f, p) \in Lane(q, L)
    BY <2>1, <2>2 DEF Lane
  <2> QED
    BY <2>2, <2>3
<1> QED
  BY <1>1

\* A server takes the first message of a thread to it.
LEMMA TakeWork ==
  ASSUME Types, Messages, WorkChain, ReplyChain, homenode' = homenode,
         NEW s \in Thread, NEW n \in Node, NEW tag, Receive(s, n, tag),
         First(s, n, tag) \in Lane(chan[<<s, n>>], FALSE),
         \A k \in Lane(chan[<<s, n>>], FALSE) : k >= First(s, n, tag),
         \A x \in Thread : x # n => doing'[x] = doing[x],
         Expects(doing'[n], s) = Rest(Received(s, n, tag), n, homenode),
         \A x \in Thread : x # s => Expects(doing'[n], x) = Expects(doing[n], x),
         \A y \in Node, L \in BOOLEAN : Owes(doing'[n], y, L) = Owes(doing[n], y, L)
  PROVE  WorkChain' /\ ReplyChain'
<1> DEFINE q == chan[<<s, n>>]
           f == First(s, n, tag)
<1>0. ChanType /\ n \in Thread /\ Node \subseteq Thread /\ HomeKept(homenode, homenode')
      /\ Worker \subseteq Thread \ {n}
  BY Threads, SameHome DEF Types
<1>1. q \in Seq(Letter) /\ f \in DOMAIN q /\ q[f] = Received(s, n, tag) /\ chan'[<<s, n>>] = RemoveAt(q, f)
      /\ f \in Lane(q, FALSE) /\ f \notin Lane(q, TRUE)
  <2>1. q \in Seq(Letter) /\ f \in DOMAIN q /\ q[f] = Received(s, n, tag) /\ chan'[<<s, n>>] = RemoveAt(q, f)
    BY <1>0, TakenFacts
  <2> QED
    BY <2>1 DEF Lane
<1>2. \A x \in Thread, y \in Node, L \in BOOLEAN : Owes(doing'[x], y, L) = Owes(doing[x], y, L)
  BY <1>0
<1>3. ASSUME NEW x \in Thread, NEW y \in Node, ~ (x = s /\ y = n) PROVE WorkAt(x, y)'
  <2>1. chan'[<<x, y>>] = chan[<<x, y>>] /\ WorkAt(x, y)
    BY <1>0, <1>3, TakenFacts DEF WorkChain
  <2>2. Expects(doing'[y], x) = Expects(doing[y], x)
    BY <1>0, <1>3
  <2> QED
    BY <1>0, <1>2, <2>1, <2>2, WorkKept
<1> HIDE DEF q, f
<1>4. WorkAt(s, n)'
  <2>1. ChainOf(q, FALSE, Expects(doing[n], s), Owes(doing[s], n, FALSE), n, homenode)
    BY DEF WorkChain, WorkAt, q
  <2>2. \A k \in Lane(q, FALSE) : k >= f
    BY DEF q, f
  <2>3. ChainOf(RemoveAt(q, f), FALSE, Rest(q[f], n, homenode), Owes(doing[s], n, FALSE), n, homenode)
    BY <1>1, <2>1, <2>2, ChainTaken
  <2> QED
    BY <1>1, <1>2, <2>3 DEF WorkAt
<1>5. ASSUME NEW k \in Node, NEW y \in Node, ~ (k = s /\ y = n) PROVE ReplyAt(k, y)'
  <2>1. chan'[<<k, y>>] = chan[<<k, y>>] /\ ReplyAt(k, y)
    BY <1>0, <1>5, TakenFacts DEF ReplyChain
  <2>2. Owes(doing'[k], y, TRUE) = Owes(doing[k], y, TRUE) /\ \A w \in Worker : doing'[w] = doing[w]
    BY <1>0, <1>2
  <2> QED
    BY <1>0, <2>1, <2>2, ReplyKept
<1>6. ASSUME s \in Node PROVE ReplyAt(s, n)'
  <2>1. ReplyAt(s, n) /\ Owes(doing'[s], n, TRUE) = Owes(doing[s], n, TRUE) /\ \A w \in Worker : doing'[w] = doing[w]
    BY <1>0, <1>2, <1>6 DEF ReplyChain
  <2>2. ASSUME NEW w \in Worker, Here(w) = n, Asks(doing[w], s)
        PROVE  ChainOf(RemoveAt(q, f), TRUE, DueOf(doing[w].task, doing[w].left), Owes(doing[s], n, TRUE), n, homenode)
    <3>1. ChainOf(q, TRUE, DueOf(doing[w].task, doing[w].left), Owes(doing[s], n, TRUE), n, homenode)
      BY <2>1, <2>2 DEF ReplyAt, q
    <3> QED
      BY <1>1, <3>1, OtherChainTaken
  <2>3. (\A w \in Worker : Here(w) = n => ~ Asks(doing[w], s)) =>
           Lane(RemoveAt(q, f), TRUE) = {} /\ Owes(doing[s], n, TRUE) = NoDue
    <3>1. Lane(q, TRUE) = {} => Lane(RemoveAt(q, f), TRUE) = {}
      BY <1>1, LaneTaken
    <3>2. (\A w \in Worker : Here(w) = n => ~ Asks(doing[w], s)) =>
             Lane(q, TRUE) = {} /\ Owes(doing[s], n, TRUE) = NoDue
      BY <2>1 DEF ReplyAt, q
    <3> QED
      BY <3>1, <3>2
  <2> QED
    BY <1>1, <2>1, <2>2, <2>3 DEF ReplyAt
<1> QED
  BY <1>3, <1>4, <1>5, <1>6 DEF WorkChain, ReplyChain

\* A worker takes the first reply of a server, and goes on waiting or not.
LEMMA TakeReply ==
  ASSUME Types, Messages, WorkChain, ReplyChain, Alone, homenode' = homenode,
         NEW k \in Node, NEW w \in Worker, NEW tag, Receive(k, Here(w), tag),
         Asks(doing[w], k),
         First(k, Here(w), tag) \in Lane(chan[<<k, Here(w)>>], TRUE),
         \A p \in Lane(chan[<<k, Here(w)>>], TRUE) : p >= First(k, Here(w), tag),
         \A x \in Thread : x # w => doing'[x] = doing[x],
         \A y \in Node, L \in BOOLEAN : Owes(doing'[w], y, L) = Owes(doing[w], y, L),
         \/ /\ Asks(doing'[w], k)
            /\ DueOf(doing'[w].task, doing'[w].left) = Rest(Received(k, Here(w), tag), Here(w), homenode)
         \/ /\ doing'[w].op \notin {"asked", "receive"}
            /\ Lane(chan'[<<k, Here(w)>>], TRUE) = {}
            /\ Rest(Received(k, Here(w), tag), Here(w), homenode) = NoDue
  PROVE  WorkChain' /\ ReplyChain'
<1> DEFINE n == Here(w)
           q == chan[<<k, n>>]
           f == First(k, n, tag)
<1>0. /\ ChanType /\ n \in Node /\ w \in Thread /\ Node \subseteq Thread \ {w}
      /\ HomeKept(homenode, homenode') /\ Worker \subseteq Thread
      /\ doing[w].op \in {"asked", "receive"} /\ doing[w].peer = k
  BY Threads, SameHome DEF Types, Asks
<1>1. q \in Seq(Letter) /\ f \in DOMAIN q /\ q[f] = Received(k, n, tag) /\ chan'[<<k, n>>] = RemoveAt(q, f)
      /\ f \in Lane(q, TRUE) /\ f \notin Lane(q, FALSE)
  <2>1. q \in Seq(Letter) /\ f \in DOMAIN q /\ q[f] = Received(k, n, tag) /\ chan'[<<k, n>>] = RemoveAt(q, f)
    BY <1>0, TakenFacts
  <2> QED
    BY <2>1 DEF Lane
<1>2. \A x \in Thread, y \in Node, L \in BOOLEAN : Owes(doing'[x], y, L) = Owes(doing[x], y, L)
  BY <1>0
<1>3. \A y \in Node : doing'[y] = doing[y]
  BY <1>0
<1>4. ASSUME NEW x \in Thread, NEW y \in Node, ~ (x = k /\ y = n) PROVE WorkAt(x, y)'
  <2>1. chan'[<<x, y>>] = chan[<<x, y>>] /\ WorkAt(x, y)
    BY <1>0, <1>4, TakenFacts DEF WorkChain
  <2> QED
    BY <1>0, <1>2, <1>3, <2>1, WorkKept
<1> HIDE DEF q, f
<1>5. WorkAt(k, n)'
  <2>1. ChainOf(q, FALSE, Expects(doing[n], k), Owes(doing[k], n, FALSE), n, homenode)
    BY <1>0 DEF WorkChain, WorkAt, q
  <2>2. ChainOf(RemoveAt(q, f), FALSE, Expects(doing[n], k), Owes(doing[k], n, FALSE), n, homenode)
    BY <1>1, <2>1, OtherChainTaken
  <2> QED
    BY <1>0, <1>1, <1>2, <1>3, <2>2 DEF WorkAt
<1>6. \A v \in Worker : Here(v) = n /\ v # w => doing'[v] = doing[v] /\ doing[v].op \notin {"asked", "receive"}
  BY <1>0 DEF Alone
<1>7. ASSUME NEW j \in Node, NEW y \in Node, ~ (j = k /\ y = n) PROVE ReplyAt(j, y)'
  <2>1. chan'[<<j, y>>] = chan[<<j, y>>] /\ ReplyAt(j, y)
    BY <1>0, <1>7, TakenFacts DEF ReplyChain
  <2>2. Owes(doing'[j], y, TRUE) = Owes(doing[j], y, TRUE)
    BY <1>0, <1>2
  <2>3. ASSUME NEW v \in Worker, Here(v) = y
        PROVE  /\ Asks(doing'[v], j) = Asks(doing[v], j)
               /\ Asks(doing[v], j) => doing'[v].task = doing[v].task /\ doing'[v].left = doing[v].left
    <3>1. CASE v # w
      BY <1>0, <3>1
    <3>2. CASE v = w
      <4>1. j # k
        BY <1>7, <2>3, <3>2
      <4>2. ~ Asks(doing[w], j) /\ ~ Asks(doing'[w], j)
        BY <1>0, <4>1 DEF Asks
      <4> QED
        BY <3>2, <4>2 DEF Asks
    <3> QED
      BY <3>1, <3>2
  <2> QED
    BY <1>0, <2>1, <2>2, <2>3, ReplyKept
<1>8. ReplyAt(k, n)'
  <2>1. ChainOf(q, TRUE, DueOf(doing[w].task, doing[w].left), Owes(doing[k], n, TRUE), n, homenode)
    BY <1>0 DEF ReplyChain, ReplyAt, q
  <2>2. \A p \in Lane(q, TRUE) : p >= f
    BY DEF q, f
  <2>3. ChainOf(RemoveAt(q, f), TRUE, Rest(q[f], n, homenode), Owes(doing[k], n, TRUE), n, homenode)
    BY <1>1, <2>1, <2>2, ChainTaken
  <2>4. CASE /\ Asks(doing'[w], k)
             /\ DueOf(doing'[w].task, doing'[w].left) = Rest(Received(k, n, tag), n, homenode)
    <3>1. \A v \in Worker : Here(v) = n /\ Asks(doing'[v], k) => v = w
      BY <1>6 DEF Asks
    <3>2. ChainOf(RemoveAt(q, f), TRUE, DueOf(doing'[w].task, doing'[w].left), Owes(doing'[k], n, TRUE), n, homenode)
      BY <1>0, <1>1, <1>2, <2>3, <2>4
    <3> QED
      BY <1>1, <2>4, <3>1, <3>2 DEF ReplyAt
  <2>5. CASE /\ doing'[w].op \notin {"asked", "receive"}
             /\ Lane(chan'[<<k, n>>], TRUE) = {}
             /\ Rest(Received(k, n, tag), n, homenode) = NoDue
    <3>1. \A v \in Worker : Here(v) = n => ~ Asks(doing'[v], k)
      BY <1>6, <2>5 DEF Asks
    <3>2. Owes(doing[k], n, TRUE) = NoDue
      BY <1>1, <2>3, <2>5 DEF ChainOf
    <3>3. Owes(doing'[k], n, TRUE) = NoDue
      BY <1>0, <1>2, <3>2
    <3> QED
      BY <2>5, <3>1, <3>3 DEF ReplyAt
  <2> QED
    BY <2>4, <2>5
<1> QED
  BY <1>4, <1>5, <1>7, <1>8 DEF WorkChain, ReplyChain

----------------------------------------------------------------------------
(* The message a receive finds is the first of its lane.                   *)

\* The activity and the messages of a thread and a node.
LEMMA InvFacts ==
  ASSUME Inv, NEW s \in Thread, NEW n \in Node
  PROVE  /\ ChanType /\ DoingType /\ chan[<<s, n>>] \in Seq(Letter)
         /\ Busy(doing[s], s) /\ doing[s] \in Activity /\ ActivityOK(doing[s], s, homenode)
         /\ WorkAt(s, n)
         /\ \A p \in DOMAIN chan[<<s, n>>] :
              chan[<<s, n>>][p] \in Letter /\ MessageOK(chan[<<s, n>>][p], s, n, homenode)
<1>1. /\ ChanType /\ DoingType /\ chan[<<s, n>>] \in Seq(Letter)
      /\ Busy(doing[s], s) /\ doing[s] \in Activity
  BY DEF Inv, Types, ChanType, DoingType
<1>2. ActivityOK(doing[s], s, homenode) /\ WorkAt(s, n)
  BY DEF Inv, Traffic, WorkChain, Activities
<1>3. \A p \in DOMAIN chan[<<s, n>>] :
        chan[<<s, n>>][p] \in Letter /\ MessageOK(chan[<<s, n>>][p], s, n, homenode)
  BY <1>1 DEF Inv, Traffic, Messages
<1> QED
  BY <1>1, <1>2, <1>3

LEMMA OneFirst ==
  ASSUME NEW S, NEW q \in Seq(S), NEW L, NEW f \in Lane(q, L), NEW g \in Lane(q, L),
         f <= g, \A k \in Lane(q, L) : k >= g
  PROVE  f = g
<1>1. f >= g /\ f \in 1 .. Len(q) /\ g \in 1 .. Len(q) /\ Len(q) \in Nat
  BY DEF Lane
<1> QED
  BY <1>1

LEMMA LinkNoDue ==
  ASSUME NEW m, Link(NoDue, m) PROVE m.type # "data"
BY DEF Link

\* A server that is idle takes the first message of a thread.
LEMMA FirstWork ==
  ASSUME Inv, NEW n \in Node, NEW s \in Thread, NEW type, Accepts(n, s, type)
  PROVE  /\ First(s, n, MAX_NVPS) \in Lane(chan[<<s, n>>], FALSE)
         /\ \A k \in Lane(chan[<<s, n>>], FALSE) : k >= First(s, n, MAX_NVPS)
         /\ MessageOK(Received(s, n, MAX_NVPS), s, n, homenode)
         /\ Received(s, n, MAX_NVPS) \in Letter
         /\ Expects(doing[n], s) = NoDue
<1> DEFINE q == chan[<<s, n>>]
           f == First(s, n, MAX_NVPS)
<1>1. /\ f # 0 /\ doing[n].op = "idle" /\ q \in Seq(Letter) /\ WorkAt(s, n)
      /\ \A p \in DOMAIN q : q[p] \in Letter /\ MessageOK(q[p], s, n, homenode)
  BY InvFacts DEF Accepts
<1>2. f \in DOMAIN q /\ q[f].tag = MAX_NVPS /\ (\A p \in DOMAIN q : q[p].tag = MAX_NVPS => f <= p)
      /\ q[f] = Received(s, n, MAX_NVPS)
  BY <1>1, FirstFacts DEF Received
<1>3. Expects(doing[n], s) = NoDue
  BY <1>1 DEF Expects
<1>4. ChainOf(q, FALSE, NoDue, Owes(doing[s], n, FALSE), n, homenode)
  BY <1>1, <1>3 DEF WorkAt
<1> HIDE DEF q, f
<1>5. f \in Lane(q, FALSE)
  BY <1>2, Tags DEF Lane
<1>6. PICK g \in Lane(q, FALSE) : (\A k \in Lane(q, FALSE) : k >= g) /\ Link(NoDue, q[g])
  BY <1>1, <1>4, <1>5, LaneFirst
<1>7. g \in DOMAIN q /\ ~ (q[g].tag >= 100) /\ q[g].type # "data"
  BY <1>6, LinkNoDue DEF Lane
<1>8. q[g].tag \in Nat
  BY <1>1, <1>7, Tags DEF Letter, Message
<1>9. q[g].tag = MAX_NVPS
  BY <1>1, <1>7, <1>8 DEF MessageOK
<1>10. f <= g
  BY <1>2, <1>7, <1>9
<1>11. f = g
  BY <1>1, <1>5, <1>6, <1>10, OneFirst
<1> QED
  BY <1>1, <1>2, <1>3, <1>5, <1>6, <1>11 DEF q, f

\* Two threads of a node differ in their tags.
LEMMA SameThread ==
  ASSUME NEW s \in Thread, NEW x \in Thread, Here(s) = Here(x), Tag(s) = Tag(x) PROVE s = x
<1>1. CASE s \in Worker /\ x \in Worker
  BY <1>1, Tags
<1>2. CASE s \in Node /\ x \in Node
  BY <1>2, Threads
<1>3. CASE s \in Worker /\ x \in Node
  BY <1>3, Tags
<1>4. CASE s \in Node /\ x \in Worker
  BY <1>4, Tags
<1> QED
  BY <1>1, <1>2, <1>3, <1>4, Threads

\* A server that waits for data gets the next of them.
LEMMA FirstData ==
  ASSUME Inv, NEW n \in Node, NEW s \in Thread,
         doing[n].op \in {"receive", "collect", "buffer"}, doing[n].left # {}, Matches(n, s)
  PROVE  /\ First(s, n, doing[n].tag) \in Lane(chan[<<s, n>>], FALSE)
         /\ \A k \in Lane(chan[<<s, n>>], FALSE) : k >= First(s, n, doing[n].tag)
         /\ s \in Worker /\ doing[n].tag = Tag(s) /\ doing[n].peer = Here(s) /\ Here(s) # n
         /\ Received(s, n, doing[n].tag).type = "data"
         /\ Received(s, n, doing[n].tag).task = doing[n].task
         /\ Received(s, n, doing[n].tag).i = NextArg(n)
         /\ Receive(s, n, doing[n].tag)
         /\ Received(s, n, doing[n].tag) \in Letter
<1> DEFINE q == chan[<<s, n>>]
           d == doing[n]
           f == First(s, n, d.tag)
<1>0. n \in Thread /\ Here(n) = n /\ n \notin Worker
  BY Threads
<1>1. /\ q \in Seq(Letter) /\ WorkAt(s, n)
      /\ \A p \in DOMAIN q : q[p] \in Letter /\ MessageOK(q[p], s, n, homenode)
      /\ Busy(d, n) /\ d \in Activity /\ ActivityOK(d, n, homenode)
  BY <1>0, InvFacts
<1>2. Here(s) = d.peer /\ f # 0 /\ Receive(s, n, d.tag)
  BY <1>0 DEF Matches, Receive
<1>3. f \in DOMAIN q /\ q[f].tag = d.tag /\ (\A p \in DOMAIN q : q[p].tag = d.tag => f <= p)
      /\ q[f] = Received(s, n, d.tag)
  BY <1>1, <1>2, FirstFacts DEF Received
<1>4. d.tag \in Nat /\ d.tag < MAX_NVPS /\ d.tag < 100 /\ ~ (d.tag >= 100)
  <2>1. d.tag \in Nat /\ d.tag <= MAX_NVPS
    BY <1>0, <1>1 DEF Busy, Activity
  <2>2. d.tag # MAX_NVPS
    BY <1>0, <1>1, Tags DEF ActivityOK
  <2> QED
    BY <2>1, <2>2, Tags
<1>5. MessageOK(q[f], s, n, homenode) /\ q[f].tag < 100 /\ q[f].tag # MAX_NVPS
  BY <1>1, <1>3, <1>4, Tags
<1>6. s \in Worker /\ d.tag = Tag(s)
  BY <1>3, <1>5 DEF MessageOK
<1>7. Expects(d, s) = DueOf(d.task, d.left)
  BY <1>2, <1>6 DEF Expects
<1>8. ChainOf(q, FALSE, DueOf(d.task, d.left), Owes(doing[s], n, FALSE), n, homenode)
  BY <1>1, <1>7 DEF WorkAt
<1>9. DueOf(d.task, d.left) = [task |-> d.task, left |-> d.left] /\ DueOf(d.task, d.left) # NoDue
  BY DEF DueOf, NoDue
<1>10. Here(s) # n
  BY <1>0, <1>1, <1>2 DEF ActivityOK
<1> HIDE DEF q, f, d
<1>11. f \in Lane(q, FALSE)
  BY <1>3, <1>4 DEF Lane
<1>12. PICK g \in Lane(q, FALSE) : (\A k \in Lane(q, FALSE) : k >= g) /\ Link(DueOf(d.task, d.left), q[g])
  BY <1>1, <1>8, <1>11, LaneFirst
<1>13. g \in DOMAIN q /\ ~ (q[g].tag >= 100) /\ q[g].type = "data" /\ q[g].task = d.task /\ q[g].i = Min(d.left)
  BY <1>9, <1>12 DEF Lane, Link
<1>14. q[g].tag \in Nat
  BY <1>1, <1>13, Tags DEF Letter, Message
<1>15. q[g].tag = d.tag
  BY <1>1, <1>6, <1>13, <1>14 DEF MessageOK
<1>16. f <= g
  BY <1>3, <1>13, <1>15
<1>17. f = g
  BY <1>1, <1>11, <1>12, <1>16, OneFirst
<1>18. NextArg(n) = Min(d.left)
  BY DEF NextArg, d
<1> QED
  BY <1>1, <1>2, <1>3, <1>6, <1>10, <1>11, <1>12, <1>13, <1>17, <1>18 DEF q, f, d

\* A worker that asked a server gets the first of its replies.
LEMMA FirstReply ==
  ASSUME Inv, NEW w \in Worker, NEW k \in Node, Asks(doing[w], k), Receive(k, Here(w), ReplyTag(w))
  PROVE  LET n == Here(w)
             f == First(k, n, ReplyTag(w))
         IN  /\ f \in Lane(chan[<<k, n>>], TRUE)
             /\ \A p \in Lane(chan[<<k, n>>], TRUE) : p >= f
             /\ Link(DueOf(doing[w].task, doing[w].left), Received(k, n, ReplyTag(w)))
             /\ MessageOK(Received(k, n, ReplyTag(w)), k, n, homenode)
             /\ Received(k, n, ReplyTag(w)) \in Letter
<1> DEFINE n == Here(w)
           q == chan[<<k, n>>]
           f == First(k, n, ReplyTag(w))
<1>0. n \in Node /\ w \in Thread /\ k \in Thread /\ f # 0 /\ ReplyTag(w) >= 100
  BY Threads, Tags DEF Receive
<1>1. /\ q \in Seq(Letter) /\ \A p \in DOMAIN q : q[p] \in Letter /\ MessageOK(q[p], k, n, homenode)
  BY <1>0, InvFacts
<1>2. f \in DOMAIN q /\ q[f].tag = ReplyTag(w) /\ (\A p \in DOMAIN q : q[p].tag = ReplyTag(w) => f <= p)
      /\ q[f] = Received(k, n, ReplyTag(w))
  BY <1>0, <1>1, FirstFacts DEF Received
<1>3. ChainOf(q, TRUE, DueOf(doing[w].task, doing[w].left), Owes(doing[k], n, TRUE), n, homenode)
  BY <1>0 DEF Inv, Traffic, ReplyChain, ReplyAt
<1>4. \A p \in Lane(q, TRUE) : q[p].tag = ReplyTag(w)
  <2>1. ASSUME NEW p \in Lane(q, TRUE) PROVE q[p].tag = ReplyTag(w)
    <3>0. Reply(q[p], k, n)
      <4>1. Asked
        BY DEF Inv, Traffic, Asking
      <4> QED
        BY <1>0, <2>1, <4>1 DEF Asked
    <3>1. PICK v \in Worker : Here(v) = n /\ Asks(doing[v], k) /\ q[p].tag = ReplyTag(v)
      BY <3>0 DEF Reply
    <3>2. v = w
      BY <3>1 DEF Inv, Traffic, Asking, Alone, Asks
    <3> QED
      BY <3>1, <3>2
  <2> QED
    BY <2>1
<1> HIDE DEF q, f, n
<1>5. f \in Lane(q, TRUE)
  BY <1>0, <1>2 DEF Lane
<1>6. PICK g \in Lane(q, TRUE) : (\A p \in Lane(q, TRUE) : p >= g) /\ Link(DueOf(doing[w].task, doing[w].left), q[g])
  BY <1>1, <1>3, <1>5, LaneFirst
<1>7. f <= g
  BY <1>2, <1>4, <1>6 DEF Lane
<1>8. f = g
  BY <1>1, <1>5, <1>6, <1>7, OneFirst
<1> QED
  BY <1>1, <1>2, <1>5, <1>6, <1>8 DEF q, f, n

----------------------------------------------------------------------------
(* The chains, action by action.                                           *)

LEMMA DoFacts ==
  ASSUME DoingType, NEW s \in Thread, NEW d, Do(s, d)
  PROVE  doing'[s] = d /\ \A x \in Thread : x # s => doing'[x] = doing[x]
BY DEF DoingType, Do

LEMMA ActIs ==
  ASSUME NEW op, NEW t, NEW A, NEW n, NEW g, NEW u
  PROVE  /\ Act(op, t, A, n, g, u).op = op /\ Act(op, t, A, n, g, u).task = t
         /\ Act(op, t, A, n, g, u).left = A /\ Act(op, t, A, n, g, u).peer = n
         /\ Act(op, t, A, n, g, u).tag = g /\ Act(op, t, A, n, g, u).inside = u
BY DEF Act

LEMMA IdleRun ==
  /\ Idle.op = "idle" /\ Idle.task = NULL /\ Idle.left = {} /\ Idle.inside = NULL
  /\ \A t : Run(t).op = "run" /\ Run(t).task = t /\ Run(t).left = {} /\ Run(t).inside = NULL
  /\ Settled(Idle) /\ \A t : Settled(Run(t))
<1>1. /\ Idle.op = "idle" /\ Idle.task = NULL /\ Idle.left = {} /\ Idle.inside = NULL
      /\ \A t : Run(t).op = "run" /\ Run(t).task = t /\ Run(t).left = {} /\ Run(t).inside = NULL
  BY DEF Idle, Run, Act
<1> QED
  BY <1>1 DEF Settled

LEMMA SettleFacts ==
  ASSUME NEW op \in {"send", "result"}, NEW t, NEW A, NEW n, NEW g, NEW u
  PROVE  LET e == Settle(Act(op, t, A, n, g, u))
         IN  /\ \A y, L : Owes(e, y, L) = IF n = y /\ (g >= 100) = L THEN DueOf(t, A) ELSE NoDue
             /\ e.op \in {op, "idle", "run"}
             /\ A = {} => e = IF u = NULL THEN Idle ELSE Run(u)
             /\ A # {} => e = Act(op, t, A, n, g, u)
<1> DEFINE d == Act(op, t, A, n, g, u)
           e == Settle(d)
<1>1. d.op = op /\ d.task = t /\ d.left = A /\ d.peer = n /\ d.tag = g /\ d.inside = u
  BY ActIs
<1>2. /\ A = {} => e = IF u = NULL THEN Idle ELSE Run(u)
      /\ A # {} => e = d
  BY <1>1 DEF Settle
<1> HIDE DEF d, e
<1>3. CASE A = {}
  <2>1. Settled(e) /\ e.op \in {"idle", "run"}
    BY <1>2, <1>3, IdleRun
  <2>2. DueOf(t, A) = NoDue
    BY <1>3 DEF DueOf
  <2>3. \A y, L : Owes(e, y, L) = NoDue
    BY <2>1, SettledFacts
  <2> QED
    BY <1>2, <1>3, <2>1, <2>2, <2>3 DEF d, e
<1>4. CASE A # {}
  <2>1. \A y, L : Owes(e, y, L) = IF n = y /\ (g >= 100) = L THEN DueOf(t, A) ELSE NoDue
    BY <1>1, <1>2, <1>4 DEF Owes
  <2> QED
    BY <1>1, <1>2, <1>4, <2>1 DEF d, e
<1> QED
  BY <1>3, <1>4

\* The next argument or result of a task goes to the node that waits for it.
LEMMA DataChains ==
  ASSUME Inv, NEW s \in Thread, doing[s].op \in {"send", "result"}, NEW v,
         Send(s, doing[s].peer, Data(doing[s].tag, doing[s].task, NextArg(s), v)),
         Do(s, Settle(OneLess(s))), homenode' = homenode
  PROVE  WorkChain' /\ ReplyChain'
<1> DEFINE d == doing[s]
           i == NextArg(s)
           n == d.peer
           m == Data(d.tag, d.task, i, v)
           e == Settle(OneLess(s))
<1>0. Here(s) \in Node
  BY Threads
<1>1. ChanType /\ DoingType /\ Busy(d, s) /\ d \in Activity /\ ActivityOK(d, s, homenode)
  BY <1>0, InvFacts
<1>2. d.left # {} /\ d.task \in Task /\ n \in Node /\ homenode[d.task] # NULL
  <2>1. d.left # {} /\ d.task \in Task
    BY <1>1 DEF Busy
  <2>2. homenode[d.task] # NULL
    BY <1>1, <2>1, DistinctAssumption DEF ActivityOK
  <2>3. d.op = "send" => n \in Node
    BY <1>1 DEF Busy
  <2>4. d.op = "result" => n \in Node
    BY <1>1, <2>1, <2>2 DEF ActivityOK, Inv, Types, TaskType
  <2> QED
    BY <2>1, <2>2, <2>3, <2>4
<1>3. i = Min(d.left) /\ i \in Nat
      /\ d.left \ {i} = Above(IF d.op = "send" THEN SentArgs(d.task) ELSE SentResults(d.task), i)
  BY <1>1, <1>2, NextArgFacts DEF NextArg
<1>4. Cargo(d.task, n, homenode) = IF d.op = "send" THEN SentArgs(d.task) ELSE SentResults(d.task)
  BY <1>1 DEF Cargo, ActivityOK
<1>5. m.tag = d.tag /\ m.type = "data" /\ m.task = d.task /\ m.i = i
  BY Fields
<1>6. Rest(m, n, homenode) = DueOf(d.task, d.left \ {i})
  BY <1>2, <1>3, <1>4, <1>5, DistinctAssumption DEF Rest
<1>7. /\ \A y, L : Owes(e, y, L) = IF n = y /\ (d.tag >= 100) = L THEN DueOf(d.task, d.left \ {i}) ELSE NoDue
      /\ e.op \in {d.op, "idle", "run"}
  <2>1. OneLess(s) = Act(d.op, d.task, d.left \ {i}, d.peer, d.tag, d.inside)
    BY <1>1, OneLessFields
  <2> QED
    BY <2>1, SettleFacts
<1>8. \A y, L : Owes(d, y, L) = IF n = y /\ (d.tag >= 100) = L THEN DueOf(d.task, d.left) ELSE NoDue
  BY DEF Owes
<1>9. Link(DueOf(d.task, d.left), m)
  <2>1. DueOf(d.task, d.left) = [task |-> d.task, left |-> d.left] /\ DueOf(d.task, d.left) # NoDue
    BY <1>2 DEF DueOf, NoDue
  <2> QED
    BY <1>3, <1>5, <2>1 DEF Link
<1>10. Send(s, n, m) /\ doing'[s] = e /\ \A x \in Thread : x # s => doing'[x] = doing[x]
  BY <1>1, DoFacts
<1>11. d.op \in {"send", "result"}
  OBVIOUS
<1> HIDE DEF m, e, n, i, d
<1>12. Sends(d, e, m, n, homenode)
  BY <1>5, <1>6, <1>7, <1>8, <1>9, <1>11 DEF Sends
<1>13. Types /\ Messages /\ WorkChain /\ ReplyChain /\ HomeKept(homenode, homenode')
  BY SameHome DEF Inv, Traffic
<1>14. Sends(doing[s], doing'[s], m, n, homenode') /\ doing'[s].op # "asked" /\ m.type = "data"
  <2>1. d = doing[s]
    BY DEF d
  <2> QED
    BY <1>5, <1>7, <1>10, <1>11, <1>12, <2>1
<1>15. WorkChain'
  BY <1>2, <1>10, <1>13, <1>14, SendWork
<1>16. ReplyChain'
  BY <1>2, <1>10, <1>13, <1>14, SendReply
<1> QED
  BY <1>15, <1>16

LEMMA SendArgumentChains == ASSUME Inv, NEW s \in Thread, SendArgument(s) PROVE WorkChain' /\ ReplyChain'
<1>1. PICK v : Send(s, doing[s].peer, Data(doing[s].tag, doing[s].task, NextArg(s), v))
  BY DEF SendArgument
<1>2. doing[s].op = "send" /\ Do(s, Settle(OneLess(s))) /\ homenode' = homenode
  BY DEF SendArgument, tasks
<1> QED
  BY <1>1, <1>2, DataChains

LEMMA SendResultChains == ASSUME Inv, NEW s \in Thread, SendResult(s) PROVE WorkChain' /\ ReplyChain'
<1>1. PICK v : Send(s, doing[s].peer, Data(doing[s].tag, doing[s].task, NextArg(s), v))
  BY DEF SendResult
<1>2. doing[s].op = "result" /\ Do(s, Settle(OneLess(s))) /\ homenode' = homenode
  BY DEF SendResult, tasks
<1> QED
  BY <1>1, <1>2, DataChains

\* A thread that does nothing else sends the descriptor of a task.
LEMMA DescriptorChains ==
  ASSUME Inv, NEW s \in Thread, doing[s].op \in {"idle", "run"},
         NEW type \in {"TORC_NORMAL_ENQUEUE", "TORC_ANSWER"}, NEW op \in {"send", "result"},
         NEW t \in Task, NEW A, NEW n \in Node, NEW u,
         A = IF type = "TORC_ANSWER" THEN SentResults(t) ELSE SentArgs(t),
         Send(s, n, Descriptor(MAX_NVPS, type, t)),
         Do(s, Settle(Act(op, t, A, n, Tag(s), u))), HomeKept(homenode, homenode')
  PROVE  WorkChain' /\ ReplyChain'
<1> DEFINE m == Descriptor(MAX_NVPS, type, t)
           e == Settle(Act(op, t, A, n, Tag(s), u))
           d == doing[s]
<1>1. ~ (m.tag >= 100) /\ m.tag = MAX_NVPS /\ m.type = type /\ m.task = t
  BY Fields, Tags
<1>2. Rest(m, n, homenode') = DueOf(t, A)
  BY <1>1 DEF Rest
<1>3. /\ \A y, L : Owes(e, y, L) = IF n = y /\ (Tag(s) >= 100) = L THEN DueOf(t, A) ELSE NoDue
      /\ e.op \in {op, "idle", "run"}
  BY SettleFacts
<1>4. (Tag(s) >= 100) = FALSE
  BY Tags
<1>5. \A y, L : Owes(d, y, L) = NoDue
  BY SettledFacts DEF Settled
<1>6. doing'[s] = e /\ (\A x \in Thread : x # s => doing'[x] = doing[x]) /\ Send(s, n, m)
  BY DoFacts DEF Inv, Types
<1>7. d.op \in {"idle", "run"} /\ d = doing[s]
  OBVIOUS
<1> HIDE DEF m, e, d
<1>8. Link(NoDue, m)
  BY <1>1 DEF Link
<1>9. Sends(d, e, m, n, homenode')
  <2>1. (m.tag >= 100) = FALSE
    BY <1>1
  <2> QED
    BY <1>2, <1>3, <1>4, <1>5, <1>7, <1>8, <2>1 DEF Sends
<1>10. Types /\ Messages /\ WorkChain /\ ReplyChain
  BY DEF Inv, Traffic
<1>11. Sends(doing[s], doing'[s], m, n, homenode') /\ doing'[s].op # "asked"
  BY <1>3, <1>6, <1>7, <1>9
<1>12. WorkChain'
  BY <1>6, <1>10, <1>11, SendWork
<1>13. ReplyChain'
  BY <1>1, <1>6, <1>10, <1>11, SendReply
<1> QED
  BY <1>12, <1>13

\* Creation gives a task its home.
LEMMA CreateHome ==
  ASSUME Types, NEW s \in Thread, NEW t \in Task, Create(s, t)
  PROVE  /\ HomeKept(homenode, homenode') /\ homenode[t] = NULL
         /\ homenode'[t] = Here(s) /\ Here(s) \in Node /\ Here(s) # NULL
         /\ \A u \in Task : u # t => homenode'[u] = homenode[u]
         /\ target[t] \in Node
<1>1. /\ homenode[t] = NULL /\ homenode'[t] = Here(s)
      /\ \A u \in Task : u # t => homenode'[u] = homenode[u]
  BY DEF Create, Types, TaskType
<1>2. Here(s) \in Node /\ Here(s) # NULL /\ target[t] \in Node
  BY Threads, TasksAssumption, DistinctAssumption
<1> QED
  BY <1>1, <1>2 DEF HomeKept

LEMMA CallerIs ==
  ASSUME Types, NEW s \in Thread, NEW t \in Task, Create(s, t)
  PROVE  /\ doing[s].op \in {"idle", "run"} /\ doing[s].inside = NULL /\ doing[s].left = {}
         /\ doing[s].op = "idle" => doing[s].task = NULL
         /\ doing[s].op = "run" => doing[s].task \in Task /\ creator[t] = doing[s].task
         /\ s \in Node => doing[s].op = "run"
<1>1. \/ doing[s].op = "run" /\ creator[t] = doing[s].task
      \/ doing[s].op = "idle" /\ creator[t] = s
  BY DEF Create, CallsFor
<1>2. Busy(doing[s], s) /\ doing[s] \in Activity
  BY DEF Types, DoingType
<1>3. creator[t] \in Worker \cup Task
  BY TasksAssumption
<1>4. s \in Node => s \notin Worker \cup Task
  BY DistinctAssumption
<1> QED
  BY <1>1, <1>2, <1>3, <1>4 DEF Busy, Activity

LEMMA CreateChains ==
  ASSUME Inv, NEW s \in Thread, NEW t \in Task, Create(s, t) PROVE WorkChain' /\ ReplyChain'
<1>1. Types /\ Messages /\ WorkChain /\ ReplyChain
  BY DEF Inv, Traffic
<1>2. HomeKept(homenode, homenode') /\ target[t] \in Node /\ doing[s].op \in {"idle", "run"}
  BY <1>1, CreateHome, CallerIs
<1>3. CASE target[t] = Here(s)
  <2>1. chan' = chan /\ doing' = doing
    BY <1>3 DEF Create
  <2> QED
    BY <1>1, <1>2, <2>1, GoOnChains
<1>4. CASE target[t] # Here(s)
  <2>1. /\ Send(s, target[t], Descriptor(MAX_NVPS, "TORC_NORMAL_ENQUEUE", t))
        /\ Do(s, Settle(Act("send", t, SentArgs(t), target[t], Tag(s), doing[s].task)))
    BY <1>4 DEF Create
  <2> QED
    BY <1>2, <2>1, DescriptorChains
<1> QED
  BY <1>3, <1>4

\* What a task that runs away from home needs.
LEMMA AwayFacts ==
  ASSUME Inv, NEW s \in Thread, FinishAway(s)
  PROVE  /\ doing[s].task \in Task /\ homenode[doing[s].task] \in Node
         /\ homenode[doing[s].task] # Here(s) /\ doing[s].op = "run"
         /\ doing[s].inside = NULL
<1>0. Here(s) \in Node
  BY Threads
<1>1. Busy(doing[s], s) /\ ActivityOK(doing[s], s, homenode) /\ doing[s].op = "run"
      /\ homenode[doing[s].task] # Here(s) /\ doing[s] \in Activity
  BY <1>0, InvFacts DEF FinishAway
<1>2. doing[s].task \in Task
  BY <1>1 DEF Busy
<1>3. homenode[doing[s].task] \in Node
  BY <1>1, <1>2, DistinctAssumption DEF ActivityOK, Inv, Types, TaskType
<1> QED
  BY <1>1, <1>2, <1>3 DEF Busy

LEMMA FinishAwayChains == ASSUME Inv, NEW s \in Thread, FinishAway(s) PROVE WorkChain' /\ ReplyChain'
<1> DEFINE t == doing[s].task
<1>1. t \in Task /\ homenode[t] \in Node /\ doing[s].op = "run"
  BY AwayFacts
<1>2. /\ Send(s, homenode[t], Descriptor(MAX_NVPS, "TORC_ANSWER", t))
      /\ Do(s, Settle(Act("result", t, SentResults(t), homenode[t], Tag(s), NULL)))
      /\ homenode' = homenode
  BY DEF FinishAway, tasks
<1> HIDE DEF t
<1>3. HomeKept(homenode, homenode')
  BY <1>2, SameHome
<1>4. doing[s].op \in {"idle", "run"}
  BY <1>1
<1>5. PICK n \in Node : n = homenode[t]
  BY <1>1
<1> QED
  BY <1>1, <1>2, <1>3, <1>4, <1>5, DescriptorChains

\* A thread goes on from where it owed and awaited nothing.
LEMMA QuietChains ==
  ASSUME Inv, NEW s \in Thread, chan' = chan, homenode' = homenode,
         \A x \in Thread : x # s => doing'[x] = doing[x],
         \A x \in Thread : Expects(doing[s], x) = NoDue,
         \A y \in Node, L \in BOOLEAN : Owes(doing[s], y, L) = NoDue,
         s \in Worker => \A k \in Node : Asks(doing[s], k) = FALSE,
         Settled(doing'[s])
  PROVE  WorkChain' /\ ReplyChain'
<1>1. /\ \A x \in Thread : Expects(doing'[s], x) = Expects(doing[s], x)
      /\ \A y \in Node, L \in BOOLEAN : Owes(doing'[s], y, L) = Owes(doing[s], y, L)
      /\ s \in Worker => \A k \in Node : Asks(doing'[s], k) = FALSE
  BY SettledFacts
<1>2. Types /\ Messages /\ WorkChain /\ ReplyChain /\ HomeKept(homenode, homenode')
  BY SameHome DEF Inv, Traffic
<1> QED
  BY <1>1, <1>2, GoOnChains

LEMMA SettledChains ==
  ASSUME Inv, NEW s \in Thread, chan' = chan, homenode' = homenode,
         NEW d, Do(s, d), Settled(doing[s]), Settled(d)
  PROVE  WorkChain' /\ ReplyChain'
<1>1. doing'[s] = d /\ \A x \in Thread : x # s => doing'[x] = doing[x]
  BY DoFacts DEF Inv, Types
<1>2. /\ \A x \in Thread : Expects(doing[s], x) = NoDue
      /\ \A y \in Node, L \in BOOLEAN : Owes(doing[s], y, L) = NoDue
      /\ \A k \in Node : Asks(doing[s], k) = FALSE
  BY SettledFacts
<1> QED
  BY <1>1, <1>2, QuietChains

LEMMA TakeReadyChains ==
  ASSUME Inv, NEW w \in Worker, NEW t \in Task, TakeReady(w, t) PROVE WorkChain' /\ ReplyChain'
<1>1. chan' = chan /\ homenode' = homenode /\ Do(w, Run(t)) /\ Settled(doing[w]) /\ Settled(Run(t))
  BY IdleRun DEF TakeReady, Settled
<1> QED
  BY <1>1, Threads, SettledChains

LEMMA FinishAtHomeChains ==
  ASSUME Inv, NEW s \in Thread, FinishAtHome(s) PROVE WorkChain' /\ ReplyChain'
<1>1. chan' = chan /\ homenode' = homenode /\ Do(s, Idle) /\ Settled(doing[s]) /\ Settled(Idle)
  BY IdleRun DEF FinishAtHome, Settled
<1> QED
  BY <1>1, SettledChains

LEMMA GiveUpChains == ASSUME Inv, NEW w \in Worker, GiveUp(w) PROVE WorkChain' /\ ReplyChain'
<1>1. chan' = chan /\ homenode' = homenode /\ Do(w, Idle) /\ Settled(doing[w]) /\ Settled(Idle)
  BY IdleRun DEF GiveUp, Settled, tasks
<1> QED
  BY <1>1, Threads, SettledChains

LEMMA ToldChains == ASSUME Inv, NEW w \in Worker, Told(w) PROVE WorkChain' /\ ReplyChain'
<1> DEFINE d == IF told' = Others(w) THEN Idle ELSE Act("telling", NULL, {}, NULL, 0, NULL)
<1>1. chan' = chan /\ homenode' = homenode /\ Do(w, d) /\ Settled(doing[w])
  BY DEF Told, SsendDone, Settled, tasks
<1>2. Settled(d)
  BY IdleRun, ActIs DEF Settled
<1> HIDE DEF d
<1> QED
  BY <1>1, <1>2, Threads, SettledChains

LEMMA BufferArrivesChains == ASSUME Inv, NEW n \in Node, BufferArrives(n) PROVE WorkChain' /\ ReplyChain'
<1>1. chan' = chan /\ homenode' = homenode /\ Do(n, Idle) /\ Settled(doing[n]) /\ Settled(Idle)
  BY IdleRun DEF BufferArrives, Settled, tasks
<1> QED
  BY <1>1, Threads, SettledChains

LEMMA EnterToReceiveChains ==
  ASSUME Inv, NEW s \in Thread, EnterToReceive(s) PROVE WorkChain' /\ ReplyChain'
<1>1. chan' = chan /\ homenode' = homenode /\ doing' = doing
  BY DEF EnterToReceive, tasks
<1>2. Types /\ Messages /\ WorkChain /\ ReplyChain /\ HomeKept(homenode, homenode')
  BY <1>1, SameHome DEF Inv, Traffic
<1> QED
  BY <1>1, <1>2, GoOnChains

\* A server that has all it waited for.
LEMMA HasAllChains ==
  ASSUME Inv, NEW n \in Node, doing[n].op \in {"receive", "collect"}, doing[n].left = {},
         chan' = chan, homenode' = homenode, NEW d, Do(n, d), Settled(d)
  PROVE  WorkChain' /\ ReplyChain'
<1>0. n \in Thread /\ n \notin Worker
  BY Threads
<1>1. doing'[n] = d /\ \A x \in Thread : x # n => doing'[x] = doing[x]
  BY <1>0, DoFacts DEF Inv, Types
<1>2. /\ \A x \in Thread : Expects(doing[n], x) = NoDue
      /\ \A y \in Node, L \in BOOLEAN : Owes(doing[n], y, L) = NoDue
  BY DEF Expects, Owes, DueOf
<1> QED
  BY <1>0, <1>1, <1>2, QuietChains

LEMMA HaveResultsChains == ASSUME Inv, NEW n \in Node, HaveResults(n) PROVE WorkChain' /\ ReplyChain'
<1>1. /\ chan' = chan /\ homenode' = homenode /\ Do(n, Idle) /\ Settled(Idle)
      /\ doing[n].op \in {"receive", "collect"} /\ doing[n].left = {}
  BY IdleRun DEF HaveResults
<1> QED
  BY <1>1, HasAllChains

\* A worker that waits for no more replies: the server has none for it.
LEMMA NoReplyLeft ==
  ASSUME Inv, NEW w \in Worker, NEW k \in Node, doing[w].op = "receive", doing[w].peer = k, doing[w].left = {}
  PROVE  Lane(chan[<<k, Here(w)>>], TRUE) = {} /\ Owes(doing[k], Here(w), TRUE) = NoDue
<1> DEFINE n == Here(w)
           q == chan[<<k, n>>]
<1>1. n \in Node /\ k \in Thread /\ DueOf(doing[w].task, doing[w].left) = NoDue /\ Asks(doing[w], k)
  BY Threads DEF DueOf, Asks
<1>2. ChainOf(q, TRUE, NoDue, Owes(doing[k], n, TRUE), n, homenode)
  BY <1>1 DEF Inv, Traffic, ReplyChain, ReplyAt
<1>3. Lane(q, TRUE) = {}
  <2>1. SUFFICES ASSUME Lane(q, TRUE) # {} PROVE FALSE
    OBVIOUS
  <2>2. q \in Seq(Letter)
    BY <1>1, InvFacts
  <2>3. PICK f \in Lane(q, TRUE) : Link(NoDue, q[f])
    <3> HIDE DEF q, n
    <3> QED
      BY <1>2, <2>1, <2>2, LaneFirst
  <2>4. Reply(q[f], k, n) /\ q[f].type # "data"
    <3>1. Asked
      BY DEF Inv, Traffic, Asking
    <3> QED
      BY <1>1, <2>3, <3>1, LinkNoDue DEF Asked
  <2>5. PICK v \in Worker : Here(v) = n /\ doing[v].op = "asked"
    BY <2>4 DEF Reply
  <2> QED
    BY <2>5 DEF Inv, Traffic, Asking, Alone
<1>4. Owes(doing[k], n, TRUE) = NoDue
  BY <1>2, <1>3 DEF ChainOf
<1> QED
  BY <1>3, <1>4

LEMMA HaveArgumentsChains == ASSUME Inv, NEW s \in Thread, HaveArguments(s) PROVE WorkChain' /\ ReplyChain'
<1>0. doing[s].op = "receive" /\ doing[s].left = {} /\ chan' = chan /\ homenode' = homenode
  BY DEF HaveArguments
<1>1. PICK d : Do(s, d) /\ Settled(d)
  BY IdleRun DEF HaveArguments
<1>2. CASE s \in Node
  BY <1>0, <1>1, <1>2, HasAllChains
<1>3. CASE s \in Worker
  <2>1. doing'[s] = d /\ \A x \in Thread : x # s => doing'[x] = doing[x]
    BY <1>1, DoFacts DEF Inv, Types
  <2>2. Types /\ Messages /\ WorkChain /\ ReplyChain /\ HomeKept(homenode, homenode')
    BY <1>0, SameHome DEF Inv, Traffic
  <2>3. /\ \A x : Expects(doing[s], x) = NoDue /\ Expects(doing'[s], x) = NoDue
        /\ \A y, L : Owes(doing[s], y, L) = NoDue /\ Owes(doing'[s], y, L) = NoDue
        /\ \A k : Asks(doing'[s], k) = FALSE
    <3>1. /\ \A x : Expects(doing'[s], x) = NoDue
          /\ \A y, L : Owes(doing'[s], y, L) = NoDue
          /\ \A k : Asks(doing'[s], k) = FALSE
      BY <1>1, <2>1, SettledFacts
    <3> QED
      BY <1>0, <3>1 DEF Expects, Owes, DueOf
  <2>4. \A x \in Thread, y \in Node, L \in BOOLEAN :
          Expects(doing'[x], y) = Expects(doing[x], y) /\ Owes(doing'[x], y, L) = Owes(doing[x], y, L)
    BY <2>1, <2>3
  <2>5. s \notin Node /\ Here(s) \in Node /\ Node \subseteq Thread /\ Worker \subseteq Thread
    BY <1>3, Threads
  <2>6. WorkChain'
    <3>1. ASSUME NEW x \in Thread, NEW y \in Node PROVE WorkAt(x, y)'
      <4>1. WorkAt(x, y) /\ doing'[y] = doing[y]
        BY <2>1, <2>2, <2>5 DEF WorkChain
      <4> QED
        BY <1>0, <2>2, <2>4, <4>1, WorkKept
    <3> QED
      BY <3>1 DEF WorkChain
  <2>7. PICK p \in Node : doing[s].peer = p
    BY <1>0, <2>5, InvFacts DEF Busy
  <2>8. ASSUME NEW k \in Node, NEW y \in Node, ~ (k = p /\ y = Here(s)) PROVE ReplyAt(k, y)'
    <3>1. ReplyAt(k, y) /\ doing'[k] = doing[k]
      BY <2>1, <2>2, <2>5 DEF ReplyChain
    <3>2. ASSUME NEW w \in Worker, Here(w) = y
          PROVE  /\ Asks(doing'[w], k) = Asks(doing[w], k)
                 /\ Asks(doing[w], k) => doing'[w].task = doing[w].task /\ doing'[w].left = doing[w].left
      <4>1. CASE w # s
        BY <2>1, <2>5, <4>1
      <4>2. CASE w = s
        <5>1. Asks(doing[s], k) = FALSE
          BY <2>7, <2>8, <3>2, <4>2 DEF Asks
        <5> QED
          BY <2>3, <4>2, <5>1
      <4> QED
        BY <4>1, <4>2
    <3> QED
      BY <1>0, <2>2, <3>1, <3>2, ReplyKept
  <2>9. ReplyAt(p, Here(s))'
    <3>1. Lane(chan[<<p, Here(s)>>], TRUE) = {} /\ Owes(doing[p], Here(s), TRUE) = NoDue
      BY <1>0, <1>3, <2>7, NoReplyLeft
    <3>2. \A w \in Worker : Here(w) = Here(s) => ~ Asks(doing'[w], p)
      <4>1. \A w \in Worker : Here(w) = Here(s) /\ w # s => doing[w].op \notin {"asked", "receive"}
        BY <1>0, <1>3 DEF Inv, Traffic, Asking, Alone
      <4>2. \A w \in Worker : w # s => doing'[w] = doing[w]
        BY <2>1, <2>5
      <4> QED
        BY <2>3, <4>1, <4>2 DEF Asks
    <3>3. doing'[p] = doing[p]
      BY <2>1, <2>5
    <3> QED
      BY <1>0, <3>1, <3>2, <3>3 DEF ReplyAt
  <2> QED
    BY <2>6, <2>8, <2>9 DEF ReplyChain
<1> QED
  BY <1>2, <1>3, Threads

LEMMA BroadcastChains == ASSUME Inv, NEW w \in Worker, Broadcast(w) PROVE WorkChain' /\ ReplyChain'
<1> DEFINE n == Min(Others(w) \ told)
           m == Descriptor(MAX_NVPS, "TORC_BCAST", NULL)
           e == Act("bcast", NULL, {}, n, Tag(w), NULL)
           d == doing[w]
<1>1. d.op \in {"telling", "idle"} /\ Send(w, n, m) /\ Do(w, e) /\ homenode' = homenode
  BY DEF Broadcast, tasks
<1>2. n \in Node /\ w \in Thread
  BY NextToTell, Threads DEF Broadcast
<1>3. doing'[w] = e /\ \A x \in Thread : x # w => doing'[x] = doing[x]
  BY <1>1, <1>2, DoFacts DEF Inv, Types
<1>4. (m.tag >= 100) = FALSE /\ m.type = "TORC_BCAST"
  BY Fields, Tags
<1>5. e.op = "bcast" /\ e.peer = n
  BY ActIs
<1>6. Types /\ Messages /\ WorkChain /\ ReplyChain /\ HomeKept(homenode, homenode')
  BY <1>1, SameHome DEF Inv, Traffic
<1>7. \A y, L : Owes(d, y, L) = NoDue
  BY <1>1, SettledFacts DEF Settled
<1>8. d = doing[w]
  OBVIOUS
<1> HIDE DEF n, m, e, d
<1>9. Rest(m, n, homenode') = DueOf(NULL, {0}) /\ Link(NoDue, m)
  BY <1>4 DEF Rest, Link
<1>10. \A y, L : Owes(e, y, L) = IF y = n /\ ~L THEN DueOf(NULL, {0}) ELSE NoDue
  BY <1>5 DEF Owes
<1>11. Sends(d, e, m, n, homenode')
  BY <1>1, <1>4, <1>5, <1>7, <1>9, <1>10 DEF Sends
<1>12. Sends(doing[w], doing'[w], m, n, homenode') /\ doing'[w].op # "asked"
  BY <1>3, <1>5, <1>8, <1>11
<1>13. WorkChain'
  BY <1>1, <1>2, <1>3, <1>6, <1>12, SendWork
<1>14. ReplyChain'
  BY <1>1, <1>2, <1>3, <1>4, <1>6, <1>12, SendReply
<1> QED
  BY <1>13, <1>14

LEMMA SsendChains == ASSUME Inv, NEW w \in Worker, Ssend(w) PROVE WorkChain' /\ ReplyChain'
<1> DEFINE d == doing[w]
           n == d.peer
           m == Data(d.tag, NULL, 0, buffer[Here(w)])
           e == [d EXCEPT !.op = "ssend"]
<1>1. d.op = "bcast" /\ Send(w, n, m) /\ Do(w, e) /\ homenode' = homenode
  BY DEF Ssend, tasks
<1>2. w \in Thread /\ Here(w) \in Node
  BY Threads
<1>3. doing'[w] = e /\ \A x \in Thread : x # w => doing'[x] = doing[x]
  BY <1>1, <1>2, DoFacts DEF Inv, Types
<1>4. Busy(d, w) /\ d \in Activity
  BY <1>2, InvFacts
<1>5. n \in Node /\ d.tag = Tag(w)
  BY <1>1, <1>4 DEF Busy
<1>6. (m.tag >= 100) = FALSE /\ m.type = "data" /\ m.task = NULL /\ m.i = 0
  BY <1>2, <1>5, Fields, Tags
<1>7. e.op = "ssend"
  BY <1>4, ActFields, ActIs
<1>8. Types /\ Messages /\ WorkChain /\ ReplyChain /\ HomeKept(homenode, homenode')
  BY <1>1, SameHome DEF Inv, Traffic
<1>9. d = doing[w] /\ n = d.peer
  OBVIOUS
<1> HIDE DEF n, m, e, d
<1>10. \A y, L : Owes(e, y, L) = NoDue
  BY <1>7 DEF Owes
<1>11. \A y, L : Owes(d, y, L) = IF n = y /\ ~L THEN DueOf(NULL, {0}) ELSE NoDue
  BY <1>1, <1>9 DEF Owes
<1>12. Rest(m, n, homenode') = NoDue
  BY <1>6 DEF Rest
<1>13. Link(DueOf(NULL, {0}), m)
  <2>1. Min({0}) = 0
    BY MinIsLeast
  <2>2. DueOf(NULL, {0}) = [task |-> NULL, left |-> {0}] /\ DueOf(NULL, {0}) # NoDue
    BY DEF DueOf, NoDue
  <2> QED
    BY <1>6, <2>1, <2>2 DEF Link
<1>14. Sends(d, e, m, n, homenode')
  BY <1>1, <1>6, <1>7, <1>10, <1>11, <1>12, <1>13 DEF Sends
<1>15. Sends(doing[w], doing'[w], m, n, homenode') /\ doing'[w].op # "asked"
  BY <1>3, <1>7, <1>9, <1>14
<1>16. WorkChain'
  BY <1>1, <1>2, <1>3, <1>5, <1>8, <1>15, SendWork
<1>17. ReplyChain'
  BY <1>1, <1>2, <1>3, <1>5, <1>6, <1>8, <1>15, SendReply
<1> QED
  BY <1>16, <1>17

LEMMA AskForWorkChains == ASSUME Inv, NEW w \in Worker, AskForWork(w) PROVE WorkChain' /\ ReplyChain'
<1> DEFINE h == Here(w)
           n == ((IF doing[w].op = "refused" THEN doing[w].peer ELSE h) + 1) % N
           m == Descriptor(MAX_NVPS, "STEALING_REQUEST", NULL)
           e == Act("asked", NULL, {}, n, ReplyTag(w), NULL)
           d == doing[w]
<1>1. d.op \in {"idle", "refused"} /\ Send(w, n, m) /\ Do(w, e) /\ homenode' = homenode /\ NoneAsking(h)
  BY DEF AskForWork, tasks
<1>2. w \in Thread /\ h \in Node /\ w \notin Node /\ Node \subseteq Thread /\ Worker \subseteq Thread
  BY Threads
<1>3. n \in Node
  <2>1. d.op = "refused" => d.peer \in Node
    BY <1>2, InvFacts DEF Busy
  <2> QED
    BY <1>2, <2>1, NextNode
<1>4. doing'[w] = e /\ \A x \in Thread : x # w => doing'[x] = doing[x]
  BY <1>1, <1>2, DoFacts DEF Inv, Types
<1>5. (m.tag >= 100) = FALSE /\ m.type = "STEALING_REQUEST"
  BY Fields, Tags
<1>6. e.op = "asked" /\ e.peer = n /\ e.task = NULL /\ e.left = {}
  BY ActIs
<1>7. Types /\ Messages /\ WorkChain /\ ReplyChain /\ HomeKept(homenode, homenode') /\ ChanType
  BY <1>1, SameHome DEF Inv, Traffic, Types
<1>8. \A y, L : Owes(d, y, L) = NoDue
  BY <1>1, SettledFacts DEF Settled
<1>9. d = doing[w] /\ h = Here(w)
  OBVIOUS
<1> HIDE DEF n, m, e, d, h
<1>10. Rest(m, n, homenode') = NoDue /\ Link(NoDue, m)
  BY <1>5 DEF Rest, Link
<1>11. \A y, L : Owes(e, y, L) = NoDue
  BY <1>6 DEF Owes
<1>12. Sends(d, e, m, n, homenode')
  BY <1>1, <1>5, <1>6, <1>8, <1>10, <1>11 DEF Sends
<1>13. Sends(doing[w], doing'[w], m, n, homenode')
  BY <1>4, <1>9, <1>12
<1>14. WorkChain'
  BY <1>1, <1>2, <1>3, <1>4, <1>7, <1>13, SendWork
<1>15. ASSUME NEW k \in Node, NEW y \in Node PROVE ReplyAt(k, y)'
  <2>1. ReplyAt(k, y) /\ chan'[<<k, y>>] = chan[<<k, y>>] /\ doing'[k] = doing[k]
    <3>1. ReplyAt(k, y) /\ k \in Thread /\ k # w
      BY <1>2, <1>7 DEF ReplyChain
    <3> QED
      BY <1>1, <1>2, <1>3, <1>4, <1>7, <3>1, SentFacts
  <2>2. CASE y # h
    <3>1. \A v \in Worker : Here(v) = y => doing'[v] = doing[v]
      BY <1>2, <1>4, <1>9, <2>2
    <3> QED
      BY <1>7, <2>1, <3>1, ReplyKept
  <2>3. CASE y = h
    <3>1. \A v \in Worker : Here(v) = y => ~ Asks(doing[v], k)
      BY <1>1, <2>3 DEF NoneAsking, Asks
    <3>2. Lane(chan[<<k, y>>], TRUE) = {} /\ Owes(doing[k], y, TRUE) = NoDue
      BY <2>1, <3>1 DEF ReplyAt
    <3>3. \A v \in Worker : Here(v) = y /\ Asks(doing'[v], k) => v = w
      BY <1>2, <1>4, <3>1
    <3>4. DueOf(doing'[w].task, doing'[w].left) = NoDue
      BY <1>4, <1>6 DEF DueOf
    <3>5. ChainOf(chan[<<k, y>>], TRUE, NoDue, NoDue, y, homenode')
      BY <3>2 DEF ChainOf
    <3> QED
      BY <2>1, <3>2, <3>3, <3>4, <3>5 DEF ReplyAt
  <2> QED
    BY <2>2, <2>3
<1> QED
  BY <1>14, <1>15 DEF ReplyChain

\* A server takes a descriptor and waits for what follows.
LEMMA AcceptChains ==
  ASSUME Inv, NEW n \in Node, NEW s \in Thread, NEW type, Accepts(n, s, type), Receive(s, n, MAX_NVPS),
         homenode' = homenode, NEW op \in {"receive", "collect", "buffer"}, NEW t, NEW A,
         Do(n, Act(op, t, A, Here(s), Tag(s), NULL)),
         DueOf(t, A) = Rest(Received(s, n, MAX_NVPS), n, homenode)
  PROVE  WorkChain' /\ ReplyChain'
<1> DEFINE e == Act(op, t, A, Here(s), Tag(s), NULL)
<1>1. e.op = op /\ e.task = t /\ e.left = A /\ e.peer = Here(s) /\ e.tag = Tag(s)
  BY ActIs
<1>2. doing[n].op = "idle" /\ Types /\ Messages /\ WorkChain /\ ReplyChain /\ n \in Thread
  BY Threads DEF Inv, Traffic, Accepts
<1>3. doing'[n] = e /\ \A x \in Thread : x # n => doing'[x] = doing[x]
  BY <1>2, DoFacts DEF Types
<1> HIDE DEF e
<1>4. /\ First(s, n, MAX_NVPS) \in Lane(chan[<<s, n>>], FALSE)
      /\ \A k \in Lane(chan[<<s, n>>], FALSE) : k >= First(s, n, MAX_NVPS)
  BY FirstWork
<1>5. Expects(e, s) = DueOf(t, A)
  BY <1>1 DEF Expects
<1>6. ASSUME NEW x \in Thread, x # s PROVE Expects(e, x) = Expects(doing[n], x)
  <2>1. ~ (Here(s) = Here(x) /\ Tag(s) = Tag(x))
    BY <1>6, SameThread
  <2> QED
    BY <1>1, <1>2, <2>1 DEF Expects
<1>7. \A y \in Node, L \in BOOLEAN : Owes(e, y, L) = Owes(doing[n], y, L)
  BY <1>1, <1>2 DEF Owes
<1> QED
  BY <1>2, <1>3, <1>4, <1>5, <1>6, <1>7, TakeWork

LEMMA RecvWorkChains ==
  ASSUME Inv, NEW n \in Node, NEW s \in Thread, RecvWork(n, s) PROVE WorkChain' /\ ReplyChain'
<1> DEFINE m == Received(s, n, MAX_NVPS)
           t == m.task
<1>1. /\ Accepts(n, s, "TORC_NORMAL_ENQUEUE") /\ Receive(s, n, MAX_NVPS) /\ homenode' = homenode
      /\ Do(n, Act("receive", t, AwaitedArgs(t), Here(s), Tag(s), NULL))
  BY DEF RecvWork, Allocate, tasks, AcceptedTask
<1>2. t \in Task /\ m.type = "TORC_NORMAL_ENQUEUE"
  BY <1>1, AcceptsFacts DEF AcceptedTask, Descriptors, Inv
<1>3. DueOf(t, AwaitedArgs(t)) = Rest(m, n, homenode)
  BY <1>2, Pairing DEF Rest
<1> QED
  BY <1>1, <1>3, AcceptChains

LEMMA RecvAnswerChains ==
  ASSUME Inv, NEW n \in Node, NEW s \in Thread, RecvAnswer(n, s) PROVE WorkChain' /\ ReplyChain'
<1> DEFINE m == Received(s, n, MAX_NVPS)
           t == m.task
<1>1. /\ Accepts(n, s, "TORC_ANSWER") /\ Receive(s, n, MAX_NVPS) /\ homenode' = homenode
      /\ Do(n, Act("collect", t, AwaitedResults(t), Here(s), Tag(s), NULL))
  BY DEF RecvAnswer, tasks, AcceptedTask
<1>2. t \in Task /\ m.type = "TORC_ANSWER"
  BY <1>1, AcceptsFacts DEF AcceptedTask, Descriptors, Inv
<1>3. DueOf(t, AwaitedResults(t)) = Rest(m, n, homenode)
  BY <1>2, Pairing DEF Rest
<1> QED
  BY <1>1, <1>3, AcceptChains

LEMMA RecvBcastChains ==
  ASSUME Inv, NEW n \in Node, NEW s \in Thread, RecvBcast(n, s) PROVE WorkChain' /\ ReplyChain'
<1> DEFINE m == Received(s, n, MAX_NVPS)
<1>1. /\ Accepts(n, s, "TORC_BCAST") /\ Receive(s, n, MAX_NVPS) /\ homenode' = homenode
      /\ Do(n, Act("buffer", NULL, {0}, Here(s), Tag(s), NULL))
  BY DEF RecvBcast, tasks
<1>2. m.type = "TORC_BCAST"
  BY <1>1 DEF Accepts
<1>3. DueOf(NULL, {0}) = Rest(m, n, homenode)
  BY <1>2 DEF Rest
<1> QED
  BY <1>1, <1>3, AcceptChains

\* What is left to do when one argument has been sent or received.
LEMMA OneLessIs ==
  ASSUME DoingType, NEW s \in Thread
  PROVE  /\ OneLess(s).op = doing[s].op /\ OneLess(s).task = doing[s].task
         /\ OneLess(s).left = doing[s].left \ {NextArg(s)} /\ OneLess(s).peer = doing[s].peer
         /\ OneLess(s).tag = doing[s].tag /\ OneLess(s).inside = doing[s].inside
BY OneLessFields DEF Act

\* What a receiver still waits for when it has received an argument.
LEMMA OneLessDue ==
  ASSUME Inv, NEW r \in Thread, doing[r].op \in {"receive", "collect"}, doing[r].left # {},
         NEW m, m.type = "data", m.task = doing[r].task, m.i = NextArg(r)
  PROVE  DueOf(doing[r].task, doing[r].left \ {NextArg(r)}) = Rest(m, Here(r), homenode)
<1> DEFINE d == doing[r]
           i == NextArg(r)
           S == IF d.op = "receive" THEN SentArgs(d.task) ELSE SentResults(d.task)
<1>0. Here(r) \in Node
  BY Threads
<1>1. DoingType /\ Busy(d, r) /\ ActivityOK(d, r, homenode)
  BY <1>0, InvFacts
<1>2. d.task \in Task /\ d.left \ {i} = Above(S, i)
  BY <1>1, NextArgFacts
<1>3. Cargo(d.task, Here(r), homenode) = S
  <2>1. d.op = "receive" => homenode[d.task] # Here(r)
    BY <1>1 DEF ActivityOK
  <2>2. d.op = "collect" => homenode[d.task] = Here(r)
    <3>1. d.op = "collect" => r \in Node /\ Here(r) = r
      BY <1>1, Threads DEF Busy
    <3> QED
      BY <1>1, <3>1 DEF ActivityOK
  <2> QED
    BY <2>1, <2>2 DEF Cargo
<1> QED
  BY <1>2, <1>3, DistinctAssumption DEF Rest

\* A server receives data.
LEMMA DataTaken ==
  ASSUME Inv, NEW n \in Node, NEW s \in Thread,
         doing[n].op \in {"receive", "collect", "buffer"}, doing[n].left # {}, Matches(n, s),
         homenode' = homenode, NEW e, Do(n, e),
         e.op \in {"receive", "collect", "arriving"},
         e.peer = doing[n].peer /\ e.tag = doing[n].tag,
         (IF e.op = "arriving" THEN NoDue ELSE DueOf(e.task, e.left))
           = Rest(Received(s, n, doing[n].tag), n, homenode)
  PROVE  WorkChain' /\ ReplyChain'
<1> DEFINE d == doing[n]
<1>1. /\ First(s, n, d.tag) \in Lane(chan[<<s, n>>], FALSE)
      /\ \A k \in Lane(chan[<<s, n>>], FALSE) : k >= First(s, n, d.tag)
      /\ d.tag = Tag(s) /\ d.peer = Here(s) /\ Receive(s, n, d.tag)
  BY FirstData
<1>2. Types /\ Messages /\ WorkChain /\ ReplyChain /\ n \in Thread
  BY Threads DEF Inv, Traffic
<1>3. doing'[n] = e /\ \A x \in Thread : x # n => doing'[x] = doing[x]
  BY <1>2, DoFacts DEF Types
<1>4. Expects(e, s) = Rest(Received(s, n, d.tag), n, homenode)
  BY <1>1 DEF Expects
<1>5. ASSUME NEW x \in Thread, x # s PROVE Expects(e, x) = Expects(d, x)
  <2>1. ~ (Here(s) = Here(x) /\ Tag(s) = Tag(x))
    BY <1>5, SameThread
  <2> QED
    BY <1>1, <2>1 DEF Expects
<1>6. \A y \in Node, L \in BOOLEAN : Owes(e, y, L) = Owes(d, y, L)
  BY DEF Owes
<1> QED
  BY <1>1, <1>2, <1>3, <1>4, <1>5, <1>6, TakeWork

\* Also for the server that receives an argument or a result.
LEMMA LessTaken ==
  ASSUME Inv, NEW n \in Node, NEW s \in Thread, doing[n].op \in {"receive", "collect"},
         doing[n].left # {}, Matches(n, s), Do(n, OneLess(n)), homenode' = homenode
  PROVE  WorkChain' /\ ReplyChain'
<1> DEFINE d == doing[n]
           m == Received(s, n, d.tag)
           e == OneLess(n)
<1>1. n \in Thread /\ Here(n) = n /\ DoingType
  BY Threads DEF Inv, Types
<1>2. m.type = "data" /\ m.task = d.task /\ m.i = NextArg(n)
  BY FirstData
<1>3. e.op = d.op /\ e.task = d.task /\ e.left = d.left \ {NextArg(n)} /\ e.peer = d.peer /\ e.tag = d.tag
  BY <1>1, OneLessIs
<1>4. DueOf(e.task, e.left) = Rest(m, n, homenode)
  BY <1>1, <1>2, <1>3, OneLessDue
<1> HIDE DEF m, e
<1>5. Do(n, e)
  BY DEF e
<1>6. (IF e.op = "arriving" THEN NoDue ELSE DueOf(e.task, e.left)) = Rest(Received(s, n, doing[n].tag), n, homenode)
  BY <1>3, <1>4 DEF m
<1> QED
  BY <1>3, <1>5, <1>6, DataTaken

LEMMA CollectResultChains ==
  ASSUME Inv, NEW n \in Node, NEW s \in Thread, CollectResult(n, s) PROVE WorkChain' /\ ReplyChain'
<1>1. /\ doing[n].op \in {"receive", "collect"} /\ doing[n].left # {} /\ Matches(n, s)
      /\ Do(n, OneLess(n)) /\ homenode' = homenode
  BY DEF CollectResult, tasks
<1> QED
  BY <1>1, LessTaken

LEMMA MatchBufferChains ==
  ASSUME Inv, NEW n \in Node, NEW s \in Thread, MatchBuffer(n, s) PROVE WorkChain' /\ ReplyChain'
<1> DEFINE d == doing[n]
           m == Received(s, n, d.tag)
           e == [d EXCEPT !.op = "arriving"]
<1>1. d.op = "buffer" /\ Matches(n, s) /\ Do(n, e) /\ homenode' = homenode
  BY DEF MatchBuffer, tasks
<1>2. d.left = {0} /\ d \in Activity /\ d.task = NULL
  <2>1. Busy(d, n) /\ d \in Activity
    BY Threads, InvFacts
  <2> QED
    BY <1>1, <2>1 DEF Busy, Activity
<1>3. e.op = "arriving" /\ e.peer = d.peer /\ e.tag = d.tag
  BY <1>2, ActFields, ActIs
<1>4. m.type = "data" /\ m.task = NULL
  BY <1>1, <1>2, FirstData
<1>5. NoDue = Rest(m, n, homenode)
  BY <1>4 DEF Rest
<1> HIDE DEF e, m
<1>6. (IF e.op = "arriving" THEN NoDue ELSE DueOf(e.task, e.left)) = Rest(Received(s, n, doing[n].tag), n, homenode)
  BY <1>3, <1>5 DEF m
<1> QED
  BY <1>1, <1>2, <1>3, <1>6, DataTaken

\* A worker that waits for arguments gets them from the server it has asked.
LEMMA FromServer ==
  ASSUME Inv, NEW w \in Worker, NEW k \in Thread, doing[w].op = "receive", doing[w].left # {}, Matches(w, k)
  PROVE  /\ k \in Node /\ doing[w].peer = k /\ doing[w].tag = ReplyTag(w) /\ Receive(k, Here(w), ReplyTag(w))
         /\ Asks(doing[w], k)
         /\ Received(k, Here(w), ReplyTag(w)).type = "data"
         /\ Received(k, Here(w), ReplyTag(w)).task = doing[w].task
         /\ Received(k, Here(w), ReplyTag(w)).i = NextArg(w)
<1> DEFINE m == Received(k, Here(w), ReplyTag(w))
<1>0. w \in Thread /\ Here(w) \in Node /\ Types /\ ReplyTag(w) >= 100
  BY Threads, Tags DEF Inv
<1>1. doing[w].tag = ReplyTag(w)
  BY <1>0, InvFacts DEF Busy
<1>2. Here(k) = doing[w].peer /\ Receive(k, Here(w), ReplyTag(w))
  BY <1>0, <1>1, MatchesFacts
<1>3. k \in Node
  <2>1. First(k, Here(w), ReplyTag(w)) \in DOMAIN chan[<<k, Here(w)>>]
        /\ chan[<<k, Here(w)>>][First(k, Here(w), ReplyTag(w))] = m /\ m.tag = ReplyTag(w)
    BY <1>0, <1>2, TakenFacts DEF Types
  <2>2. MessageOK(m, k, Here(w), homenode)
    BY <1>0, <2>1, InvFacts
  <2> QED
    BY <1>0, <2>1, <2>2 DEF MessageOK
<1>4. doing[w].peer = k /\ Asks(doing[w], k)
  BY <1>2, <1>3, Threads DEF Asks
<1>5. Link(DueOf(doing[w].task, doing[w].left), m)
  BY <1>2, <1>3, <1>4, FirstReply
<1>6. DueOf(doing[w].task, doing[w].left) = [task |-> doing[w].task, left |-> doing[w].left]
      /\ DueOf(doing[w].task, doing[w].left) # NoDue
  BY DEF DueOf, NoDue
<1>7. m.type = "data" /\ m.task = doing[w].task /\ m.i = Min(doing[w].left)
  BY <1>5, <1>6 DEF Link
<1> QED
  BY <1>1, <1>2, <1>3, <1>4, <1>7 DEF NextArg

LEMMA RecvArgumentChains ==
  ASSUME Inv, NEW r \in Thread, NEW s \in Thread, RecvArgument(r, s) PROVE WorkChain' /\ ReplyChain'
<1>1. /\ doing[r].op \in {"receive", "collect"} /\ doing[r].op = "receive" /\ doing[r].left # {} /\ Matches(r, s)
      /\ Do(r, OneLess(r)) /\ homenode' = homenode
  BY DEF RecvArgument, tasks
<1>2. CASE r \in Node
  BY <1>1, <1>2, LessTaken
<1>3. CASE r \in Worker
  <2> DEFINE d == doing[r]
             m == Received(s, Here(r), ReplyTag(r))
             e == OneLess(r)
  <2>1. /\ s \in Node /\ d.peer = s /\ Receive(s, Here(r), ReplyTag(r)) /\ Asks(d, s)
        /\ m.type = "data" /\ m.task = d.task /\ m.i = NextArg(r)
    BY <1>1, <1>3, FromServer
  <2>2. e.op = d.op /\ e.task = d.task /\ e.left = d.left \ {NextArg(r)} /\ e.peer = d.peer
    BY OneLessIs DEF Inv, Types
  <2>3. DueOf(e.task, e.left) = Rest(m, Here(r), homenode)
    BY <1>1, <2>1, <2>2, OneLessDue
  <2>4. doing'[r] = e /\ \A x \in Thread : x # r => doing'[x] = doing[x]
    BY <1>1, DoFacts DEF Inv, Types
  <2>5. Types /\ Messages /\ WorkChain /\ ReplyChain /\ Alone
    BY DEF Inv, Traffic, Asking
  <2>6. /\ First(s, Here(r), ReplyTag(r)) \in Lane(chan[<<s, Here(r)>>], TRUE)
        /\ \A p \in Lane(chan[<<s, Here(r)>>], TRUE) : p >= First(s, Here(r), ReplyTag(r))
    BY <1>3, <2>1, FirstReply
  <2> HIDE DEF m, e
  <2>7. Asks(doing'[r], s)
    BY <1>1, <2>1, <2>2, <2>4 DEF Asks
  <2>8. \A y \in Node, L \in BOOLEAN : Owes(doing'[r], y, L) = Owes(doing[r], y, L)
    BY <1>1, <2>2, <2>4 DEF Owes
  <2>9. DueOf(doing'[r].task, doing'[r].left) = Rest(Received(s, Here(r), ReplyTag(r)), Here(r), homenode)
    BY <2>3, <2>4 DEF m
  <2> QED
    BY <1>1, <1>3, <2>1, <2>4, <2>5, <2>6, <2>7, <2>8, <2>9, TakeReply
<1> QED
  BY <1>2, <1>3, Threads

\* A reply that is not data and that nothing follows is the only one.
LEMMA OnlyReply ==
  ASSUME Inv, NEW w \in Worker, NEW k \in Node, Asks(doing[w], k), Receive(k, Here(w), ReplyTag(w)),
         Received(k, Here(w), ReplyTag(w)).type # "data",
         Rest(Received(k, Here(w), ReplyTag(w)), Here(w), homenode) = NoDue
  PROVE  Lane(chan'[<<k, Here(w)>>], TRUE) = {}
<1> DEFINE n == Here(w)
           q == chan[<<k, n>>]
           f == First(k, n, ReplyTag(w))
           m == Received(k, n, ReplyTag(w))
<1>0. n \in Node /\ k \in Thread /\ Asked /\ ChanType
  BY Threads DEF Inv, Traffic, Asking, Types
<1>1. q \in Seq(Letter) /\ f \in DOMAIN q /\ q[f] = m /\ chan'[<<k, n>>] = RemoveAt(q, f)
  BY <1>0, TakenFacts
<1>2. f \in Lane(q, TRUE) /\ \A p \in Lane(q, TRUE) : p >= f
  BY FirstReply
<1>3. ChainOf(q, TRUE, DueOf(doing[w].task, doing[w].left), Owes(doing[k], n, TRUE), n, homenode)
  BY <1>0 DEF Inv, Traffic, ReplyChain, ReplyAt
<1>4. \A p, r \in Lane(q, TRUE) : q[p].type # "data" /\ q[r].type # "data" => p = r
  BY <1>0 DEF Asked
<1>5. m.type # "data" /\ Rest(m, n, homenode) = NoDue
  OBVIOUS
<1> HIDE DEF q, f, n, m
<1>6. \A p \in Lane(q, TRUE) : p <= f
  <2>1. SUFFICES ASSUME ~ \A p \in Lane(q, TRUE) : p <= f PROVE FALSE
    OBVIOUS
  <2>2. PICK r \in Lane(q, TRUE) : f < r /\ Link(Rest(q[f], n, homenode), q[r])
    BY <1>1, <1>2, <1>3, <2>1, LaneNext
  <2>3. q[r].type # "data"
    BY <1>1, <1>5, <2>2, LinkNoDue
  <2>4. f = r
    BY <1>1, <1>2, <1>4, <1>5, <2>2, <2>3
  <2>5. f \in Nat
    BY <1>1
  <2> QED
    BY <2>2, <2>4, <2>5
<1>7. Lane(q, TRUE) \subseteq {f}
  <2>1. ASSUME NEW p \in Lane(q, TRUE) PROVE p = f
    <3>1. p \in 1 .. Len(q) /\ f \in 1 .. Len(q) /\ Len(q) \in Nat
      BY <1>1 DEF Lane
    <3>2. p >= f /\ p <= f
      BY <1>2, <1>6
    <3> QED
      BY <3>1, <3>2
  <2> QED
    BY <2>1
<1>8. Lane(RemoveAt(q, f), TRUE) = {}
  BY <1>1, <1>7, LaneTaken
<1> QED
  BY <1>1, <1>8 DEF n

\* What a thief finds in the answer to its request.
LEMMA AnswerFacts ==
  ASSUME Inv, NEW w \in Worker, NEW type \in {"stolen", "TORC_NO_WORK"}, Answered(w, type)
  PROVE  LET k == doing[w].peer
             m == Received(k, Here(w), ReplyTag(w))
         IN  /\ k \in Node /\ k # Here(w) /\ Asks(doing[w], k) /\ doing[w].tag = ReplyTag(w)
             /\ Receive(k, Here(w), ReplyTag(w)) /\ m.type = type
             /\ type = "stolen" => m.task \in Task /\ homenode[m.task] # NULL
             /\ m \in Letter /\ MessageOK(m, k, Here(w), homenode)
<1> DEFINE k == doing[w].peer
           m == Received(k, Here(w), ReplyTag(w))
<1>1. /\ k \in Node /\ k # Here(w) /\ doing[w].op = "asked" /\ doing[w].tag = ReplyTag(w)
      /\ Receive(k, Here(w), ReplyTag(w)) /\ m.type = type /\ (type \in Descriptors => m.task \in Task)
  BY AnsweredFacts DEF Inv
<1>2. Asks(doing[w], k)
  BY <1>1 DEF Asks
<1>3. MessageOK(m, k, Here(w), homenode) /\ m \in Letter
  BY <1>1, <1>2, FirstReply
<1>4. type = "stolen" => m.task \in Task /\ homenode[m.task] # NULL
  BY <1>1, <1>3, DistinctAssumption DEF MessageOK, Descriptors
<1> QED
  BY <1>1, <1>2, <1>3, <1>4

LEMMA AnsweredChains ==
  ASSUME Inv, NEW w \in Worker, NEW type \in {"stolen", "TORC_NO_WORK"}, Answered(w, type),
         homenode' = homenode, NEW e, Do(w, e),
         LET k == doing[w].peer
             r == Rest(Received(k, Here(w), ReplyTag(w)), Here(w), homenode)
         IN  \/ e.op = "receive" /\ e.peer = k /\ DueOf(e.task, e.left) = r
             \/ e.op \in {"run", "refused"} /\ r = NoDue
  PROVE  WorkChain' /\ ReplyChain'
<1> DEFINE k == doing[w].peer
           m == Received(k, Here(w), ReplyTag(w))
           r == Rest(m, Here(w), homenode)
<1>1. /\ k \in Node /\ Asks(doing[w], k) /\ Receive(k, Here(w), ReplyTag(w)) /\ m.type = type
  BY AnswerFacts
<1>2. Types /\ Messages /\ WorkChain /\ ReplyChain /\ Alone /\ w \in Thread
  BY Threads DEF Inv, Traffic, Asking
<1>3. /\ First(k, Here(w), ReplyTag(w)) \in Lane(chan[<<k, Here(w)>>], TRUE)
      /\ \A p \in Lane(chan[<<k, Here(w)>>], TRUE) : p >= First(k, Here(w), ReplyTag(w))
  BY <1>1, FirstReply
<1>4. doing'[w] = e /\ \A x \in Thread : x # w => doing'[x] = doing[x]
  BY <1>2, DoFacts DEF Types
<1>5. doing[w].op \in {"asked", "receive"}
  BY <1>1 DEF Asks
<1>6. \A y \in Node, L \in BOOLEAN : Owes(doing'[w], y, L) = Owes(doing[w], y, L)
  BY <1>4, <1>5 DEF Owes
<1>7. \/ Asks(doing'[w], k) /\ DueOf(doing'[w].task, doing'[w].left) = r
      \/ /\ doing'[w].op \notin {"asked", "receive"}
         /\ Lane(chan'[<<k, Here(w)>>], TRUE) = {} /\ r = NoDue
  <2>1. CASE e.op = "receive" /\ e.peer = k /\ DueOf(e.task, e.left) = r
    BY <1>4, <2>1 DEF Asks
  <2>2. CASE e.op \in {"run", "refused"} /\ r = NoDue
    <3>1. m.type # "data"
      BY <1>1
    <3>2. Lane(chan'[<<k, Here(w)>>], TRUE) = {}
      BY <1>1, <2>2, <3>1, OnlyReply
    <3> QED
      BY <1>4, <2>2, <3>2
  <2> QED
    BY <2>1, <2>2
<1> QED
  BY <1>1, <1>2, <1>3, <1>4, <1>6, <1>7, TakeReply

LEMMA RefusedChains == ASSUME Inv, NEW w \in Worker, Refused(w) PROVE WorkChain' /\ ReplyChain'
<1> DEFINE e == [doing[w] EXCEPT !.op = "refused"]
           m == Received(doing[w].peer, Here(w), ReplyTag(w))
<1>1. Answered(w, "TORC_NO_WORK") /\ Do(w, e) /\ homenode' = homenode
  BY DEF Refused, tasks
<1>2. e.op = "refused"
  <2>1. doing[w] \in Activity
    BY Threads, InvFacts
  <2> QED
    BY <2>1, ActFields, ActIs
<1>3. Rest(m, Here(w), homenode) = NoDue
  <2>1. m.type = "TORC_NO_WORK"
    BY <1>1, AnswerFacts
  <2> QED
    BY <2>1 DEF Rest
<1> HIDE DEF e
<1> QED
  BY <1>1, <1>2, <1>3, AnsweredChains

LEMMA StolenChains == ASSUME Inv, NEW w \in Worker, Stolen(w) PROVE WorkChain' /\ ReplyChain'
<1> DEFINE d == doing[w]
           m == Received(d.peer, Here(w), ReplyTag(w))
           t == m.task
           a == Act("receive", t, AwaitedArgs(t), d.peer, d.tag, NULL)
<1>1. Answered(w, "stolen") /\ homenode' = homenode
  BY DEF Stolen, tasks
<1>2. d.tag = ReplyTag(w) /\ m.type = "stolen" /\ t \in Task
  BY <1>1, AnswerFacts
<1>3. IF homenode[t] # Here(w) THEN Do(w, a) ELSE Do(w, Run(t))
  BY <1>2 DEF Stolen, Allocate
<1>4. CASE homenode[t] # Here(w)
  <2>1. a.op = "receive" /\ a.peer = d.peer /\ a.task = t /\ a.left = AwaitedArgs(t)
    BY ActIs
  <2>2. DueOf(t, AwaitedArgs(t)) = Rest(m, Here(w), homenode)
    BY <1>2, <1>4, Pairing DEF Rest
  <2>3. Do(w, a)
    BY <1>3, <1>4
  <2> HIDE DEF a
  <2> QED
    BY <1>1, <2>1, <2>2, <2>3, AnsweredChains
<1>5. CASE homenode[t] = Here(w)
  <2>1. Run(t).op = "run"
    BY IdleRun
  <2>2. Rest(m, Here(w), homenode) = NoDue
    BY <1>2, <1>5 DEF Rest
  <2>3. Do(w, Run(t))
    BY <1>3, <1>5
  <2> QED
    BY <1>1, <2>1, <2>2, <2>3, AnsweredChains
<1> QED
  BY <1>4, <1>5

\* The thief that a server answers, and its request.
LEMMA ThiefFacts ==
  ASSUME Inv, NEW n \in Node, NEW s \in Thread, ServeThief(n, s)
  PROVE  /\ s \in Worker /\ Here(s) # n /\ Here(s) \in Node
         /\ doing[n].op = "idle" /\ First(s, n, MAX_NVPS) # 0
         /\ Received(s, n, MAX_NVPS).type = "STEALING_REQUEST"
         /\ First(s, n, MAX_NVPS) \in Lane(chan[<<s, n>>], FALSE)
         /\ \A k \in Lane(chan[<<s, n>>], FALSE) : k >= First(s, n, MAX_NVPS)
         /\ doing[s].op = "asked" /\ doing[s].peer = n
         /\ First(s, n, MAX_NVPS) = Len(chan[<<s, n>>])
         /\ Lane(chan[<<n, Here(s)>>], TRUE) = {}
         /\ homenode' = homenode
<1>1. Accepts(n, s, "STEALING_REQUEST") /\ homenode' = homenode
  BY DEF ServeThief
<1>2. s \in Worker /\ Here(s) # n /\ Here(s) \in Node
  BY ThiefIsAway, Threads DEF Inv
<1>3. doing[n].op = "idle" /\ First(s, n, MAX_NVPS) # 0 /\ Received(s, n, MAX_NVPS).type = "STEALING_REQUEST"
  BY <1>1 DEF Accepts
<1>4. /\ First(s, n, MAX_NVPS) \in Lane(chan[<<s, n>>], FALSE)
      /\ \A k \in Lane(chan[<<s, n>>], FALSE) : k >= First(s, n, MAX_NVPS)
  BY <1>1, FirstWork
<1>5. First(s, n, MAX_NVPS) \in DOMAIN chan[<<s, n>>]
  BY <1>4 DEF Lane
<1>6. Request(s, n, First(s, n, MAX_NVPS))
  <2>1. RequestsLast
    BY DEF Inv, Traffic, Asking
  <2> QED
    BY <1>3, <1>5, <2>1 DEF RequestsLast, Received
<1> QED
  BY <1>1, <1>2, <1>3, <1>4, <1>6 DEF Request

\* The reply, and what the server does next.
LEMMA ReplyFacts ==
  ASSUME Inv, NEW n \in Node, NEW s \in Thread, ServeThief(n, s)
  PROVE  \E m \in Letter :
           /\ Replies(n, s, m) /\ m.tag = ReplyTag(s)
           /\ \/ /\ m.type = "stolen" /\ m.task \in ready[n] /\ m.task \in Task
                 /\ ready' = [ready EXCEPT ![n] = @ \ {m.task}]
                 /\ Do(n, IF homenode[m.task] = Here(s) THEN Idle
                          ELSE Settle(Act("send", m.task, SentArgs(m.task), Here(s), ReplyTag(s), NULL)))
              \/ /\ m.type = "TORC_NO_WORK" /\ m.task = NULL /\ doing' = doing /\ ready' = ready
<1>1. s \in Worker /\ Types
  BY ThiefFacts DEF Inv
<1>2. ReplyTag(s) \in 0 .. MAX_NVPS + 100
  BY <1>1, Tags
<1>3. CASE \E t \in ready[n] :
              /\ ready' = [ready EXCEPT ![n] = @ \ {t}]
              /\ Replies(n, s, Descriptor(ReplyTag(s), "stolen", t))
              /\ Do(n, IF homenode[t] = Here(s) THEN Idle
                       ELSE Settle(Act("send", t, SentArgs(t), Here(s), ReplyTag(s), NULL)))
  <2>1. PICK t \in ready[n] :
              /\ ready' = [ready EXCEPT ![n] = @ \ {t}]
              /\ Replies(n, s, Descriptor(ReplyTag(s), "stolen", t))
              /\ Do(n, IF homenode[t] = Here(s) THEN Idle
                       ELSE Settle(Act("send", t, SentArgs(t), Here(s), ReplyTag(s), NULL)))
    BY <1>3
  <2> DEFINE m == Descriptor(ReplyTag(s), "stolen", t)
  <2>2. t \in Task
    BY <1>1 DEF Types, TaskType
  <2>3. m.tag = ReplyTag(s) /\ m.type = "stolen" /\ m.task = t
    BY Fields
  <2>4. m \in Letter
    BY <1>2, <2>2 DEF Letter, Message, Descriptor, Descriptors
  <2> HIDE DEF m
  <2> QED
    BY <2>1, <2>2, <2>3, <2>4 DEF m
<1>4. CASE Replies(n, s, Descriptor(ReplyTag(s), "TORC_NO_WORK", NULL)) /\ UNCHANGED <<ready, doing>>
  <2> DEFINE m == Descriptor(ReplyTag(s), "TORC_NO_WORK", NULL)
  <2>3. m.tag = ReplyTag(s) /\ m.type = "TORC_NO_WORK" /\ m.task = NULL
    BY Fields
  <2>4. m \in Letter
    BY <1>2 DEF Letter, Message, Descriptor, Descriptors
  <2> HIDE DEF m
  <2> QED
    BY <1>4, <2>3, <2>4 DEF m
<1> QED
  BY <1>3, <1>4 DEF ServeThief, Replies

\* What a server that has replied to s with m goes on with.
LEMMA ServedFacts ==
  ASSUME Inv, NEW n \in Node, NEW s \in Thread, ServeThief(n, s),
         NEW m \in Letter, m.tag = ReplyTag(s),
         \/ /\ m.type = "stolen" /\ m.task \in Task
            /\ Do(n, IF homenode[m.task] = Here(s) THEN Idle
                     ELSE Settle(Act("send", m.task, SentArgs(m.task), Here(s), ReplyTag(s), NULL)))
         \/ m.type = "TORC_NO_WORK" /\ doing' = doing
  PROVE  /\ \A x \in Thread : x # n => doing'[x] = doing[x]
         /\ \A x : Expects(doing'[n], x) = NoDue
         /\ \A y, L : Owes(doing'[n], y, L) = IF Here(s) = y /\ L = TRUE THEN Rest(m, Here(s), homenode) ELSE NoDue
         /\ doing'[n].op \in {"idle", "send"}
<1> DEFINE h == Here(s)
<1>1. n \in Thread /\ doing[n].op = "idle" /\ s \in Worker /\ DoingType
  BY ThiefFacts, Threads DEF Inv, Types
<1>2. (ReplyTag(s) >= 100) = TRUE
  BY <1>1, Tags
<1>3. CASE m.type = "stolen" /\ homenode[m.task] # h
  <2> DEFINE e == Settle(Act("send", m.task, SentArgs(m.task), h, ReplyTag(s), NULL))
  <2>1. doing'[n] = e /\ \A x \in Thread : x # n => doing'[x] = doing[x]
    BY <1>1, <1>3, DoFacts
  <2>2. /\ \A y, L : Owes(e, y, L) = IF h = y /\ TRUE = L THEN DueOf(m.task, SentArgs(m.task)) ELSE NoDue
        /\ e.op \in {"send", "idle", "run"}
        /\ SentArgs(m.task) = {} => e = Idle
        /\ SentArgs(m.task) # {} => e = Act("send", m.task, SentArgs(m.task), h, ReplyTag(s), NULL)
    <3>1. /\ \A y, L : Owes(e, y, L) = IF h = y /\ (ReplyTag(s) >= 100) = L THEN DueOf(m.task, SentArgs(m.task)) ELSE NoDue
          /\ e.op \in {"send", "idle", "run"}
          /\ SentArgs(m.task) = {} => e = Idle
          /\ SentArgs(m.task) # {} => e = Act("send", m.task, SentArgs(m.task), h, ReplyTag(s), NULL)
      BY SettleFacts
    <3> HIDE DEF e, h
    <3> QED
      BY <1>2, <3>1
  <2>3. Rest(m, h, homenode) = DueOf(m.task, SentArgs(m.task))
    BY <1>3 DEF Rest
  <2>4. e.op \in {"idle", "send"}
    BY <2>2, IdleRun, ActIs
  <2> HIDE DEF e, h
  <2>5. \A x : Expects(e, x) = NoDue
    BY <2>4 DEF Expects
  <2> QED
    BY <2>1, <2>2, <2>3, <2>4, <2>5 DEF h
<1>4. CASE m.type = "stolen" /\ homenode[m.task] = h
  <2>1. doing'[n] = Idle /\ \A x \in Thread : x # n => doing'[x] = doing[x]
    BY <1>1, <1>4, DoFacts
  <2>2. Rest(m, h, homenode) = NoDue
    BY <1>4 DEF Rest
  <2>3. Settled(doing'[n]) /\ doing'[n].op = "idle"
    BY <2>1, IdleRun
  <2> HIDE DEF h
  <2> QED
    BY <2>1, <2>2, <2>3, SettledFacts DEF h
<1>5. CASE m.type = "TORC_NO_WORK" /\ doing' = doing
  <2>1. Rest(m, h, homenode) = NoDue
    BY <1>5 DEF Rest
  <2>2. Settled(doing[n])
    BY <1>1 DEF Settled
  <2> HIDE DEF h
  <2> QED
    BY <1>1, <1>5, <2>1, <2>2, SettledFacts DEF h
<1> QED
  BY <1>3, <1>4, <1>5

LEMMA ServeThiefChains ==
  ASSUME Inv, NEW n \in Node, NEW s \in Thread, ServeThief(n, s) PROVE WorkChain' /\ ReplyChain'
<1> DEFINE h == Here(s)
           q == chan[<<s, n>>]
           f == First(s, n, MAX_NVPS)
           r == chan[<<n, h>>]
<1>0. /\ s \in Worker /\ h # n /\ h \in Node /\ doing[n].op = "idle" /\ f # 0
      /\ Received(s, n, MAX_NVPS).type = "STEALING_REQUEST"
      /\ f \in Lane(q, FALSE) /\ (\A k \in Lane(q, FALSE) : k >= f)
  <2>0. s \in Worker /\ h # n /\ h \in Node /\ doing[n].op = "idle"
    BY ThiefFacts
  <2>1. f # 0 /\ Received(s, n, MAX_NVPS).type = "STEALING_REQUEST"
    BY DEF ServeThief, Accepts
  <2>2. /\ f \in Lane(q, FALSE)
        /\ \A k \in Lane(q, FALSE) : k >= f
    BY ThiefFacts
  <2> QED
    BY <2>0, <2>1, <2>2
<1>1. /\ doing[s].op = "asked" /\ doing[s].peer = n /\ Lane(r, TRUE) = {}
      /\ HomeKept(homenode, homenode') /\ homenode' = homenode
  BY ThiefFacts, SameHome
<1>2. PICK m \in Letter :
           /\ Replies(n, s, m) /\ m.tag = ReplyTag(s) /\ m.type # "data"
           /\ \/ /\ m.type = "stolen" /\ m.task \in Task
                 /\ Do(n, IF homenode[m.task] = Here(s) THEN Idle
                          ELSE Settle(Act("send", m.task, SentArgs(m.task), Here(s), ReplyTag(s), NULL)))
              \/ m.type = "TORC_NO_WORK" /\ doing' = doing
  BY ReplyFacts
<1>3. /\ \A x \in Thread : x # n => doing'[x] = doing[x]
      /\ \A x : Expects(doing'[n], x) = NoDue
      /\ \A y, L : Owes(doing'[n], y, L) = IF h = y /\ L = TRUE THEN Rest(m, h, homenode) ELSE NoDue
      /\ doing'[n].op \in {"idle", "send"}
  BY <1>2, ServedFacts
<1>4. Types /\ Messages /\ WorkChain /\ ReplyChain /\ Alone /\ ChanType
  BY DEF Inv, Traffic, Asking, Types
<1>5. /\ q \in Seq(Letter) /\ r \in Seq(Letter) /\ f \in DOMAIN q /\ q[f] = Received(s, n, MAX_NVPS)
      /\ chan'[<<s, n>>] = RemoveAt(q, f) /\ chan'[<<n, h>>] = Append(r, m)
      /\ \A x \in Thread, y \in Node :
           ~ (x = s /\ y = n) /\ ~ (x = n /\ y = h) => chan'[<<x, y>>] = chan[<<x, y>>]
  BY <1>0, <1>2, <1>4, RepliesFacts
<1>6. /\ n \in Thread /\ Node \subseteq Thread /\ s \notin Node /\ s # n
      /\ Worker \subseteq Thread /\ \A w \in Worker : w # n
      /\ (m.tag >= 100) = TRUE
  BY <1>0, <1>2, Threads, Tags
<1>7. Settled(doing[n])
  BY <1>0 DEF Settled
<1>8. /\ \A x : Expects(doing[n], x) = NoDue
      /\ \A y, L : Owes(doing[n], y, L) = NoDue
  BY <1>7, SettledFacts
<1>9. \A x, y \in Thread : Expects(doing'[x], y) = Expects(doing[x], y)
  BY <1>3, <1>6, <1>8
<1>10. ASSUME NEW x \in Thread, NEW y \in Node, NEW L \in BOOLEAN, ~ (x = n /\ y = h /\ L = TRUE)
       PROVE  Owes(doing'[x], y, L) = Owes(doing[x], y, L)
  <2>1. CASE x # n
    BY <1>3, <2>1
  <2>2. CASE x = n
    BY <1>3, <1>8, <1>10, <2>2
  <2> QED
    BY <2>1, <2>2
<1>11. h = Here(s)
  OBVIOUS
<1> HIDE DEF h, q, f, r
<1>12. ASSUME NEW x \in Thread, NEW y \in Node PROVE WorkAt(x, y)'
  <2>0. WorkAt(x, y) /\ Owes(doing'[x], y, FALSE) = Owes(doing[x], y, FALSE)
        /\ Expects(doing'[y], x) = Expects(doing[y], x)
    BY <1>4, <1>6, <1>9, <1>10 DEF WorkChain
  <2>1. CASE ~ (x = s /\ y = n) /\ ~ (x = n /\ y = h)
    <3>1. chan'[<<x, y>>] = chan[<<x, y>>]
      BY <1>5, <2>1
    <3> QED
      BY <1>1, <1>4, <2>0, <3>1, WorkKept
  <2>2. CASE x = s /\ y = n
    <3>1. ChainOf(q, FALSE, NoDue, Owes(doing[s], n, FALSE), n, homenode)
      BY <1>8, <2>0, <2>2 DEF WorkAt, q
    <3>2. Rest(q[f], n, homenode) = NoDue
      BY <1>0, <1>5 DEF Rest
    <3>3. ChainOf(RemoveAt(q, f), FALSE, NoDue, Owes(doing[s], n, FALSE), n, homenode)
      BY <1>0, <1>5, <3>1, <3>2, ChainTaken
    <3> QED
      BY <1>1, <1>3, <1>5, <2>0, <2>2, <3>3 DEF WorkAt
  <2>3. CASE x = n /\ y = h
    <3>1. ChainOf(r, FALSE, Expects(doing[h], n), Owes(doing[n], h, FALSE), h, homenode)
      BY <2>0, <2>3 DEF WorkAt, r
    <3>2. Lane(Append(r, m), FALSE) = Lane(r, FALSE) /\ \A p \in Lane(r, FALSE) : Append(r, m)[p] = r[p]
      BY <1>5, <1>6, OtherLaneAppended
    <3>3. ChainOf(Append(r, m), FALSE, Expects(doing[h], n), Owes(doing[n], h, FALSE), h, homenode)
      BY <3>1, <3>2, SameLane
    <3> QED
      BY <1>1, <1>5, <2>0, <2>3, <3>3 DEF WorkAt
  <2> QED
    BY <2>1, <2>2, <2>3
<1>13. ASSUME NEW k \in Node, NEW y \in Node PROVE ReplyAt(k, y)'
  <2>0. ReplyAt(k, y) /\ \A w \in Worker : doing'[w] = doing[w]
    BY <1>3, <1>4, <1>6 DEF ReplyChain
  <2>1. CASE ~ (k = n /\ y = h)
    <3>1. chan'[<<k, y>>] = chan[<<k, y>>]
      BY <1>5, <1>6, <2>1
    <3>2. Owes(doing'[k], y, TRUE) = Owes(doing[k], y, TRUE)
      BY <1>6, <1>10, <2>1
    <3> QED
      BY <1>1, <1>4, <2>0, <3>1, <3>2, ReplyKept
  <2>2. CASE k = n /\ y = h
    <3>1. Here(s) = h /\ Asks(doing[s], n)
      BY <1>1, <1>11 DEF Asks
    <3>2. ASSUME NEW w \in Worker, Here(w) = h, Asks(doing[w], n)
          PROVE  ChainOf(Append(r, m), TRUE, DueOf(doing[w].task, doing[w].left), Rest(m, h, homenode), h, homenode)
      <4>1. ChainOf(r, TRUE, DueOf(doing[w].task, doing[w].left), NoDue, h, homenode)
        BY <1>8, <2>0, <2>2, <3>2 DEF ReplyAt, r
      <4>2. Link(NoDue, m)
        BY <1>2 DEF Link
      <4> QED
        BY <1>5, <1>6, <4>1, <4>2, ChainAppended
    <3>3. Owes(doing'[n], h, TRUE) = Rest(m, h, homenode)
      BY <1>3
    <3>4. doing'[s] = doing[s]
      BY <1>0, <2>0
    <3> QED
      BY <1>0, <1>1, <1>5, <2>0, <2>2, <3>1, <3>2, <3>3, <3>4 DEF ReplyAt
  <2> QED
    BY <2>1, <2>2
<1> QED
  BY <1>12, <1>13 DEF WorkChain, ReplyChain

=============================================================================
