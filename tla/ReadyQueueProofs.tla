--------------------------- MODULE ReadyQueueProofs ---------------------------
(***************************************************************************)
(* For any number of descriptors and threads: the pointers of the queue    *)
(* form a list that reads the same in both directions, and the queue       *)
(* implements the abstract deque.                                          *)
(*                                                                         *)
(* The list is read by a recursive function; what it returns is shown      *)
(* without induction: a sequence that is linked by the pointers gives one  *)
(* solution of the recursion, and the least step at which two solutions    *)
(* differ cannot exist.                                                    *)
(***************************************************************************)
EXTENDS ReadyQueue, FiniteSetTheorems, SequenceTheorems, WellFoundedInduction, TLAPS

\* Operations between a call and the critical section.
Ready == {"enqueue_head", "enqueue_tail", "dequeue"}

\* A thread whose operation is done is inside the critical section, the
\* owner of the lock has an operation under way, and a thread that adds a
\* descriptor has one.
Discipline ==
  \A t \in Thread :
    /\ op[t] = "done" => lock = t
    /\ lock = t => op[t] # "idle"
    /\ op[t] \in {"enqueue_head", "enqueue_tail"} => item[t] \in Elem

QueueInv == TypeOK /\ Discipline

LEMMA QueueInit == Init => QueueInv
  BY QueueAssumption DEF Init, QueueInv, TypeOK, Discipline, Ptr, Op

LEMMA QueueStep == QueueInv /\ [Next]_vars => QueueInv'
<1> SUFFICES ASSUME QueueInv, [Next]_vars PROVE QueueInv'
  OBVIOUS
<1> USE QueueAssumption DEF QueueInv, TypeOK, Discipline, Ptr, Op
<1>1. ASSUME NEW t \in Thread, NEW e \in Elem,
             NEW which \in {"enqueue_head", "enqueue_tail"}, CallEnqueue(t, which, e)
      PROVE  QueueInv'
  BY <1>1 DEF CallEnqueue
<1>2. ASSUME NEW t \in Thread, CallDequeue(t) PROVE QueueInv'
  BY <1>2 DEF CallDequeue
<1>3. ASSUME NEW t \in Thread, Acquire(t) PROVE QueueInv'
  BY <1>3 DEF Acquire
<1>4. ASSUME NEW t \in Thread, EnqueueHead(t) PROVE QueueInv'
  <2>1. lock = t /\ item[t] \in Elem
    BY <1>4 DEF EnqueueHead, Inside
  <2>2. head' \in Ptr /\ tail' \in Ptr /\ next' \in [Elem -> Ptr] /\ prev' \in [Elem -> Ptr]
    BY <1>4, <2>1 DEF EnqueueHead, BackLink
  <2> QED
    BY <1>4, <2>1, <2>2 DEF EnqueueHead, Inside
<1>5. ASSUME NEW t \in Thread, EnqueueTail(t) PROVE QueueInv'
  <2>1. lock = t /\ item[t] \in Elem
    BY <1>5 DEF EnqueueTail, Inside
  <2>2. head' \in Ptr /\ tail' \in Ptr /\ next' \in [Elem -> Ptr] /\ prev' \in [Elem -> Ptr]
    BY <1>5, <2>1 DEF EnqueueTail, HeadAfterTail
  <2> QED
    BY <1>5, <2>1, <2>2 DEF EnqueueTail, Inside
<1>6. ASSUME NEW t \in Thread, Dequeue(t) PROVE QueueInv'
  <2>1. head' \in Ptr /\ tail' \in Ptr /\ prev' \in [Elem -> Ptr]
    BY <1>6 DEF Dequeue, TailAfterDequeue
  <2>2. item' \in [Thread -> Ptr]
    BY <1>6 DEF Dequeue
  <2> QED
    BY <1>6, <2>1, <2>2 DEF Dequeue, Inside
<1>7. ASSUME NEW t \in Thread, Release(t) PROVE QueueInv'
  BY <1>7 DEF Release
<1>8. CASE UNCHANGED vars
  BY <1>8 DEF vars
<1> QED
  BY <1>1, <1>2, <1>3, <1>4, <1>5, <1>6, <1>7, <1>8 DEF Next, Step

\* At most one thread is between lock and unlock, it has an operation under
\* way, and every pointer is a descriptor or null, whatever the looks at head
\* without the lock have seen.
THEOREM QueueDiscipline == Spec => [](TypeOK /\ Discipline)
  BY QueueInit, QueueStep, PTL DEF Spec, QueueInv

----------------------------------------------------------------------------
(* Reading a list.                                                         *)

\* A set of natural numbers has a least element: of its initial segments,
\* one has no proper part among them.
LEMMA LeastNumber ==
  ASSUME NEW S \in SUBSET Nat, S # {}
  PROVE  \E x \in S : \A y \in S : x <= y
<1> DEFINE Upto(x) == S \cap (0 .. x)
           T == {Upto(x) : x \in S}
<1>1. T \subseteq FiniteSubsetsOf(Nat)
  <2> SUFFICES ASSUME NEW x \in S PROVE IsFiniteSet(Upto(x)) /\ Upto(x) \in SUBSET Nat
    BY DEF FiniteSubsetsOf
  <2>1. IsFiniteSet(0 .. x)
    BY FS_Interval
  <2> QED
    BY <2>1, FS_Subset
<1>2. \E X \in T : \A Y \in T : <<Y, X>> \notin StrictSubsetOrdering(Nat)
  <2>1. T # {}
    OBVIOUS
  <2> HIDE DEF T
  <2> QED
    BY <1>1, <2>1, FS_StrictSubsetOrderingWellFounded, WFMin
<1>3. PICK x \in S : \A y \in S : <<Upto(y), Upto(x)>> \notin StrictSubsetOrdering(Nat)
  BY <1>2
<1>4. ASSUME NEW y \in S, ~ (x <= y) PROVE FALSE
  <2>1. /\ x \in Nat /\ y \in Nat /\ x \in 0 .. x /\ x \notin 0 .. y
        /\ \A z \in 0 .. y : z \in 0 .. x
    BY <1>4
  <2> HIDE DEF T
  <2>2. x \in Upto(x) /\ x \notin Upto(y)
    BY <2>1
  <2>3. Upto(y) \subseteq Upto(x)
    BY <2>1
  <2>4. Upto(y) \in SUBSET Nat /\ Upto(x) \in SUBSET Nat
    OBVIOUS
  <2> QED
    BY <1>3, <2>2, <2>3, <2>4 DEF StrictSubsetOrdering
<1> QED
  BY <1>3, <1>4

\* The recursion of Chain, up to step M.
Walks(p, e, M, walk) ==
  walk = [k \in 0 .. M |->
            IF k = 0 THEN <<>>
            ELSE LET x == IF walk[k - 1] = <<>> THEN e ELSE p[Last(walk[k - 1])]
                 IN  IF x = NULL THEN walk[k - 1] ELSE Append(walk[k - 1], x)]

\* ... has one solution at most.
LEMMA WalksAgree ==
  ASSUME NEW p, NEW e, NEW M \in Nat, NEW f, NEW g, Walks(p, e, M, f), Walks(p, e, M, g)
  PROVE  f[M] = g[M]
<1> DEFINE Longer(w) == LET x == IF w = <<>> THEN e ELSE p[Last(w)]
                      IN  IF x = NULL THEN w ELSE Append(w, x)
           S == {k \in 0 .. M : f[k] # g[k]}
<1>1. /\ f = [k \in 0 .. M |-> IF k = 0 THEN <<>> ELSE Longer(f[k - 1])]
      /\ g = [k \in 0 .. M |-> IF k = 0 THEN <<>> ELSE Longer(g[k - 1])]
  BY Zenon DEF Walks
<1> HIDE DEF Longer
<1>2. \A k \in 0 .. M : /\ f[k] = IF k = 0 THEN <<>> ELSE Longer(f[k - 1])
                        /\ g[k] = IF k = 0 THEN <<>> ELSE Longer(g[k - 1])
  BY <1>1
<1>3. S \in SUBSET Nat /\ M \in 0 .. M
  OBVIOUS
<1>4. S = {}
  <2> SUFFICES ASSUME S # {} PROVE FALSE
    OBVIOUS
  <2>1. PICK x \in S : \A y \in S : x <= y
    BY <1>3, LeastNumber
  <2>2. x \in 0 .. M /\ f[x] # g[x] /\ x # 0
    BY <1>2, <2>1
  <2>3. x - 1 \in 0 .. M /\ ~ (x <= x - 1)
    BY <2>2
  <2>4. f[x - 1] = g[x - 1]
    BY <2>1, <2>3
  <2> QED
    BY <1>2, <2>2, <2>4
<1> QED
  BY <1>3, <1>4

\* s is what p links from e to a null pointer, without repetition.
Place(s, i) == IF i \in DOMAIN s THEN s[i] ELSE NULL

Linked(s, p, e) ==
  /\ s \in Seq(Elem)
  /\ \A i, j \in DOMAIN s : s[i] = s[j] => i = j
  /\ e = Place(s, 1)
  /\ \A i \in DOMAIN s : p[s[i]] = Place(s, i + 1)

LEMMA NotLonger ==
  ASSUME NEW s \in Seq(Elem), \A i, j \in DOMAIN s : s[i] = s[j] => i = j
  PROVE  Len(s) \in Nat /\ Cardinality(Elem) \in Nat /\ Len(s) <= Cardinality(Elem)
<1>0. Len(s) \in Nat /\ DOMAIN s = 1 .. Len(s) /\ s \in [1 .. Len(s) -> Elem]
  OBVIOUS
<1>1. IsFiniteSet(Elem) /\ Cardinality(Elem) \in Nat
  BY QueueAssumption, FS_CardinalityType
<1>2. IsFiniteSet(1 .. Len(s)) /\ Cardinality(1 .. Len(s)) = Len(s)
  <2>1. 1 \in Int /\ Len(s) \in Int /\ (IF 1 > Len(s) THEN 0 ELSE Len(s) - 1 + 1) = Len(s)
    BY <1>0
  <2> QED
    BY <2>1, FS_Interval
<1>3. ~ (Cardinality(Elem) < Cardinality(1 .. Len(s)))
  BY <1>0, <1>1, <1>2, FS_PigeonHole
<1> QED
  BY <1>0, <1>1, <1>2, <1>3

\* Reading the pointers gives the sequence they link.
LEMMA ChainReads ==
  ASSUME NEW s, NEW p, NEW e, Linked(s, p, e) PROVE Chain(p, e) = s
<1> DEFINE M == Cardinality(Elem) + 1
           L == Len(s)
           First(k) == SubSeq(s, 1, k)
           g == [k \in 0 .. M |-> IF k < L THEN First(k) ELSE s]
<1>0. /\ s \in Seq(Elem) /\ L \in Nat /\ DOMAIN s = 1 .. L /\ M \in Nat /\ L < M
      /\ e = Place(s, 1)
      /\ \A i \in 1 .. L : p[s[i]] = Place(s, i + 1) /\ s[i] \in Elem /\ s[i] # NULL
  BY NotLonger, QueueAssumption DEF Linked
<1>1. \A k \in 0 .. L : First(k) \in Seq(Elem) /\ Len(First(k)) = k
                        /\ \A i \in 1 .. k : First(k)[i] = s[i]
  BY <1>0
<1>2. First(0) = <<>> /\ First(L) = s
  BY <1>0
<1>3. \A k \in 1 .. L : First(k) = Append(First(k - 1), s[k])
  BY <1>0
<1> HIDE DEF First, L, M
<1>4. ASSUME NEW k \in 0 .. M
      PROVE  g[k] = IF k = 0 THEN <<>>
                    ELSE LET x == IF g[k - 1] = <<>> THEN e ELSE p[Last(g[k - 1])]
                         IN  IF x = NULL THEN g[k - 1] ELSE Append(g[k - 1], x)
  <2>1. \A j \in 0 .. L : j \in 0 .. M /\ g[j] = First(j)
    BY <1>0, <1>2
  <2>2. \A j \in 0 .. M : j > L => g[j] = s /\ g[j] = First(L)
    BY <1>0, <1>2
  <2>3. CASE k = 0
    BY <1>0, <1>2, <2>1, <2>3
  <2>4. ASSUME NEW j \in 0 .. L PROVE (IF First(j) = <<>> THEN e ELSE p[Last(First(j))]) = Place(s, j + 1)
    <3>1. CASE j = 0
      BY <1>0, <1>2, <3>1
    <3>2. CASE j # 0
      <4>1. First(j) # <<>> /\ Last(First(j)) = s[j] /\ j \in 1 .. L
        BY <1>1, <3>2 DEF Last
      <4> QED
        BY <1>0, <4>1
    <3> QED
      BY <3>1, <3>2
  <2>5. CASE k # 0 /\ k <= L
    <3>1. k - 1 \in 0 .. L /\ k \in 1 .. L /\ k \in 0 .. L
      BY <1>0, <2>5
    <3>2. g[k] = First(k) /\ g[k - 1] = First(k - 1)
      BY <2>1, <3>1
    <3>3. Place(s, k) = s[k] /\ s[k] # NULL /\ (k - 1) + 1 = k
      BY <1>0, <3>1 DEF Place
    <3> QED
      BY <1>3, <2>4, <2>5, <3>1, <3>2, <3>3
  <2>6. CASE k > L
    <3>1. k - 1 \in 0 .. M /\ (k - 1 = L \/ k - 1 > L) /\ k # 0 /\ L \in 0 .. L /\ L + 1 \notin 1 .. L
      BY <1>0, <2>6
    <3>2. g[k] = First(L) /\ g[k - 1] = First(L)
      BY <2>1, <2>2, <2>6, <3>1
    <3>3. Place(s, L + 1) = NULL
      BY <1>0, <3>1 DEF Place
    <3> QED
      BY <2>4, <3>1, <3>2, <3>3
  <2> QED
    BY <1>0, <2>3, <2>5, <2>6
<1>5. Walks(p, e, M, g)
  BY <1>4, Zenon DEF Walks
<1>6. g[M] = s
  BY <1>0
<1> DEFINE W == CHOOSE walk : Walks(p, e, M, walk)
<1>7. Walks(p, e, M, W)
  BY <1>5
<1>8. Chain(p, e) = W[M]
  BY Zenon DEF Chain, Walks, M
<1> HIDE DEF g, W
<1> QED
  BY <1>0, <1>5, <1>6, <1>7, <1>8, WalksAgree

----------------------------------------------------------------------------
(* The three operations on a list.                                         *)

\* s is the list with head h and tail t, linked both ways by n and p.
List(s, n, p, h, t) ==
  /\ s \in Seq(Elem)
  /\ \A i, j \in DOMAIN s : s[i] = s[j] => i = j
  /\ h = Place(s, 1) /\ t = Place(s, Len(s))
  /\ \A i \in DOMAIN s : n[s[i]] = Place(s, i + 1) /\ p[s[i]] = Place(s, i - 1)

\* It reads s from the head, and s reversed from the tail.
LEMMA ListReads ==
  ASSUME NEW s, NEW n, NEW p, NEW h, NEW t, List(s, n, p, h, t)
  PROVE  Chain(n, h) = s /\ Chain(p, t) = Reverse(s)
<1> DEFINE r == Reverse(s)
           L == Len(s)
<1>0. /\ s \in Seq(Elem) /\ L \in Nat /\ DOMAIN s = 1 .. L
      /\ t = Place(s, L)
      /\ \A i, j \in 1 .. L : s[i] = s[j] => i = j
      /\ \A i \in 1 .. L : s[i] \in Elem /\ p[s[i]] = Place(s, i - 1)
  BY DEF List
<1>1. /\ r \in Seq(Elem) /\ Len(r) = L /\ DOMAIN r = 1 .. L
      /\ \A i \in 1 .. L : L - i + 1 \in 1 .. L /\ r[i] = s[L - i + 1]
  BY <1>0 DEF Reverse
<1> HIDE DEF r, L
<1>2. \A i, j \in 1 .. L : r[i] = r[j] => i = j
  <2> SUFFICES ASSUME NEW i \in 1 .. L, NEW j \in 1 .. L, r[i] = r[j] PROVE i = j
    OBVIOUS
  <2>1. L - i + 1 = L - j + 1
    BY <1>0, <1>1
  <2> QED
    BY <1>0, <2>1
<1>3. \A i \in Int : Place(r, i) = Place(s, L - i + 1)
  <2> SUFFICES ASSUME NEW i \in Int PROVE Place(r, i) = Place(s, L - i + 1)
    OBVIOUS
  <2>1. i \in 1 .. L <=> L - i + 1 \in 1 .. L
    BY <1>0
  <2> QED
    BY <1>0, <1>1, <2>1 DEF Place
<1>4. t = Place(r, 1)
  <2>1. L - 1 + 1 = L
    BY <1>0
  <2> QED
    BY <1>0, <1>3, <2>1
<1>5. ASSUME NEW i \in 1 .. L PROVE p[r[i]] = Place(r, i + 1)
  <2>1. p[r[i]] = Place(s, (L - i + 1) - 1)
    BY <1>0, <1>1
  <2>2. i + 1 \in Int /\ (L - i + 1) - 1 = L - (i + 1) + 1
    BY <1>0
  <2> QED
    BY <1>3, <2>1, <2>2
<1>6. Linked(r, p, t)
  BY <1>1, <1>2, <1>4, <1>5 DEF Linked
<1>7. Linked(s, n, h)
  BY DEF List, Linked
<1> QED
  BY <1>6, <1>7, ChainReads DEF r

LEMMA ListEnds ==
  ASSUME NEW s, NEW n, NEW p, NEW h, NEW t, List(s, n, p, h, t)
  PROVE  /\ h = NULL <=> s = <<>>
         /\ t = NULL <=> s = <<>>
         /\ s # <<>> => h = Head(s) /\ h \in Elem /\ t \in Elem
         /\ Len(s) \in Nat /\ DOMAIN s = 1 .. Len(s) /\ (s # <<>> => Len(s) > 0)
         /\ \A i \in DOMAIN s : s[i] \in Elem /\ s[i] # NULL
<1>1. s \in Seq(Elem) /\ h = Place(s, 1) /\ t = Place(s, Len(s))
  BY DEF List
<1>2. Len(s) \in Nat /\ DOMAIN s = 1 .. Len(s) /\ (s # <<>> <=> Len(s) > 0)
      /\ \A i \in DOMAIN s : s[i] \in Elem
  BY <1>1
<1>3. \A i \in DOMAIN s : s[i] # NULL
  BY <1>2, QueueAssumption
<1>4. s # <<>> => 1 \in DOMAIN s /\ Len(s) \in DOMAIN s /\ Head(s) = s[1]
  BY <1>1, <1>2
<1>5. s = <<>> => 1 \notin DOMAIN s /\ Len(s) \notin DOMAIN s
  BY <1>2
<1> QED
  BY <1>1, <1>2, <1>3, <1>4, <1>5 DEF Place

LEMMA ListPushHead ==
  ASSUME NEW s, NEW n \in [Elem -> Ptr], NEW p \in [Elem -> Ptr], NEW h, NEW t,
         List(s, n, p, h, t), NEW e \in Elem, e \notin Range(s)
  PROVE  List(<<e>> \o s, [n EXCEPT ![e] = h],
              IF h = NULL THEN [p EXCEPT ![e] = NULL] ELSE [p EXCEPT ![e] = NULL, ![h] = e],
              e, IF h = NULL THEN e ELSE t)
<1> DEFINE r == <<e>> \o s
           L == Len(s)
           m == [n EXCEPT ![e] = h]
           q == IF h = NULL THEN [p EXCEPT ![e] = NULL] ELSE [p EXCEPT ![e] = NULL, ![h] = e]
<1>0. /\ s \in Seq(Elem) /\ L \in Nat /\ DOMAIN s = 1 .. L
      /\ h = Place(s, 1) /\ t = Place(s, L)
      /\ \A i, j \in 1 .. L : s[i] = s[j] => i = j
      /\ \A i \in 1 .. L : s[i] \in Elem /\ n[s[i]] = Place(s, i + 1) /\ p[s[i]] = Place(s, i - 1)
      /\ \A i \in 1 .. L : s[i] # NULL /\ s[i] # e
  <2>1. /\ Len(s) \in Nat /\ DOMAIN s = 1 .. Len(s)
        /\ \A i \in DOMAIN s : s[i] \in Elem /\ s[i] # NULL
    BY ListEnds
  <2>2. \A i \in DOMAIN s : s[i] # e
    BY DEF Range
  <2> QED
    BY <2>1, <2>2 DEF List
<1>1. /\ r \in Seq(Elem) /\ Len(r) = L + 1 /\ DOMAIN r = 1 .. L + 1 /\ r[1] = e
      /\ \A i \in 2 .. L + 1 : i - 1 \in 1 .. L /\ r[i] = s[i - 1]
      /\ \A i \in 1 .. L + 1 : i = 1 \/ i \in 2 .. L + 1
  BY <1>0
<1> HIDE DEF r, L
<1>2. \A i, j \in 1 .. L + 1 : r[i] = r[j] => i = j
  <2> SUFFICES ASSUME NEW i \in 1 .. L + 1, NEW j \in 1 .. L + 1, r[i] = r[j] PROVE i = j
    OBVIOUS
  <2>1. CASE i \in 2 .. L + 1 /\ j \in 2 .. L + 1
    <3>1. i - 1 = j - 1
      BY <1>0, <1>1, <2>1
    <3> QED
      BY <1>0, <3>1
  <2>2. CASE i = 1 /\ j \in 2 .. L + 1
    BY <1>0, <1>1, <2>2
  <2>3. CASE j = 1 /\ i \in 2 .. L + 1
    BY <1>0, <1>1, <2>3
  <2> QED
    BY <1>1, <2>1, <2>2, <2>3
<1>3. \A i \in 1 .. L + 1 : Place(r, i + 1) = Place(s, i)
  <2> SUFFICES ASSUME NEW i \in 1 .. L + 1 PROVE Place(r, i + 1) = Place(s, i)
    OBVIOUS
  <2>1. (i + 1 \in 1 .. L + 1 <=> i \in 1 .. L) /\ (i \in 1 .. L => i + 1 \in 2 .. L + 1 /\ (i + 1) - 1 = i)
    BY <1>0
  <2> QED
    BY <1>0, <1>1, <2>1 DEF Place
<1>4. Place(r, 1) = e /\ Place(r, 0) = NULL
  <2>1. 1 \in 1 .. L + 1 /\ 0 \notin 1 .. L + 1
    BY <1>0
  <2> QED
    BY <1>1, <2>1 DEF Place
<1>5. (IF h = NULL THEN e ELSE t) = Place(r, L + 1)
  <2>1. CASE L = 0
    BY <1>0, <1>4, <2>1 DEF Place
  <2>2. CASE L # 0
    <3>1. 1 \in 1 .. L /\ L \in 1 .. L + 1
      BY <1>0, <2>2
    <3>2. h # NULL
      BY <1>0, <3>1 DEF Place
    <3> QED
      BY <1>0, <1>3, <3>1, <3>2
  <2> QED
    BY <2>1, <2>2
<1>6. m[e] = h /\ q[e] = NULL /\ \A x \in Elem : x # e => m[x] = n[x]
  <2>1. h = NULL \/ (h \in Elem /\ h # e)
    BY <1>0 DEF Place
  <2> QED
    BY <2>1
<1>7. \A x \in Elem : x # e => q[x] = IF x = h THEN e ELSE p[x]
  <2>1. NULL \notin Elem
    BY QueueAssumption
  <2> QED
    BY <2>1
<1> HIDE DEF m, q
<1>8. ASSUME NEW i \in 1 .. L + 1 PROVE m[r[i]] = Place(r, i + 1) /\ q[r[i]] = Place(r, i - 1)
  <2>1. CASE i = 1
    BY <1>0, <1>1, <1>3, <1>4, <1>6, <2>1
  <2>2. CASE i \in 2 .. L + 1
    <3> DEFINE j == i - 1
    <3>1. j \in 1 .. L /\ r[i] = s[j] /\ j + 1 = i /\ j \in 1 .. L + 1
      BY <1>0, <1>1, <2>2
    <3> HIDE DEF j
    <3>2. m[r[i]] = Place(s, i) /\ Place(r, i + 1) = Place(s, i)
      BY <1>0, <1>3, <1>6, <3>1
    <3>3. q[r[i]] = Place(r, j)
      <4>1. CASE j = 1
        BY <1>0, <1>4, <1>7, <3>1, <4>1 DEF Place
      <4>2. CASE j # 1
        <5>1. 1 \in 1 .. L /\ s[j] # s[1] /\ h = s[1]
          BY <1>0, <3>1, <4>2 DEF Place
        <5>2. q[r[i]] = Place(s, j - 1)
          BY <1>0, <1>7, <3>1, <5>1
        <5>3. j - 1 \in 1 .. L + 1 /\ (j - 1) + 1 = j
          BY <1>0, <3>1, <4>2
        <5> QED
          BY <1>3, <5>2, <5>3
      <4> QED
        BY <4>1, <4>2
    <3> QED
      BY <3>2, <3>3 DEF j
  <2> QED
    BY <1>1, <2>1, <2>2
<1>9. List(r, m, q, e, IF h = NULL THEN e ELSE t)
  BY <1>1, <1>2, <1>4, <1>5, <1>8 DEF List
<1> QED
  BY <1>9 DEF r, m, q

LEMMA ListPushTail ==
  ASSUME NEW s, NEW n \in [Elem -> Ptr], NEW p \in [Elem -> Ptr], NEW h, NEW t,
         List(s, n, p, h, t), NEW e \in Elem, e \notin Range(s)
  PROVE  List(Append(s, e),
              IF t = NULL THEN [n EXCEPT ![e] = NULL] ELSE [n EXCEPT ![e] = NULL, ![t] = e],
              [p EXCEPT ![e] = t], IF t = NULL THEN e ELSE h, e)
<1> DEFINE r == Append(s, e)
           L == Len(s)
           m == IF t = NULL THEN [n EXCEPT ![e] = NULL] ELSE [n EXCEPT ![e] = NULL, ![t] = e]
           q == [p EXCEPT ![e] = t]
<1>0. /\ s \in Seq(Elem) /\ L \in Nat /\ DOMAIN s = 1 .. L
      /\ h = Place(s, 1) /\ t = Place(s, L)
      /\ \A i, j \in 1 .. L : s[i] = s[j] => i = j
      /\ \A i \in 1 .. L : s[i] \in Elem /\ n[s[i]] = Place(s, i + 1) /\ p[s[i]] = Place(s, i - 1)
      /\ \A i \in 1 .. L : s[i] # NULL /\ s[i] # e
  <2>1. /\ Len(s) \in Nat /\ DOMAIN s = 1 .. Len(s)
        /\ \A i \in DOMAIN s : s[i] \in Elem /\ s[i] # NULL
    BY ListEnds
  <2>2. \A i \in DOMAIN s : s[i] # e
    BY DEF Range
  <2> QED
    BY <2>1, <2>2 DEF List
<1>1. /\ r \in Seq(Elem) /\ Len(r) = L + 1 /\ DOMAIN r = 1 .. L + 1 /\ r[L + 1] = e
      /\ \A i \in 1 .. L : i \in 1 .. L + 1 /\ i # L + 1 /\ r[i] = s[i]
      /\ \A i \in 1 .. L + 1 : i = L + 1 \/ i \in 1 .. L
      /\ L + 1 \in 1 .. L + 1 /\ (L # 0 => L \in 1 .. L)
  BY <1>0
<1> HIDE DEF r, L
<1>2. \A i, j \in 1 .. L + 1 : r[i] = r[j] => i = j
  <2> SUFFICES ASSUME NEW i \in 1 .. L + 1, NEW j \in 1 .. L + 1, r[i] = r[j] PROVE i = j
    OBVIOUS
  <2>1. CASE i \in 1 .. L /\ j \in 1 .. L
    BY <1>0, <1>1, <2>1
  <2>2. CASE i = L + 1 /\ j \in 1 .. L
    BY <1>0, <1>1, <2>2
  <2>3. CASE j = L + 1 /\ i \in 1 .. L
    BY <1>0, <1>1, <2>3
  <2> QED
    BY <1>1, <2>1, <2>2, <2>3
<1>3. \A i \in Int : i # L + 1 => Place(r, i) = Place(s, i)
  BY <1>0, <1>1 DEF Place
<1>4. Place(r, L + 1) = e /\ Place(r, L + 2) = NULL /\ Place(r, 0) = NULL /\ Place(s, 0) = NULL
  <2>1. L + 2 \notin 1 .. L + 1 /\ 0 \notin 1 .. L + 1 /\ 0 \notin 1 .. L
    BY <1>0
  <2> QED
    BY <1>0, <1>1, <2>1 DEF Place
<1>5. (IF t = NULL THEN e ELSE h) = Place(r, 1)
  <2>1. CASE L = 0
    BY <1>0, <1>4, <2>1
  <2>2. CASE L # 0
    <3>1. t # NULL /\ 1 # L + 1
      BY <1>0, <1>1, <2>2 DEF Place
    <3> QED
      BY <1>0, <1>3, <3>1
  <2> QED
    BY <2>1, <2>2
<1>6. m[e] = NULL /\ q[e] = t /\ \A x \in Elem : x # e => q[x] = p[x]
  <2>1. t = NULL \/ (t \in Elem /\ t # e)
    BY <1>0 DEF Place
  <2> QED
    BY <2>1
<1>7. \A x \in Elem : x # e => m[x] = IF x = t THEN e ELSE n[x]
  <2>1. NULL \notin Elem
    BY QueueAssumption
  <2> QED
    BY <2>1
<1> HIDE DEF m, q
<1>8. ASSUME NEW i \in 1 .. L + 1 PROVE m[r[i]] = Place(r, i + 1) /\ q[r[i]] = Place(r, i - 1)
  <2>1. CASE i = L + 1
    <3>1. i + 1 = L + 2 /\ i - 1 = L /\ L \in Int /\ L # L + 1
      BY <1>0, <2>1
    <3> QED
      BY <1>0, <1>1, <1>3, <1>4, <1>6, <2>1, <3>1
  <2>2. CASE i \in 1 .. L
    <3>1. r[i] = s[i] /\ s[i] \in Elem /\ s[i] # e /\ i - 1 \in Int /\ i - 1 # L + 1
      BY <1>0, <1>1, <2>2
    <3>2. q[r[i]] = Place(r, i - 1)
      BY <1>0, <1>3, <1>6, <2>2, <3>1
    <3>3. m[r[i]] = Place(r, i + 1)
      <4>1. CASE i = L
        BY <1>0, <1>4, <1>7, <2>2, <3>1, <4>1 DEF Place
      <4>2. CASE i # L
        <5>1. L \in 1 .. L /\ s[i] # s[L] /\ t = s[L]
          BY <1>0, <2>2, <4>2 DEF Place
        <5>2. m[r[i]] = Place(s, i + 1)
          BY <1>0, <1>7, <2>2, <3>1, <5>1
        <5>3. i + 1 \in Int /\ i + 1 # L + 1
          BY <1>0, <2>2, <4>2
        <5> QED
          BY <1>3, <5>2, <5>3
      <4> QED
        BY <4>1, <4>2
    <3> QED
      BY <3>2, <3>3
  <2> QED
    BY <1>1, <2>1, <2>2
<1>9. List(r, m, q, IF t = NULL THEN e ELSE h, e)
  BY <1>1, <1>2, <1>4, <1>5, <1>8 DEF List
<1> QED
  BY <1>9 DEF r, m, q

LEMMA ListPopHead ==
  ASSUME NEW s, NEW n \in [Elem -> Ptr], NEW p \in [Elem -> Ptr], NEW h, NEW t,
         List(s, n, p, h, t), h # NULL
  PROVE  /\ List(Tail(s), n, IF n[h] = NULL THEN p ELSE [p EXCEPT ![n[h]] = NULL],
                 n[h], IF n[h] = NULL THEN NULL ELSE t)
         /\ h \notin Range(Tail(s)) /\ Range(Tail(s)) \subseteq Range(s) /\ h \in Range(s)
<1> DEFINE r == Tail(s)
           L == Len(s)
           q == IF n[h] = NULL THEN p ELSE [p EXCEPT ![n[h]] = NULL]
<1>0. /\ s \in Seq(Elem) /\ L \in Nat /\ L > 0 /\ DOMAIN s = 1 .. L /\ s # <<>>
      /\ h = Place(s, 1) /\ t = Place(s, L)
      /\ \A i, j \in 1 .. L : s[i] = s[j] => i = j
      /\ \A i \in 1 .. L : s[i] \in Elem /\ n[s[i]] = Place(s, i + 1) /\ p[s[i]] = Place(s, i - 1)
      /\ \A i \in 1 .. L : s[i] # NULL
  <2>1. /\ Len(s) \in Nat /\ DOMAIN s = 1 .. Len(s) /\ s # <<>> /\ Len(s) > 0
        /\ \A i \in DOMAIN s : s[i] \in Elem /\ s[i] # NULL
    BY ListEnds
  <2> QED
    BY <2>1 DEF List
<1>1. /\ r \in Seq(Elem) /\ Len(r) = L - 1 /\ DOMAIN r = 1 .. L - 1
      /\ \A i \in 1 .. L - 1 : i + 1 \in 1 .. L /\ r[i] = s[i + 1]
      /\ 1 \in 1 .. L /\ L \in 1 .. L
  BY <1>0
<1> HIDE DEF r, L
<1>2. \A i, j \in 1 .. L - 1 : r[i] = r[j] => i = j
  <2> SUFFICES ASSUME NEW i \in 1 .. L - 1, NEW j \in 1 .. L - 1, r[i] = r[j] PROVE i = j
    OBVIOUS
  <2>1. i + 1 = j + 1
    BY <1>0, <1>1
  <2> QED
    BY <1>0, <2>1
<1>3. \A i \in Nat \ {0} : Place(r, i) = Place(s, i + 1)
  <2> SUFFICES ASSUME NEW i \in Nat \ {0} PROVE Place(r, i) = Place(s, i + 1)
    OBVIOUS
  <2>1. i \in 1 .. L - 1 <=> i + 1 \in 1 .. L
    BY <1>0
  <2> QED
    BY <1>0, <1>1, <2>1 DEF Place
<1>4. h = s[1] /\ n[h] = Place(s, 2) /\ n[h] = Place(r, 1)
  <2>1. h = s[1] /\ 1 + 1 = 2 /\ 1 \in Nat \ {0}
    BY <1>0, <1>1 DEF Place
  <2> QED
    BY <1>0, <1>1, <1>3, <2>1
<1>5. n[h] = NULL <=> L = 1
  <2>1. 2 \in 1 .. L <=> L # 1
    BY <1>0
  <2> QED
    BY <1>0, <1>4, <2>1 DEF Place
<1>6. (IF n[h] = NULL THEN NULL ELSE t) = Place(r, L - 1)
  <2>1. CASE L = 1
    <3>1. 0 \notin 1 .. 0 /\ L - 1 = 0
      BY <2>1
    <3> QED
      BY <1>1, <1>5, <2>1, <3>1 DEF Place
  <2>2. CASE L # 1
    <3>1. L - 1 \in Nat \ {0} /\ (L - 1) + 1 = L
      BY <1>0, <2>2
    <3> QED
      BY <1>0, <1>3, <1>5, <2>2, <3>1
  <2> QED
    BY <2>1, <2>2
<1>7. \A x \in Elem : q[x] = IF x = n[h] THEN NULL ELSE p[x]
  <2>1. NULL \notin Elem
    BY QueueAssumption
  <2> QED
    BY <2>1
<1> HIDE DEF q
<1>8. ASSUME NEW i \in 1 .. L - 1 PROVE n[r[i]] = Place(r, i + 1) /\ q[r[i]] = Place(r, i - 1)
  <2>1. /\ i + 1 \in 1 .. L /\ r[i] = s[i + 1] /\ i + 1 \in Nat \ {0} /\ s[i + 1] \in Elem
        /\ (i + 1) - 1 = i /\ i \in 1 .. L
    BY <1>0, <1>1
  <2>2. n[r[i]] = Place(r, i + 1)
    BY <1>0, <1>3, <2>1
  <2>3. CASE i = 1
    <3>1. n[h] = s[2] /\ r[i] = s[2]
      BY <1>0, <1>4, <2>1, <2>3 DEF Place
    <3>2. Place(r, 0) = NULL
      <4>1. 0 \notin 1 .. L - 1
        OBVIOUS
      <4> QED
        BY <1>1, <4>1 DEF Place
    <3> QED
      BY <1>7, <2>1, <2>2, <2>3, <3>1, <3>2
  <2>4. CASE i # 1
    <3>1. /\ 2 \in 1 .. L /\ i + 1 # 2 /\ n[h] = s[2] /\ i - 1 \in Nat \ {0} /\ (i - 1) + 1 = i
      BY <1>0, <1>4, <2>1, <2>4 DEF Place
    <3>2. r[i] # n[h]
      BY <1>0, <2>1, <3>1
    <3>3. q[r[i]] = Place(s, i)
      BY <1>0, <1>7, <2>1, <3>2
    <3> QED
      BY <1>3, <2>2, <3>1, <3>3
  <2> QED
    BY <2>3, <2>4
<1>9. List(r, n, q, n[h], IF n[h] = NULL THEN NULL ELSE t)
  BY <1>1, <1>2, <1>4, <1>6, <1>8 DEF List
<1>10. h \notin Range(r) /\ Range(r) \subseteq Range(s) /\ h \in Range(s)
  <2>1. ASSUME NEW i \in 1 .. L - 1 PROVE r[i] # h /\ r[i] \in Range(s)
    <3>1. i + 1 # 1 /\ i + 1 \in 1 .. L /\ r[i] = s[i + 1]
      BY <1>0, <1>1
    <3> QED
      BY <1>0, <1>1, <1>4, <3>1 DEF Range
  <2>2. h \in Range(s)
    BY <1>0, <1>1, <1>4 DEF Range
  <2>3. \A x \in Range(r) : \E i \in 1 .. L - 1 : x = r[i]
    BY <1>1 DEF Range
  <2> QED
    BY <2>1, <2>2, <2>3
<1> QED
  BY <1>9, <1>10 DEF r, q

----------------------------------------------------------------------------
(* The queue is such a list.                                               *)

\* The pointers link the queue, and what a thread is about to add is not in
\* it, nor about to be added by another.
ListInv ==
  /\ List(Forward, next, prev, head, tail)
  /\ \A t \in Thread : op[t] \in {"idle", "dequeue"} => item[t] = NULL
  /\ \A t \in Thread : op[t] \in {"enqueue_head", "enqueue_tail"} => item[t] \notin Range(Forward)
  /\ \A t, u \in Thread :
       /\ op[t] \in {"enqueue_head", "enqueue_tail"}
       /\ op[u] \in {"enqueue_head", "enqueue_tail"}
       /\ item[t] = item[u]
       => t = u

LEMMA ListInit == Init => ListInv /\ Forward = <<>>
<1> SUFFICES ASSUME Init PROVE ListInv /\ Forward = <<>>
  OBVIOUS
<1>1. List(<<>>, next, prev, head, tail)
  BY DEF Init, List, Place
<1>2. Forward = <<>>
  BY <1>1, ListReads DEF Forward
<1>3. Range(Forward) = {}
  BY <1>2 DEF Range
<1> QED
  BY <1>1, <1>2, <1>3 DEF Init, ListInv

\* The other threads go on as before, and the list is left alone.
LEMMA ListAlone ==
  ASSUME ListInv, UNCHANGED <<head, tail, next, prev>>,
         \A t \in Thread : op'[t] \in {"idle", "dequeue"} => item'[t] = NULL,
         \A t \in Thread : op'[t] \in {"enqueue_head", "enqueue_tail"} => item'[t] \notin Range(Forward),
         \A t, u \in Thread :
           /\ op'[t] \in {"enqueue_head", "enqueue_tail"}
           /\ op'[u] \in {"enqueue_head", "enqueue_tail"}
           /\ item'[t] = item'[u]
           => t = u
  PROVE  ListInv' /\ Forward' = Forward
<1>1. Forward' = Forward
  BY DEF Forward
<1>2. List(Forward, next, prev, head, tail)'
  BY <1>1 DEF ListInv, List
<1> QED
  BY <1>1, <1>2 DEF ListInv

LEMMA CallEnqueueList ==
  ASSUME QueueInv, ListInv, NEW t \in Thread, NEW e \in Elem,
         NEW which \in {"enqueue_head", "enqueue_tail"}, CallEnqueue(t, which, e)
  PROVE  ListInv' /\ Forward' = Forward
<1>1. /\ op' = [op EXCEPT ![t] = which] /\ item' = [item EXCEPT ![t] = e]
      /\ op \in [Thread -> Op] /\ item \in [Thread -> Ptr]
      /\ UNCHANGED <<head, tail, next, prev>>
      /\ e \notin Range(Forward)
  BY DEF CallEnqueue, Unused, QueueInv, TypeOK
<1>2. \A u \in Thread : item[u] # e
  BY <1>1 DEF CallEnqueue, Unused, Range
<1>3. /\ op'[t] = which /\ item'[t] = e
      /\ \A u \in Thread : u # t => op'[u] = op[u] /\ item'[u] = item[u]
  BY <1>1
<1> QED
  BY <1>1, <1>2, <1>3, ListAlone DEF ListInv

LEMMA CallDequeueList ==
  ASSUME QueueInv, ListInv, NEW t \in Thread, CallDequeue(t)
  PROVE  ListInv' /\ Forward' = Forward /\ item' = [item EXCEPT ![t] = NULL]
<1>1. /\ op' = [op EXCEPT ![t] = "dequeue"] /\ item' = item /\ op[t] = "idle"
      /\ op \in [Thread -> Op] /\ item \in [Thread -> Ptr]
      /\ UNCHANGED <<head, tail, next, prev>>
  BY DEF CallDequeue, QueueInv, TypeOK
<1>2. item[t] = NULL
  BY <1>1 DEF ListInv
<1>3. op'[t] = "dequeue" /\ \A u \in Thread : u # t => op'[u] = op[u]
  BY <1>1
<1>4. ListInv' /\ Forward' = Forward
  BY <1>1, <1>2, <1>3, ListAlone DEF ListInv
<1> QED
  BY <1>1, <1>2, <1>4

LEMMA ReleaseList ==
  ASSUME QueueInv, ListInv, NEW t \in Thread, Release(t)
  PROVE  ListInv' /\ Forward' = Forward
<1>1. /\ op' = [op EXCEPT ![t] = "idle"] /\ item' = [item EXCEPT ![t] = NULL]
      /\ op \in [Thread -> Op] /\ item \in [Thread -> Ptr]
      /\ UNCHANGED <<head, tail, next, prev>>
  BY DEF Release, QueueInv, TypeOK
<1>2. /\ op'[t] = "idle" /\ item'[t] = NULL
      /\ \A u \in Thread : u # t => op'[u] = op[u] /\ item'[u] = item[u]
  BY <1>1
<1> QED
  BY <1>1, <1>2, ListAlone DEF ListInv

\* A thread has changed the list and is done with it.
LEMMA ListChanged ==
  ASSUME QueueInv, ListInv, NEW t \in Thread, op' = [op EXCEPT ![t] = "done"],
         \A u \in Thread : u # t => item'[u] = item[u],
         List(Forward', next', prev', head', tail'),
         \A u \in Thread : u # t /\ op[u] \in {"enqueue_head", "enqueue_tail"} =>
                             item[u] \notin Range(Forward')
  PROVE  ListInv'
<1>1. op'[t] = "done" /\ \A u \in Thread : u # t => op'[u] = op[u]
  BY DEF QueueInv, TypeOK
<1> QED
  BY <1>1 DEF ListInv

LEMMA EnqueueHeadList ==
  ASSUME QueueInv, ListInv, NEW t \in Thread, EnqueueHead(t)
  PROVE  ListInv' /\ Forward' = <<item[t]>> \o Forward
<1> DEFINE e == item[t]
           s == Forward
           r == <<e>> \o s
<1>1. /\ op[t] = "enqueue_head" /\ e \in Elem /\ e \notin Range(s)
      /\ List(s, next, prev, head, tail)
      /\ next \in [Elem -> Ptr] /\ prev \in [Elem -> Ptr]
  BY DEF EnqueueHead, Inside, QueueInv, TypeOK, Discipline, ListInv
<1>2. /\ next' = [next EXCEPT ![e] = head] /\ head' = e
      /\ prev' = IF head = NULL THEN [prev EXCEPT ![e] = NULL] ELSE [prev EXCEPT ![e] = NULL, ![head] = e]
      /\ tail' = IF head = NULL THEN e ELSE tail
      /\ op' = [op EXCEPT ![t] = "done"] /\ item' = item
  BY DEF EnqueueHead, Inside, BackLink
<1>3. List(r, next', prev', head', tail')
  <2> HIDE DEF e, s, r
  <2> QED
    BY <1>1, <1>2, ListPushHead DEF r
<1>4. Forward' = r
  BY <1>3, ListReads DEF Forward
<1>5. Range(r) = Range(s) \cup {e}
  <2>1. s \in Seq(Elem)
    BY <1>1 DEF List
  <2> HIDE DEF e, s
  <2>2. /\ DOMAIN r = 1 .. Len(s) + 1 /\ DOMAIN s = 1 .. Len(s) /\ Len(s) \in Nat /\ r[1] = e
        /\ \A i \in 1 .. Len(s) : i + 1 \in 1 .. Len(s) + 1 /\ r[i + 1] = s[i]
        /\ \A i \in 1 .. Len(s) + 1 : i = 1 \/ (i - 1 \in 1 .. Len(s) /\ r[i] = s[i - 1])
    BY <1>1, <2>1
  <2> HIDE DEF r
  <2>3. \A x \in Range(r) : x = e \/ x \in Range(s)
    BY <2>2 DEF Range
  <2>4. 1 \in DOMAIN r
    BY <2>2
  <2>5. e \in Range(r)
    BY <2>2, <2>4 DEF Range
  <2>6. \A x \in Range(s) : x \in Range(r)
    BY <2>2 DEF Range
  <2> QED
    BY <2>3, <2>5, <2>6
<1>6. \A u \in Thread : u # t /\ op[u] \in {"enqueue_head", "enqueue_tail"} => item[u] \notin Range(r)
  BY <1>1, <1>5 DEF ListInv
<1> HIDE DEF r
<1>7. ListInv'
  BY <1>2, <1>3, <1>4, <1>6, ListChanged
<1> QED
  BY <1>4, <1>7 DEF r

LEMMA EnqueueTailList ==
  ASSUME QueueInv, ListInv, NEW t \in Thread, EnqueueTail(t)
  PROVE  ListInv' /\ Forward' = Append(Forward, item[t])
<1> DEFINE e == item[t]
           s == Forward
           r == Append(s, e)
<1>1. /\ op[t] = "enqueue_tail" /\ e \in Elem /\ e \notin Range(s)
      /\ List(s, next, prev, head, tail)
      /\ next \in [Elem -> Ptr] /\ prev \in [Elem -> Ptr]
  BY DEF EnqueueTail, Inside, QueueInv, TypeOK, Discipline, ListInv
<1>2. /\ next' = IF tail = NULL THEN [next EXCEPT ![e] = NULL] ELSE [next EXCEPT ![e] = NULL, ![tail] = e]
      /\ prev' = [prev EXCEPT ![e] = tail] /\ tail' = e
      /\ head' = IF tail = NULL THEN e ELSE head
      /\ op' = [op EXCEPT ![t] = "done"] /\ item' = item
  BY DEF EnqueueTail, Inside, HeadAfterTail
<1>3. List(r, next', prev', head', tail')
  <2> HIDE DEF e, s, r
  <2> QED
    BY <1>1, <1>2, ListPushTail DEF r
<1>4. Forward' = r
  BY <1>3, ListReads DEF Forward
<1>5. \A x \in Range(r) : x = e \/ x \in Range(s)
  <2>1. s \in Seq(Elem)
    BY <1>1 DEF List
  <2> HIDE DEF e, s
  <2>2. /\ DOMAIN r = 1 .. Len(s) + 1 /\ DOMAIN s = 1 .. Len(s) /\ Len(s) \in Nat
        /\ r[Len(s) + 1] = e
        /\ \A i \in 1 .. Len(s) + 1 : i = Len(s) + 1 \/ (i \in 1 .. Len(s) /\ r[i] = s[i])
    BY <1>1, <2>1
  <2> HIDE DEF r
  <2> QED
    BY <2>2 DEF Range
<1>6. \A u \in Thread : u # t /\ op[u] \in {"enqueue_head", "enqueue_tail"} => item[u] \notin Range(r)
  BY <1>1, <1>5 DEF ListInv
<1> HIDE DEF r
<1>7. ListInv'
  BY <1>2, <1>3, <1>4, <1>6, ListChanged
<1> QED
  BY <1>4, <1>7 DEF r

\* A dequeue that finds the queue empty inside the lock returns NULL.
LEMMA DequeueEmptyList ==
  ASSUME QueueInv, ListInv, NEW t \in Thread, Dequeue(t), head = NULL
  PROVE  ListInv' /\ Forward = <<>> /\ Forward' = Forward /\ item' = [item EXCEPT ![t] = NULL]
<1>1. /\ UNCHANGED <<head, tail, next, prev>> /\ op' = [op EXCEPT ![t] = "done"]
      /\ item' = [item EXCEPT ![t] = NULL] /\ item \in [Thread -> Ptr]
      /\ List(Forward, next, prev, head, tail)
  BY DEF Dequeue, Inside, QueueInv, TypeOK, ListInv
<1>2. Forward' = Forward
  BY <1>1 DEF Forward
<1>3. List(Forward', next', prev', head', tail')
  BY <1>1, <1>2 DEF List
<1>4. \A u \in Thread : u # t => item'[u] = item[u]
  BY <1>1
<1>5. Forward = <<>>
  BY <1>1, ListEnds
<1>6. \A u \in Thread : u # t /\ op[u] \in {"enqueue_head", "enqueue_tail"} => item[u] \notin Range(Forward')
  BY <1>2 DEF ListInv
<1>7. ListInv'
  BY <1>1, <1>3, <1>4, <1>6, ListChanged
<1> QED
  BY <1>1, <1>2, <1>5, <1>7

LEMMA DequeueList ==
  ASSUME QueueInv, ListInv, NEW t \in Thread, Dequeue(t), head # NULL
  PROVE  /\ ListInv' /\ Forward # <<>> /\ Forward' = Tail(Forward)
         /\ item' = [item EXCEPT ![t] = Head(Forward)]
<1> DEFINE s == Forward
           r == Tail(s)
<1>1. /\ List(s, next, prev, head, tail) /\ next \in [Elem -> Ptr] /\ prev \in [Elem -> Ptr]
      /\ item \in [Thread -> Ptr]
  BY DEF QueueInv, TypeOK, ListInv
<1>2. /\ next' = next /\ head' = next[head]
      /\ prev' = IF next[head] = NULL THEN prev ELSE [prev EXCEPT ![next[head]] = NULL]
      /\ tail' = IF next[head] = NULL THEN NULL ELSE tail
      /\ op' = [op EXCEPT ![t] = "done"] /\ item' = [item EXCEPT ![t] = head]
  BY DEF Dequeue, Inside, TailAfterDequeue
<1>3. s # <<>> /\ head = Head(s)
  BY <1>1, ListEnds
<1> HIDE DEF s
<1>4. List(r, next', prev', head', tail') /\ Range(r) \subseteq Range(s)
  BY <1>1, <1>2, ListPopHead
<1>5. Forward' = r
  <2> HIDE DEF r
  <2> QED
    BY <1>4, ListReads DEF Forward
<1>6. \A u \in Thread : u # t /\ op[u] \in {"enqueue_head", "enqueue_tail"} => item[u] \notin Range(r)
  BY <1>4 DEF ListInv, s
<1>7. \A u \in Thread : u # t => item'[u] = item[u]
  BY <1>1, <1>2
<1> HIDE DEF r
<1>8. ListInv'
  BY <1>2, <1>4, <1>5, <1>6, <1>7, ListChanged
<1> QED
  BY <1>2, <1>3, <1>5, <1>8 DEF r, s

\* Each step keeps the list, and is a step of the deque or none of its.
LEMMA ListStep == QueueInv /\ ListInv /\ [Next]_vars => ListInv' /\ [D!Next]_(D!vars)
<1> SUFFICES ASSUME QueueInv, ListInv, [Next]_vars PROVE ListInv' /\ [D!Next]_(D!vars)
  OBVIOUS
<1>1. ASSUME NEW t \in Thread, NEW e \in Elem,
             NEW which \in {"enqueue_head", "enqueue_tail"}, CallEnqueue(t, which, e)
      PROVE  ListInv' /\ D!Call(t, which, e)
  BY <1>1, CallEnqueueList DEF CallEnqueue, D!Call, D!Moves
<1>2. ASSUME NEW t \in Thread, CallDequeue(t) PROVE ListInv' /\ D!Call(t, "dequeue", NULL)
  BY <1>2, CallDequeueList DEF CallDequeue, D!Call, D!Moves
<1>3. ASSUME NEW t \in Thread, Acquire(t) PROVE ListInv' /\ UNCHANGED D!vars
  <2>1. UNCHANGED <<head, tail, next, prev, op, item>>
    BY <1>3 DEF Acquire
  <2>2. ListInv' /\ Forward' = Forward
    BY <2>1, ListAlone DEF ListInv
  <2> QED
    BY <2>1, <2>2 DEF D!vars
<1>4. ASSUME NEW t \in Thread, EnqueueHead(t) PROVE ListInv' /\ D!PushHead(t)
  BY <1>4, EnqueueHeadList DEF EnqueueHead, Inside, D!PushHead, D!Moves
<1>5. ASSUME NEW t \in Thread, EnqueueTail(t) PROVE ListInv' /\ D!PushTail(t)
  BY <1>5, EnqueueTailList DEF EnqueueTail, Inside, D!PushTail, D!Moves
<1>6. ASSUME NEW t \in Thread, Dequeue(t) PROVE ListInv' /\ D!PopHead(t)
  <2>1. CASE head = NULL
    BY <1>6, <2>1, DequeueEmptyList DEF Dequeue, Inside, D!PopHead, D!Moves
  <2>2. CASE head # NULL
    BY <1>6, <2>2, DequeueList DEF Dequeue, Inside, D!PopHead, D!Moves
  <2> QED
    BY <2>1, <2>2
<1>7. ASSUME NEW t \in Thread, Release(t) PROVE ListInv' /\ D!Return(t)
  BY <1>7, ReleaseList DEF Release, D!Return, D!Moves
<1>8. CASE UNCHANGED vars
  <2>1. UNCHANGED <<head, tail, next, prev, op, item>>
    BY <1>8 DEF vars
  <2>2. ListInv' /\ Forward' = Forward
    BY <2>1, ListAlone DEF ListInv
  <2> QED
    BY <2>1, <2>2 DEF D!vars
<1> QED
  BY <1>1, <1>2, <1>3, <1>4, <1>5, <1>6, <1>7, <1>8 DEF Next, Step, D!Next

LEMMA ListImpliesWellLinked == ListInv => WellLinked
BY ListReads DEF ListInv, WellLinked, Forward, Backward

\* Read backwards the queue is what it is forwards, reversed, for any number
\* of descriptors and threads and any mix of operations at both ends.
THEOREM AlwaysWellLinked == Spec => []WellLinked
BY QueueInit, QueueStep, ListInit, ListStep, ListImpliesWellLinked, PTL DEF Spec

\* To the threads that share it the linked list is a deque: each operation
\* takes effect once, at one moment, whatever its caller saw of head before
\* it had the lock.
THEOREM QueueImplementsDeque == Spec => ImplementsDeque
<1>1. Init => D!Init
  BY ListInit DEF Init, D!Init
<1> QED
  BY <1>1, QueueInit, QueueStep, ListInit, ListStep, PTL DEF Spec, ImplementsDeque, D!Spec

=============================================================================
