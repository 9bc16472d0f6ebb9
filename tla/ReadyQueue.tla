----------------------------- MODULE ReadyQueue -----------------------------
(***************************************************************************)
(* One queue of descriptors as queues.h builds it: a doubly linked list    *)
(* threaded through the descriptors' prev and next fields, a lock, and a   *)
(* look at the head pointer before the lock is taken.  The private queue,  *)
(* each public queue and the reuse queue are such lists; the threads are   *)
(* the workers and the server thread of a node.                            *)
(*                                                                         *)
(* The lines between lock and unlock are one step (only head is read by    *)
(* another thread meanwhile, and each of the macros writes it once);       *)
(* taking and giving back the lock are steps of their own.                 *)
(***************************************************************************)
EXTENDS Integers, SequencesExt

CONSTANTS
  Elem,    \* descriptors
  Thread,  \* threads of the node
  NULL     \* the null pointer, and no thread

ASSUME QueueAssumption == IsFiniteSet(Elem) /\ NULL \notin Elem \cup Thread

Ptr == Elem \cup {NULL}
Op  == {"idle", "enqueue_head", "enqueue_tail", "dequeue", "done"}

VARIABLES
  head, tail,   \* of the queue
  next, prev,   \* of each descriptor
  lock,         \* the thread inside the critical section
  op,           \* what each thread does with the queue
  item          \* the descriptor it enqueues or has dequeued

vars == <<head, tail, next, prev, lock, op, item>>

Init ==
  /\ head = NULL /\ tail = NULL
  /\ next \in [Elem -> {NULL}]
  /\ prev \in [Elem -> {NULL}]
  /\ lock = NULL
  /\ op = [t \in Thread |-> "idle"]
  /\ item = [t \in Thread |-> NULL]

----------------------------------------------------------------------------
(* The list, read along its pointers.                                      *)

\* What following p from e gives, up to a null pointer; a circular list gives
\* more elements than there are descriptors.
Chain(p, e) ==
  LET walk[k \in 0 .. Cardinality(Elem) + 1] ==
        IF k = 0 THEN <<>>
        ELSE LET x == IF walk[k - 1] = <<>> THEN e ELSE p[Last(walk[k - 1])]
             IN  IF x = NULL THEN walk[k - 1] ELSE Append(walk[k - 1], x)
  IN  walk[Cardinality(Elem) + 1]

Forward  == Chain(next, head)
Backward == Chain(prev, tail)

\* Descriptors nobody uses for the moment.
Unused(e) == e \notin Range(Forward) /\ e \notin Range(item)

----------------------------------------------------------------------------
CallEnqueue(t, which, e) ==
  /\ op[t] = "idle"
  /\ Unused(e)
  /\ op' = [op EXCEPT ![t] = which]
  /\ item' = [item EXCEPT ![t] = e]
  /\ UNCHANGED <<head, tail, next, prev, lock>>

\* _dequeue looks at head without the lock; when it is NULL the caller gets
\* NULL and the queue is left alone.
CallDequeue(t) ==
  /\ op[t] = "idle"
  /\ head # NULL
  /\ op' = [op EXCEPT ![t] = "dequeue"]
  /\ UNCHANGED <<head, tail, next, prev, lock, item>>

Acquire(t) ==
  /\ op[t] \in {"enqueue_head", "enqueue_tail", "dequeue"}
  /\ lock = NULL
  /\ lock' = t
  /\ UNCHANGED <<head, tail, next, prev, op, item>>

Inside(t, which) == lock = t /\ op[t] = which /\ op' = [op EXCEPT ![t] = "done"]

\* The old head's back pointer to the new head e.
BackLink(e) ==
  [prev EXCEPT ![e] = NULL, ![head] = e]

EnqueueHead(t) ==
  LET e == item[t]
  IN  /\ Inside(t, "enqueue_head")
      /\ next' = [next EXCEPT ![e] = head]
      /\ head' = e
      /\ IF head = NULL
           THEN tail' = e /\ prev' = [prev EXCEPT ![e] = NULL]
           ELSE prev' = BackLink(e) /\ UNCHANGED tail
      /\ UNCHANGED <<lock, item>>

\* Variant of HeadAfterTail: the list has a tail and no head.
HeadForgotten(e) == head

\* The head once e has been added at the tail.
HeadAfterTail(e) == IF tail = NULL THEN e ELSE head

EnqueueTail(t) ==
  LET e == item[t]
  IN  /\ Inside(t, "enqueue_tail")
      /\ prev' = [prev EXCEPT ![e] = tail]
      /\ head' = HeadAfterTail(e)
      /\ tail' = e
      /\ next' = IF tail = NULL THEN [next EXCEPT ![e] = NULL]
                                ELSE [next EXCEPT ![e] = NULL, ![tail] = e]
      /\ UNCHANGED <<lock, item>>

\* Variant of TailAfterDequeue: the tail outlives the last descriptor.
TailForgotten(new) == tail

\* The tail once the head is new.
TailAfterDequeue(new) == IF new = NULL THEN NULL ELSE tail

\* The descriptor a dequeue inside the lock returns: head is read again,
\* another thread may have emptied the queue since the first look.
Dequeue(t) ==
  /\ Inside(t, "dequeue")
  /\ item' = [item EXCEPT ![t] = head]
  /\ IF head = NULL
       THEN UNCHANGED <<head, tail, prev>>
       ELSE /\ head' = next[head]
            /\ tail' = TailAfterDequeue(next[head])
            /\ prev' = IF next[head] = NULL THEN prev
                                            ELSE [prev EXCEPT ![next[head]] = NULL]
  /\ UNCHANGED <<next, lock>>

\* The lock is given back and the caller has its result.
Release(t) ==
  /\ lock = t /\ op[t] = "done"
  /\ lock' = NULL
  /\ op' = [op EXCEPT ![t] = "idle"]
  /\ item' = [item EXCEPT ![t] = NULL]
  /\ UNCHANGED <<head, tail, next, prev>>

Step(t) == Acquire(t) \/ EnqueueHead(t) \/ EnqueueTail(t) \/ Dequeue(t) \/ Release(t)

Next ==
  \E t \in Thread :
    \/ \E e \in Elem, which \in {"enqueue_head", "enqueue_tail"} : CallEnqueue(t, which, e)
    \/ CallDequeue(t)
    \/ Step(t)

Spec == Init /\ [][Next]_vars

----------------------------------------------------------------------------
(* Properties.                                                             *)

\* Every component has its type.
TypeOK ==
  /\ {head, tail} \subseteq Ptr
  /\ next \in [Elem -> Ptr] /\ prev \in [Elem -> Ptr]
  /\ lock \in Thread \cup {NULL}
  /\ op \in [Thread -> Op]
  /\ item \in [Thread -> Ptr]

\* The list read backwards from the tail is the list read forwards from the
\* head, reversed: head, tail, next and prev agree after any mix of
\* operations at both ends, from one element to none and back included.
WellLinked == Backward = Reverse(Forward)

\* The list, read forwards, is the abstract deque: every operation of every
\* thread takes effect exactly once, whatever it saw of head before it got
\* the lock, so none loses, repeats or reorders a descriptor.
D == INSTANCE Deque WITH content <- Forward
ImplementsDeque == D!Spec

=============================================================================
