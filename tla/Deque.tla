-------------------------------- MODULE Deque --------------------------------
(***************************************************************************)
(* What a queue of descriptors promises to the threads that share it: an   *)
(* operation is called, takes effect on the sequence at one moment, all of *)
(* it, and returns.  ReadyQueue is shown to implement it.                  *)
(***************************************************************************)
EXTENDS Sequences

CONSTANTS Elem, Thread, NULL

VARIABLES
  content,  \* the queue
  op,       \* what each thread is doing: idle, an operation, or done
  item      \* the element it adds, or has got (NULL from an empty queue)

vars == <<content, op, item>>

Init ==
  /\ content = <<>>
  /\ op = [t \in Thread |-> "idle"]
  /\ item = [t \in Thread |-> NULL]

Moves(t, from, to) == op[t] = from /\ op' = [op EXCEPT ![t] = to]

Call(t, which, x) ==
  /\ Moves(t, "idle", which)
  /\ item' = [item EXCEPT ![t] = x]
  /\ UNCHANGED content

PushHead(t) ==
  /\ Moves(t, "enqueue_head", "done")
  /\ content' = <<item[t]>> \o content
  /\ UNCHANGED item

PushTail(t) ==
  /\ Moves(t, "enqueue_tail", "done")
  /\ content' = Append(content, item[t])
  /\ UNCHANGED item

PopHead(t) ==
  /\ Moves(t, "dequeue", "done")
  /\ IF content = <<>>
       THEN item' = [item EXCEPT ![t] = NULL] /\ UNCHANGED content
       ELSE item' = [item EXCEPT ![t] = Head(content)] /\ content' = Tail(content)

Return(t) ==
  /\ Moves(t, "done", "idle")
  /\ item' = [item EXCEPT ![t] = NULL]
  /\ UNCHANGED content

Next ==
  \E t \in Thread :
    \/ \E which \in {"enqueue_head", "enqueue_tail"}, e \in Elem : Call(t, which, e)
    \/ Call(t, "dequeue", NULL)
    \/ PushHead(t) \/ PushTail(t) \/ PopHead(t) \/ Return(t)

Spec == Init /\ [][Next]_vars

=============================================================================
