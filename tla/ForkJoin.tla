------------------------------ MODULE ForkJoin ------------------------------
(***************************************************************************)
(* What the library promises an application: nested fork-join parallelism. *)
(* A running task (or the main program, Root) creates tasks; each of them  *)
(* is run once, somewhere; a wait lets its caller go on only when every    *)
(* task it has created is joined.  Nodes, queues, messages and stealing    *)
(* do not appear here: TaskRuntime is shown to implement this module.      *)
(***************************************************************************)
EXTENDS Naturals

CONSTANTS
  Task,  \* the tasks an application may create
  Root,  \* the main program
  NULL   \* the parent of a detached task

Frame == Task \cup {Root}
Phase == {"unborn", "ready", "running", "ended", "joined"}

VARIABLES
  phase,   \* life of each task
  parent,  \* who created it; NULL for a detached or unborn task
  waiting  \* the callers inside a wait

vars == <<phase, parent, waiting>>

Children(f) == {t \in Task : parent[t] = f /\ phase[t] # "unborn"}
AllJoined(f) == \A t \in Children(f) : phase[t] = "joined"
Active(f) == f \notin waiting /\ (f = Root \/ phase[f] = "running")

Init ==
  /\ phase = [t \in Task |-> "unborn"]
  /\ parent = [t \in Task |-> NULL]
  /\ waiting = {}

Moves(t, from, to) == phase[t] = from /\ phase' = [phase EXCEPT ![t] = to]

\* An active task or the main program, f, creates t; its parent p is f, or
\* NULL when it is detached.
Create(f, t, p) ==
  /\ Moves(t, "unborn", "ready")
  /\ Active(f)
  /\ parent' = [parent EXCEPT ![t] = p]
  /\ UNCHANGED waiting

Start(t) == Moves(t, "ready", "running") /\ UNCHANGED <<parent, waiting>>

BeginWait(f) ==
  /\ Active(f)
  /\ waiting' = waiting \cup {f}
  /\ UNCHANGED <<phase, parent>>

\* The promise of a wait.
EndWait(f) ==
  /\ f \in waiting
  /\ AllJoined(f)
  /\ waiting' = waiting \ {f}
  /\ UNCHANGED <<phase, parent>>

\* A task ends when its body returns and everything below it is joined.
End(t) ==
  /\ Moves(t, "running", "ended")
  /\ Active(t)
  /\ AllJoined(t)
  /\ UNCHANGED <<parent, waiting>>

\* The parent learns of it.
Join(t) == Moves(t, "ended", "joined") /\ UNCHANGED <<parent, waiting>>

Next ==
  \/ \E t \in Task : \/ Start(t) \/ End(t) \/ Join(t)
                    \/ \E f \in Frame : \E p \in {f, NULL} : Create(f, t, p)
  \/ \E f \in Frame : BeginWait(f) \/ EndWait(f)

Spec == Init /\ [][Next]_vars

=============================================================================
