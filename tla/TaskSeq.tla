------------------------------ MODULE TaskSeq ------------------------------
(***************************************************************************)
(* The sequence view of the Tasklist type (task.h:40, task.c:385-410): a   *)
(* doubly linked list of tasks is the sequence of its tasks, head first.   *)
(* Module Tasklist shows that the pointer code implements these operators  *)
(* as long as a task is on at most one list, all lists sharing the single  *)
(* next/prev pair of struct Task.                                          *)
(***************************************************************************)
EXTENDS Integers, SequencesExt

\* Mutant: the task goes in front of l->head.
addtaskHead(l, t) == <<t>> \o l

\* task.c addtask: the task goes behind l->tail.
addtask(l, t) == Append(l, t)

\* Mutant: the task is not unlinked.
deltaskNot(l, t) == l

\* task.c deltask: unlink t, keeping the order of the others.
deltask(l, t) == RemoveFirst(l, t)

\* fd.c taskdelay's inline insertion: in front of the first sleeper whose
\* alarmtime is not below t's, so equal alarms wake in reverse order.
delaytask(l, t, alarm) ==
  LET later == { i \in 1..Len(l) : alarm[l[i]] >= alarm[t] }
  IN  InsertAt(l, IF later = {} THEN Len(l) + 1 ELSE Min(later), t)

=============================================================================
