------------------------------ MODULE Tasklist ------------------------------
(***************************************************************************)
(* The doubly linked lists of task.c at the level of pointers: all lists   *)
(* are threaded through the one next and the one prev field of struct      *)
(* Task, which keep stale values when a task is unlinked.  List stands for *)
(* any Tasklist of the library (taskrunqueue, sleeping, l->waiting ...),   *)
(* SleepList for the one that taskdelay links into by itself.              *)
(***************************************************************************)
EXTENDS Integers, Sequences, SequencesExt

CONSTANTS
  Task, nil, List,
  SleepList,        \* fd.c's list sleeping
  Times             \* alarm times

ASSUME ListAssumption ==
  IsFiniteSet(Task) /\ nil \notin Task /\ SleepList \in List /\ Times \subseteq Nat

VARIABLES
  next, prev,    \* t->next, t->prev
  head, tail,    \* l->head, l->tail
  alarmtime      \* t->alarmtime

vars == <<next, prev, head, tail, alarmtime>>

\* The pointers met from s along the links of succ.
Along(s, succ) ==
  LET at[n \in 1 .. Cardinality(Task) + 1] ==
        IF n = 1 THEN s ELSE IF at[n - 1] = nil THEN nil ELSE succ[at[n - 1]]
  IN  at

\* The tasks among them, in order.
Walk(s, succ) ==
  LET at == Along(s, succ)
  IN  SubSeq(at, 1, Cardinality({ n \in DOMAIN at : at[n] # nil }))

Listed == UNION { ToSet(Walk(head[l], next)) : l \in List }

\* The zeroed lists and tasks (static storage; memset in taskalloc).
Init ==
  /\ next = [t \in Task |-> nil] /\ prev = [t \in Task |-> nil]
  /\ head = [l \in List |-> nil] /\ tail = [l \in List |-> nil]
  /\ alarmtime \in [Task -> Times]

\* p->f = v, if there is such a task p.
set(f, p, v) == IF p = nil THEN f ELSE [f EXCEPT ![p] = v]

addtask(l, t) ==
  /\ t \notin Listed
  /\ next' = [set(next, tail[l], t) EXCEPT ![t] = nil]
  /\ prev' = [prev EXCEPT ![t] = tail[l]]
  /\ head' = IF tail[l] = nil THEN [head EXCEPT ![l] = t] ELSE head
  /\ tail' = [tail EXCEPT ![l] = t]
  /\ UNCHANGED alarmtime

\* Mutant: l->tail is not moved back.
lasttaskStale(l, t) == tail[l]

\* l->tail once t is unlinked.
lasttask(l, t) == IF next[t] = nil THEN prev[t] ELSE tail[l]

\* Called only for a task on the list; t keeps its own two pointers.
deltask(l, t) ==
  /\ t \in ToSet(Walk(head[l], next))
  /\ next' = set(next, prev[t], next[t])
  /\ prev' = set(prev, next[t], prev[t])
  /\ head' = IF prev[t] = nil THEN [head EXCEPT ![l] = next[t]] ELSE head
  /\ tail' = [tail EXCEPT ![l] = lasttask(l, t)]
  /\ UNCHANGED alarmtime

\* taskdelay's insertion: n is the first sleeper that is not due before t.
taskdelay(t, when) ==
  LET due == Walk(head[SleepList], next)
      later == { i \in 1 .. Len(due) : alarmtime[due[i]] >= when }
      n == IF later = {} THEN nil ELSE due[Min(later)]
      p == IF n # nil THEN prev[n] ELSE tail[SleepList]
  IN  /\ t \notin Listed
      /\ alarmtime' = [alarmtime EXCEPT ![t] = when]
      /\ prev' = [set(prev, n, t) EXCEPT ![t] = p]
      /\ next' = [set(next, p, t) EXCEPT ![t] = n]
      /\ head' = IF p = nil THEN [head EXCEPT ![SleepList] = t] ELSE head
      /\ tail' = IF n = nil THEN [tail EXCEPT ![SleepList] = t] ELSE tail

Next ==
  \E t \in Task :
    \/ \E l \in List : addtask(l, t) \/ deltask(l, t)
    \/ \E when \in Times : taskdelay(t, when)

Spec == Init /\ [][Next]_vars

-----------------------------------------------------------------------------

\* The links of a list agree in both directions, whatever stale pointers the
\* unlinked tasks carry and however tasks move between lists: from the tail
\* along prev one meets the tasks that one meets from the head along next, in
\* reverse.
BackLinks ==
  \A l \in List : Walk(tail[l], prev) = Reverse(Walk(head[l], next))

\* The pointer code implements the sequences that the other modules use.
Abstract == INSTANCE TaskLists WITH
              lists <- [l \in List |-> Walk(head[l], next)]

TaskListsSpec == Abstract!Spec

=============================================================================
