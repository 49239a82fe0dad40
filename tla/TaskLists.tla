----------------------------- MODULE TaskLists -----------------------------
(***************************************************************************)
(* What the Tasklist code promises: each list is a sequence of tasks, a    *)
(* task is on one list at most, and addtask, deltask and the insertion of  *)
(* taskdelay change one list and nothing else.  This is the view that all  *)
(* other modules take (operators of TaskSeq).                              *)
(***************************************************************************)
EXTENDS TaskSeq

CONSTANTS Task, List, SleepList, Times

VARIABLES
  lists,       \* the tasks of each list, head first
  alarmtime    \* t->alarmtime

Listed == UNION { ToSet(lists[l]) : l \in List }

Init ==
  /\ lists = [l \in List |-> <<>>]
  /\ alarmtime \in [Task -> Times]

Add(l, t) ==
  /\ t \notin Listed
  /\ lists' = [lists EXCEPT ![l] = addtask(@, t)]
  /\ UNCHANGED alarmtime

Del(l, t) ==
  /\ t \in ToSet(lists[l])
  /\ lists' = [lists EXCEPT ![l] = deltask(@, t)]
  /\ UNCHANGED alarmtime

Delay(t, when) ==
  /\ t \notin Listed
  /\ alarmtime' = [alarmtime EXCEPT ![t] = when]
  /\ lists' = [lists EXCEPT ![SleepList] = delaytask(@, t, alarmtime')]

Next ==
  \E t \in Task :
    \/ \E l \in List : Add(l, t) \/ Del(l, t)
    \/ \E when \in Times : Delay(t, when)

Spec == Init /\ [][Next]_<<lists, alarmtime>>

=============================================================================
