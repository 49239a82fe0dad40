------------------------------ MODULE FifoLock ------------------------------
(***************************************************************************)
(* What a QLock promises (README, "queuing locks" of task.h:43): a lock is *)
(* the queue of the tasks that asked for it, its holder first.  Nobody is  *)
(* passed over, and the lock goes to the next task the moment it is        *)
(* released.                                                               *)
(***************************************************************************)
EXTENDS Sequences, SequencesExt

CONSTANTS Task, Lock

VARIABLE queue      \* queue[l]: holder, then the others in order of arrival

Init == queue = [l \in Lock |-> <<>>]

Ask(t, l) ==
  /\ t \notin ToSet(queue[l])
  /\ queue' = [queue EXCEPT ![l] = Append(@, t)]

Release(l) ==
  /\ queue[l] # <<>>
  /\ queue' = [queue EXCEPT ![l] = Tail(@)]

Next == \E l \in Lock : Release(l) \/ \E t \in Task : Ask(t, l)

Spec == Init /\ [][Next]_queue

=============================================================================
