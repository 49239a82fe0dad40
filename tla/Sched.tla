------------------------------- MODULE Sched -------------------------------
(***************************************************************************)
(* The switching core of task.c that every other part builds on: the run   *)
(* queue, the running task and the hand-over between a task's code and     *)
(* taskscheduler.  There is one kernel thread, so at any moment it either  *)
(* executes the code of taskrunning (control = "task") or the loop of      *)
(* taskscheduler (control = "sched"), unless the process has ended.        *)
(***************************************************************************)
EXTENDS TaskSeq

CONSTANTS
  Task,   \* the addresses malloc can return for a Task structure
  nil     \* the null pointer

ASSUME TaskAssumption == IsFiniteSet(Task) /\ nil \notin Task

VARIABLES
  taskrunqueue,   \* Tasklist taskrunqueue, as a sequence
  taskrunning,    \* Task *taskrunning
  ready,          \* t->ready
  control         \* who has the CPU: "task", "sched", or how it ended

schedvars == <<taskrunqueue, taskrunning, ready, control>>

\* The process has ended: exit() or abort() was called.
Ended == control \in {"exited", "aborted"}

\* The code of task t has the CPU.
Running(t) == control = "task" /\ taskrunning = t

SchedTypeOK ==
  /\ taskrunqueue \in Seq(Task)
  /\ taskrunning \in Task \cup {nil}
  /\ ready \in [Task -> BOOLEAN]
  /\ control \in {"task", "sched", "exited", "aborted"}

\* Mutant: the task is marked, but not queued.
taskreadyFlag(t) ==
  /\ ready' = [ready EXCEPT ![t] = TRUE]
  /\ UNCHANGED taskrunqueue

\* taskready: mark t ready and put it at the tail of the run queue.
taskready(t) ==
  /\ ready' = [ready EXCEPT ![t] = TRUE]
  /\ taskrunqueue' = addtask(taskrunqueue, t)

\* A loop that calls taskready on each task of the sequence s in turn.
taskreadyeach(s) ==
  /\ ready' = [t \in Task |-> ready[t] \/ t \in ToSet(s)]
  /\ taskrunqueue' = taskrunqueue \o s

\* taskswitch: back into taskscheduler, on the scheduler's own context.
taskswitch == control' = "sched"

\* The part of taskscheduler's loop that picks the next task and runs it.
dispatch(t) ==
  /\ taskrunqueue # <<>> /\ t = Head(taskrunqueue)
  /\ taskrunqueue' = deltask(taskrunqueue, t)
  /\ ready' = [ready EXCEPT ![t] = FALSE]
  /\ taskrunning' = t
  /\ control' = "task"

\* taskscheduler as the locks, channels and timers see it: run the head of the
\* queue, or end the process when there is none.
runnext == control = "sched" /\ \E t \in Task : dispatch(t)

norunnable ==
  /\ control = "sched" /\ taskrunqueue = <<>>
  /\ control' = "exited"
  /\ UNCHANGED <<taskrunqueue, taskrunning, ready>>

\* taskyield without its return value, which only module Task follows.
yieldcpu(r) ==
  /\ taskready(r)
  /\ taskswitch
  /\ UNCHANGED taskrunning

(***************************************************************************)
(* What keeps the intrusive lists intact: a task is queued at most once,   *)
(* never while it is running, and the ready flag that the SIGQUIT listing  *)
(* prints agrees with the queue.                                           *)
(***************************************************************************)
QueueOK ==
  /\ IsInjective(taskrunqueue)
  /\ control = "task" => taskrunning \notin ToSet(taskrunqueue)
  /\ \A t \in Task : t \in ToSet(taskrunqueue) => ready[t]

=============================================================================
