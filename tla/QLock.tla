------------------------------- MODULE QLock -------------------------------
(***************************************************************************)
(* qlock.c, QLock: a queuing lock whose ownership is handed to the first   *)
(* waiter by qunlock, before that waiter runs.                             *)
(*                                                                         *)
(* Clients keep the usual discipline: a task unlocks only a lock it holds, *)
(* does not block on a lock it holds, and holds none when it exits.        *)
(***************************************************************************)
EXTENDS Sched

CONSTANT Lock

ASSUME LockAssumption == nil \notin Lock

VARIABLES
  owner,     \* l->owner
  waiting,   \* l->waiting
  call,      \* the lock in whose qlock a task is suspended, or nil; the
             \* Rendez in whose tasksleep it is (module Rendez)
  held,      \* the locks a task may rely on: qlock returned, no qunlock yet
  gone       \* the tasks that have exited

lockvars == <<owner, waiting, call, held, gone>>

Idle(r) == Running(r) /\ call[r] = nil

LockTypeOK ==
  /\ SchedTypeOK
  /\ owner \in [Lock -> Task \cup {nil}]
  /\ waiting \in [Lock -> Seq(Task)]
  /\ held \in [Task -> SUBSET Lock]
  /\ gone \in SUBSET Task

\* All tasks are created and ready, in any order; the locks are zeroed.
LockInit ==
  /\ taskrunqueue \in SetToSeqs(Task)
  /\ taskrunning = nil
  /\ ready = [t \in Task |-> TRUE]
  /\ control = "sched"
  /\ owner = [l \in Lock |-> nil]
  /\ waiting = [l \in Lock |-> <<>>]
  /\ call = [t \in Task |-> nil]
  /\ held = [t \in Task |-> {}]
  /\ gone = {}

-----------------------------------------------------------------------------

\* Mutant: a lock that is taken is found free.
takenNever(l) == FALSE

\* The test of _qlock.
taken(l) == owner[l] # nil

\* _qlock when the lock is free: take it and return 1.
acquire(r, l) ==
  /\ ~taken(l)
  /\ owner' = [owner EXCEPT ![l] = r]
  /\ held' = [held EXCEPT ![r] = @ \cup {l}]
  /\ UNCHANGED <<control, waiting>>

\* _qlock when it is not: queue up and switch.  The caller resumes in
\* qlockresume.
enqueue(r, l) ==
  /\ taken(l)
  /\ waiting' = [waiting EXCEPT ![l] = addtask(@, r)]
  /\ taskswitch
  /\ UNCHANGED <<owner, held>>

qlock(r, l) ==
  /\ Idle(r) /\ l \notin held[r]
  /\ \/ acquire(r, l) /\ UNCHANGED call
     \/ enqueue(r, l) /\ call' = [call EXCEPT ![r] = l]
  /\ UNCHANGED <<taskrunqueue, taskrunning, ready, gone>>

\* canqlock also returns, with 0, when the lock is taken.
canqlock(r, l) ==
  /\ Idle(r)
  /\ \/ acquire(r, l)
     \/ taken(l) /\ UNCHANGED <<control, owner, waiting, held>>
  /\ UNCHANGED <<taskrunqueue, taskrunning, ready, call, gone>>

\* _qlock after taskswitch returns: abort unless the lock was handed over.
qlockresume(r) ==
  /\ Running(r) /\ call[r] \in Lock
  /\ IF owner[call[r]] # r
     THEN control' = "aborted" /\ UNCHANGED <<call, held>>
     ELSE /\ held' = [held EXCEPT ![r] = @ \cup {call[r]}]
          /\ call' = [call EXCEPT ![r] = nil]
          /\ UNCHANGED control
  /\ UNCHANGED <<taskrunqueue, taskrunning, ready, owner, waiting, gone>>

\* qunlock of an owned lock, on the lock and the run queue: the first waiter
\* becomes the owner and is made ready.
handoff(l) ==
  /\ owner' = [owner EXCEPT ![l] = IF waiting[l] = <<>> THEN nil
                                                        ELSE Head(waiting[l])]
  /\ IF waiting[l] = <<>>
     THEN UNCHANGED <<taskrunqueue, ready, waiting>>
     ELSE /\ waiting' = [waiting EXCEPT ![l] = deltask(@, Head(@))]
          /\ taskready(Head(waiting[l]))

qunlock(r, l) ==
  /\ Idle(r) /\ l \in held[r]
  /\ held' = [held EXCEPT ![r] = @ \ {l}]
  /\ IF owner[l] = nil
     THEN control' = "aborted" /\ UNCHANGED <<taskrunqueue, ready, owner, waiting>>
     ELSE handoff(l) /\ UNCHANGED control
  /\ UNCHANGED <<taskrunning, call, gone>>

\* The client gives up the CPU, holding locks or not, ...
taskyield(r) == Idle(r) /\ yieldcpu(r) /\ UNCHANGED lockvars

\* ... or exits.
taskexit(r) ==
  /\ Idle(r) /\ held[r] = {}
  /\ gone' = gone \cup {r}
  /\ taskswitch
  /\ UNCHANGED <<taskrunqueue, taskrunning, ready, owner, waiting, call, held>>

\* A step of the code of task r outside tasksleep.
LockStep(r) ==
  \/ \E l \in Lock : qlock(r, l) \/ canqlock(r, l) \/ qunlock(r, l)
  \/ qlockresume(r) \/ taskyield(r) \/ taskexit(r)

-----------------------------------------------------------------------------

\* A lock is relied upon by at most one task, the one in l->owner.
MutualExclusion == \A t \in Task : \A l \in held[t] : owner[l] = t

\* No hand-over is lost: a lock with waiters has an owner; a task suspended
\* in qlock is either still waiting or owns the lock and is about to run, and
\* only such tasks wait.  So the aborts "qlock: owner=%p self=%p oops" and
\* "qunlock: owner=0" (qlock.c:19, 43) are never reached.
HandOver ==
  /\ control # "aborted"
  /\ \A l \in Lock :
      /\ waiting[l] # <<>> => owner[l] # nil
      /\ owner[l] \notin ToSet(waiting[l])
      /\ IsInjective(waiting[l])
      /\ \A t \in Task : call[t] = l =>
           \/ t \in ToSet(waiting[l])
           \/ owner[l] = t /\ (t \in ToSet(taskrunqueue) \/ Running(t) \/ Ended)
      /\ \A t \in ToSet(waiting[l]) : call[t] = l
      /\ owner[l] # nil => l \in held[owner[l]] \/ call[owner[l]] = l

\* qlock.c keeps the promise of FifoLock: no barging, no waiter passed over.
ImplementsFifoLock ==
  INSTANCE FifoLock WITH
    queue <- [l \in Lock |-> IF owner[l] = nil THEN <<>>
                                               ELSE <<owner[l]>> \o waiting[l]]

FifoLockSpec == ImplementsFifoLock!Spec

=============================================================================
