-------------------------------- MODULE Task --------------------------------
(***************************************************************************)
(* task.c: the life of a task, from taskcreate to the scheduler's free(),  *)
(* the table alltask[] of the tasks that exist, the count of user tasks    *)
(* that decides when the program is done, and taskyield's switch count.    *)
(*                                                                         *)
(* The code a task runs is the library's client, so the running task may   *)
(* make any call at any time.  A primitive that blocks its caller (a lock, *)
(* a channel, fd.c) is seen here only as Park (taskswitch without          *)
(* taskready) and Wake (taskready of a parked task).                       *)
(***************************************************************************)
EXTENDS Sched

CONSTANTS
  CHUNK,      \* alltask[] grows by this many slots (64)
  NSWITCH,    \* tasknswitch counts modulo this (2^32)
  ExitVals    \* the values passed to taskexit and taskexitall

ASSUME LifeAssumption ==
  /\ CHUNK \in Nat \ {0}
  /\ NSWITCH \in Nat \ {0}
  /\ Cardinality(Task) < NSWITCH
  /\ {0, 1} \subseteq ExitVals

VARIABLES
  alltask,       \* alltask[0..nalltask-1], as a sequence
  alltaskslot,   \* t->alltaskslot, counted from 0
  alltaskcap,    \* slots the last realloc of alltask[] provided
  exiting,       \* t->exiting
  system,        \* t->system
  taskcount,     \* int taskcount
  tasknswitch,   \* int tasknswitch
  taskexitval,   \* int taskexitval
  status,        \* the status the process ended with, nil before
  pc,            \* where a task is: "run", in "yield", or "parked"
  yield          \* taskyield's local n, and a history of its wait

lifevars == <<alltask, alltaskslot, alltaskcap, exiting, system>>
vars == <<schedvars, lifevars, taskcount, tasknswitch, taskexitval, status,
          pc, yield>>

Live  == ToSet(alltask)                      \* tasks that are not freed
Users == { t \in Live : ~system[t] }         \* the ones that are not system

\* yield[t] outside a call of taskyield.  n is the local variable; ahead and
\* ran are history: the queue at the call, and the tasks dispatched since.
NoYield == [n |-> 0, ahead |-> {}, ran |-> {}]

TypeOK ==
  /\ SchedTypeOK
  /\ alltask \in Seq(Task)
  /\ alltaskslot \in [Task -> Nat]
  /\ alltaskcap \in Nat
  /\ exiting \in [Task -> BOOLEAN]
  /\ system \in [Task -> BOOLEAN]
  /\ taskcount \in Int
  /\ tasknswitch \in 0 .. NSWITCH - 1
  /\ taskexitval \in ExitVals
  /\ status \in ExitVals \cup {nil}
  /\ pc \in [Task -> {"run", "yield", "parked"}]
  /\ yield \in [Task -> [n : 0 .. NSWITCH - 1, ahead : SUBSET Task,
                         ran : SUBSET Task]]

-----------------------------------------------------------------------------

\* main: taskcreate(taskmainstart), then taskscheduler() is entered.
Init ==
  \E t0 \in Task :
    /\ alltask = <<t0>>
    /\ alltaskslot = [t \in Task |-> 0]
    /\ alltaskcap = CHUNK
    /\ exiting = [t \in Task |-> FALSE]
    /\ system = [t \in Task |-> FALSE]
    /\ taskrunqueue = <<t0>>
    /\ ready = [t \in Task |-> t = t0]
    /\ taskrunning = nil
    /\ control = "sched"
    /\ taskcount = 1
    /\ tasknswitch = 0
    /\ taskexitval = 0
    /\ status = nil
    /\ pc = [t \in Task |-> "run"]
    /\ yield = [t \in Task |-> NoYield]

\* taskalloc: malloc returns an address not in use; memset clears the fields.
taskalloc(t) ==
  /\ t \notin Live
  /\ exiting' = [exiting EXCEPT ![t] = FALSE]
  /\ system' = [system EXCEPT ![t] = FALSE]
  /\ pc' = [pc EXCEPT ![t] = "run"]

\* Mutant: the test is one creation late.
tablefullLate == Len(alltask) % CHUNK = 1

\* nalltask%64 == 0
tablefull == Len(alltask) % CHUNK = 0

\* The table's part of taskcreate: realloc when the slots in use are a
\* multiple of CHUNK, then store t behind the last used slot.
enroll(t) ==
  /\ alltaskcap' = IF tablefull THEN Len(alltask) + CHUNK ELSE alltaskcap
  /\ alltaskslot' = [alltaskslot EXCEPT ![t] = Len(alltask)]
  /\ alltask' = Append(alltask, t)

\* taskcreate, called by the running task r.
taskcreate(r, t) ==
  /\ Running(r) /\ pc[r] = "run"
  /\ taskalloc(t)
  /\ taskcount' = taskcount + 1
  /\ enroll(t)
  /\ taskready(t)
  /\ UNCHANGED <<taskrunning, control, tasknswitch, taskexitval, status, yield>>

\* taskalloc when malloc (or taskcreate when realloc) fails: abort().
NoMemory(r) ==
  /\ Running(r) /\ pc[r] = "run"
  /\ control' = "aborted"
  /\ UNCHANGED <<taskrunqueue, taskrunning, ready, lifevars, taskcount,
                 tasknswitch, taskexitval, status, pc, yield>>

\* Mutant: the test of t->system is missing.
markableAgain(r) == TRUE

\* if(!taskrunning->system)
markable(r) == ~system[r]

tasksystem(r) ==
  /\ Running(r) /\ pc[r] = "run"
  /\ markable(r)
  /\ system' = [system EXCEPT ![r] = TRUE]
  /\ taskcount' = taskcount - 1
  /\ UNCHANGED <<schedvars, alltask, alltaskslot, alltaskcap, exiting,
                 tasknswitch, taskexitval, status, pc, yield>>

\* taskyield up to the switch, and after the task has the CPU again.
taskyield(r) ==
  /\ Running(r) /\ pc[r] = "run"
  /\ yield' = [yield EXCEPT ![r] =
                 [n |-> tasknswitch, ahead |-> ToSet(taskrunqueue), ran |-> {}]]
  /\ taskready(r)
  /\ taskswitch
  /\ pc' = [pc EXCEPT ![r] = "yield"]
  /\ UNCHANGED <<taskrunning, lifevars, taskcount, tasknswitch, taskexitval,
                 status>>

\* Mutant: the caller's own dispatch is counted.
yieldvalueSelf(r) == (tasknswitch - yield[r].n) % NSWITCH

\* The value taskyield returns: tasknswitch - n - 1, in modular arithmetic.
yieldvalue(r) == (tasknswitch - yield[r].n - 1) % NSWITCH

taskyieldreturn(r) ==
  /\ Running(r) /\ pc[r] = "yield"
  /\ pc' = [pc EXCEPT ![r] = "run"]
  /\ yield' = [yield EXCEPT ![r] = NoYield]
  /\ UNCHANGED <<schedvars, lifevars, taskcount, tasknswitch, taskexitval,
                 status>>

\* taskexit; taskstart calls taskexit(0) when the task's function returns.
taskexit(r, val) ==
  /\ Running(r) /\ pc[r] = "run"
  /\ taskexitval' = val
  /\ exiting' = [exiting EXCEPT ![r] = TRUE]
  /\ taskswitch
  /\ UNCHANGED <<taskrunqueue, taskrunning, ready, alltask, alltaskslot,
                 alltaskcap, system, taskcount, tasknswitch, status, pc, yield>>

taskexitall(r, val) ==
  /\ Running(r) /\ pc[r] = "run"
  /\ control' = "exited"
  /\ status' = val
  /\ UNCHANGED <<taskrunqueue, taskrunning, ready, lifevars, taskcount,
                 tasknswitch, taskexitval, pc, yield>>

\* A primitive switches away without queueing its caller ...
Park(r) ==
  /\ Running(r) /\ pc[r] = "run"
  /\ taskswitch
  /\ pc' = [pc EXCEPT ![r] = "parked"]
  /\ UNCHANGED <<taskrunqueue, taskrunning, ready, lifevars, taskcount,
                 tasknswitch, taskexitval, status, yield>>

\* ... and a primitive called by another task makes it ready again.
Wake(r, t) ==
  /\ Running(r) /\ pc[r] = "run"
  /\ t \in Live /\ pc[t] = "parked"
  /\ taskready(t)
  /\ pc' = [pc EXCEPT ![t] = "run"]
  /\ UNCHANGED <<taskrunning, control, lifevars, taskcount, tasknswitch,
                 taskexitval, status, yield>>

-----------------------------------------------------------------------------

\* Mutant: the index is one too low.
freedslotOff(t) == alltaskslot[t] - 1

\* i = t->alltaskslot: where the last entry goes, and what it is told.
freedslot(t) == alltaskslot[t]

\* The scheduler's removal of t from alltask[]: the last entry moves into
\* t's slot.
delist(t) ==
  LET last == alltask[Len(alltask)]
  IN  /\ alltask' = Front([alltask EXCEPT ![alltaskslot[t] + 1] = last])
      /\ alltaskslot' = [alltaskslot EXCEPT ![last] = freedslot(t)]

\* Mutant: an exiting system task is uncounted again.
uncountedAll(t) == taskcount - 1

\* if(!t->system) taskcount--
uncounted(t) == IF system[t] THEN taskcount ELSE taskcount - 1

\* taskscheduler, from the return of contextswitch to the end of the loop
\* body: an exiting task is uncounted, removed and freed.
schedreturn ==
  /\ control = "sched" /\ taskrunning # nil
  /\ taskrunning' = nil
  /\ IF exiting[taskrunning]
     THEN taskcount' = uncounted(taskrunning) /\ delist(taskrunning)
     ELSE UNCHANGED <<taskcount, alltask, alltaskslot>>
  /\ UNCHANGED <<taskrunqueue, ready, control, alltaskcap, exiting, system,
                 tasknswitch, taskexitval, status, pc, yield>>

\* taskscheduler, top of the loop: all user tasks are gone.
schedexit ==
  /\ control = "sched" /\ taskrunning = nil
  /\ taskcount = 0
  /\ control' = "exited"
  /\ status' = taskexitval
  /\ UNCHANGED <<taskrunqueue, taskrunning, ready, lifevars, taskcount,
                 tasknswitch, taskexitval, pc, yield>>

\* taskscheduler: "no runnable tasks! %d tasks stalled".
schedstall ==
  /\ control = "sched" /\ taskrunning = nil
  /\ taskcount # 0 /\ taskrunqueue = <<>>
  /\ control' = "exited"
  /\ status' = 1
  /\ UNCHANGED <<taskrunqueue, taskrunning, ready, lifevars, taskcount,
                 tasknswitch, taskexitval, pc, yield>>

\* taskscheduler: run the task at the head of the queue.
schedrun ==
  /\ control = "sched" /\ taskrunning = nil
  /\ taskcount # 0
  /\ \E t \in Task :
       /\ dispatch(t)
       /\ yield' = [u \in Task |->
                      IF pc[u] = "yield" /\ u # t
                      THEN [yield[u] EXCEPT !.ran = @ \cup {t}] ELSE yield[u]]
  /\ tasknswitch' = (tasknswitch + 1) % NSWITCH
  /\ UNCHANGED <<lifevars, taskcount, taskexitval, status, pc>>

taskscheduler == schedreturn \/ schedexit \/ schedstall \/ schedrun

\* The process has ended; nothing happens any more.
Terminated == Ended /\ UNCHANGED vars

Client(r) ==
  \/ \E t \in Task : taskcreate(r, t) \/ Wake(r, t)
  \/ NoMemory(r)
  \/ tasksystem(r)
  \/ taskyield(r) \/ taskyieldreturn(r)
  \/ \E val \in ExitVals : taskexit(r, val) \/ taskexitall(r, val)
  \/ Park(r)

Next == taskscheduler \/ (\E r \in Task : Client(r)) \/ Terminated

(***************************************************************************)
(* The only fairness is that the kernel thread keeps executing.  Every     *)
(* call of the client changes the state, so this also says that no task    *)
(* keeps the CPU forever: scheduling is cooperative (README).              *)
(***************************************************************************)
Spec == Init /\ [][Next]_vars /\ WF_vars(Next)

-----------------------------------------------------------------------------
(***************************************************************************)
(* Properties.                                                             *)
(***************************************************************************)

\* The swap-with-last removal of taskscheduler keeps alltask[] and the slot
\* each task remembers in step: entries are distinct and every task's
\* alltaskslot is the index it is stored at, so a later exit removes the
\* exiting task's entry and no other.
SlotsOK ==
  /\ IsInjective(alltask)
  /\ \A i \in 1..Len(alltask) : alltaskslot[alltask[i]] = i - 1

\* taskcreate never stores behind the end of the block realloc returned,
\* whatever the order of creations and exits around a multiple of CHUNK: the
\* block is always a multiple of CHUNK slots, so the test of nalltask%64
\* catches the moment at which it is full.
CapacityOK == Len(alltask) <= alltaskcap /\ alltaskcap % CHUNK = 0

\* taskcount is the number of user tasks, until tasksystem and exits, in any
\* order, bring it to 0.
CountOK == taskcount = Cardinality(Users)

\* No use after free and no double link: a queued task exists, is not
\* exiting, is queued once and is not the one that runs; a task is exiting
\* only from its taskexit to the scheduler's free(), with no other task in
\* between.
QueuedAlive ==
  /\ QueueOK
  /\ \A t \in ToSet(taskrunqueue) : t \in Live /\ ~exiting[t] /\ pc[t] # "parked"
  /\ taskrunning # nil => taskrunning \in Live
  /\ \A t \in Live : exiting[t] => control = "sched" /\ t = taskrunning

\* No task is lost: while the process lives, a task that exists is queued, or
\* parked where some primitive can make it ready, or has the CPU, or is about
\* to be freed.
NoTaskLost ==
  ~Ended => \A t \in Live :
    \/ t \in ToSet(taskrunqueue)
    \/ pc[t] = "parked"
    \/ t = taskrunning /\ (control = "task" \/ exiting[t])

\* README, taskyield: it returns the number of other tasks that ran, these are
\* exactly the tasks that were ready at the call, and "zero means there are no
\* other tasks trying to run": fdtask relies on that and polls without looking
\* at the queue (fd.c:44-46).
YieldExact ==
  \A t \in Task : Running(t) /\ pc[t] = "yield" =>
    /\ yieldvalue(t) = Cardinality(yield[t].ran)
    /\ yield[t].ran = yield[t].ahead
    /\ yieldvalue(t) = 0 => taskrunqueue = <<>>

\* taskscheduler ends the process under a user task only if every existing
\* task is blocked, and then with status 1.
EndsOnlyWhenDone ==
  [][ control = "sched" /\ control' = "exited" /\ Users # {} =>
        status' = 1 /\ \A t \in Live : pc[t] = "parked" ]_vars

\* A ready task eventually runs, however the others yield, create tasks and
\* wake each other, unless the process ends: the run queue is FIFO.
ReadyRuns ==
  \A t \in Task : t \in ToSet(taskrunqueue) ~> (taskrunning = t \/ Ended)

\* README, taskexit: "If this is the last non-system task, exit the entire
\* program using the given exit status", also with system tasks left behind.
LastExitEnds ==
  \A v \in ExitVals :
    (/\ control = "sched" /\ taskrunning # nil
     /\ exiting[taskrunning] /\ Users = {taskrunning} /\ taskexitval = v)
      ~> (control = "exited" /\ status = v)

=============================================================================
