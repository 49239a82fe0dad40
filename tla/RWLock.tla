------------------------------- MODULE RWLock -------------------------------
(***************************************************************************)
(* qlock.c, RWLock: a reader-writer lock that is handed over.  A reader    *)
(* queues up behind a waiting writer; a writer that unlocks admits all     *)
(* waiting readers, and the last reader that unlocks admits one writer.    *)
(* The waiters are counted, or made l->writer, before they run again, and  *)
(* neither _rlock nor _wlock looks at the lock when it resumes.            *)
(*                                                                         *)
(* Clients keep the discipline: a task unlocks only what it holds, asks    *)
(* for nothing while it holds the lock, and does not exit with it.         *)
(***************************************************************************)
EXTENDS Sched

VARIABLES
  readers,    \* l->readers
  writer,     \* l->writer
  rwaiting,   \* l->rwaiting
  wwaiting,   \* l->wwaiting
  call,       \* the call a task is suspended in: "rlock", "wlock" or "none"
  held,       \* what a task may rely on: "r", "w" or "none"
  gone        \* the tasks that have exited

lockvars == <<readers, writer, rwaiting, wwaiting>>
clientvars == <<call, held, gone>>
vars == <<schedvars, lockvars, clientvars>>

Idle(r) == Running(r) /\ call[r] = "none"
Free(r) == Idle(r) /\ held[r] = "none"

TypeOK ==
  /\ SchedTypeOK
  /\ readers \in Nat
  /\ writer \in Task \cup {nil}
  /\ rwaiting \in Seq(Task)
  /\ wwaiting \in Seq(Task)
  /\ call \in [Task -> {"rlock", "wlock", "none"}]
  /\ held \in [Task -> {"r", "w", "none"}]
  /\ gone \in SUBSET Task

\* All tasks are created and ready, in any order; the lock is zeroed.
Init ==
  /\ taskrunqueue \in SetToSeqs(Task)
  /\ taskrunning = nil
  /\ ready = [t \in Task |-> TRUE]
  /\ control = "sched"
  /\ readers = 0
  /\ writer = nil
  /\ rwaiting = <<>>
  /\ wwaiting = <<>>
  /\ call = [t \in Task |-> "none"]
  /\ held = [t \in Task |-> "none"]
  /\ gone = {}

-----------------------------------------------------------------------------

\* The caller holds the lock in mode m when its call returns at once.
granted(r, m) ==
  /\ held' = [held EXCEPT ![r] = m]
  /\ UNCHANGED <<schedvars, rwaiting, wwaiting, call, gone>>

\* The caller is suspended in call c.
suspend(r, c) ==
  /\ call' = [call EXCEPT ![r] = c]
  /\ taskswitch
  /\ UNCHANGED <<taskrunqueue, taskrunning, ready, readers, writer, held, gone>>

\* Mutant: a reader does not queue up behind waiting writers.
canreadGreedy == writer = nil

\* The tests of _rlock and _wlock.
canread == writer = nil /\ wwaiting = <<>>

canwrite == writer = nil /\ readers = 0

\* _rlock up to its switch; canrlock returns 0 instead of blocking.
rlock(r, block) ==
  /\ Free(r)
  /\ \/ /\ canread
        /\ readers' = readers + 1
        /\ granted(r, "r")
        /\ UNCHANGED writer
     \/ /\ ~canread /\ block
        /\ rwaiting' = addtask(rwaiting, r)
        /\ suspend(r, "rlock")
        /\ UNCHANGED wwaiting
     \/ ~canread /\ ~block /\ UNCHANGED vars

\* _wlock up to its switch; canwlock returns 0 instead of blocking.
wlock(r, block) ==
  /\ Free(r)
  /\ \/ /\ canwrite
        /\ writer' = r
        /\ granted(r, "w")
        /\ UNCHANGED readers
     \/ /\ ~canwrite /\ block
        /\ wwaiting' = addtask(wwaiting, r)
        /\ suspend(r, "wlock")
        /\ UNCHANGED rwaiting
     \/ ~canwrite /\ ~block /\ UNCHANGED vars

\* _rlock and _wlock after their switch: return 1, whatever the lock's state.
resume(r) ==
  /\ Running(r) /\ call[r] # "none"
  /\ held' = [held EXCEPT ![r] = IF call[r] = "rlock" THEN "r" ELSE "w"]
  /\ call' = [call EXCEPT ![r] = "none"]
  /\ UNCHANGED <<schedvars, lockvars, gone>>

\* Mutants: the last reader does not look for a waiting writer; a writer is
\* admitted as soon as some reader leaves.
wakewriterNever(n) == FALSE
wakewriterEarly(n) == wwaiting # <<>> /\ writer = nil

\* The test of runlock, n readers being left.
wakewriter(n) == n = 0 /\ wwaiting # <<>>

runlock(r) ==
  /\ Idle(r) /\ held[r] = "r"
  /\ held' = [held EXCEPT ![r] = "none"]
  /\ readers' = readers - 1
  /\ IF wakewriter(readers')
     THEN /\ wwaiting' = deltask(wwaiting, Head(wwaiting))
          /\ writer' = Head(wwaiting)
          /\ taskready(Head(wwaiting))
     ELSE UNCHANGED <<taskrunqueue, ready, writer, wwaiting>>
  /\ UNCHANGED <<taskrunning, control, rwaiting, call, gone>>

\* Mutant: a writer is admitted whether readers wait or not.
nextwriterAny == IF wwaiting # <<>> THEN Head(wwaiting) ELSE nil

\* The writer that wunlock admits: the first one, if no reader waits.
nextwriter == IF rwaiting = <<>> /\ wwaiting # <<>> THEN Head(wwaiting) ELSE nil

\* wunlock behind its checks: all waiting readers, else the first writer.
admit ==
  /\ readers' = readers + Len(rwaiting)
  /\ rwaiting' = <<>>
  /\ writer' = nextwriter
  /\ wwaiting' = IF nextwriter = nil THEN wwaiting ELSE deltask(wwaiting, nextwriter)
  /\ taskreadyeach(IF nextwriter = nil THEN rwaiting ELSE <<nextwriter>>)

wunlock(r) ==
  /\ Idle(r) /\ held[r] = "w"
  /\ held' = [held EXCEPT ![r] = "none"]
  /\ IF writer = nil \/ readers # 0
     THEN /\ control' = "aborted" /\ writer' = nil
          /\ UNCHANGED <<taskrunqueue, ready, readers, rwaiting, wwaiting>>
     ELSE admit /\ UNCHANGED control
  /\ UNCHANGED <<taskrunning, call, gone>>

\* The client gives up the CPU, or exits.
taskyield(r) == Idle(r) /\ yieldcpu(r) /\ UNCHANGED <<lockvars, clientvars>>

taskexit(r) ==
  /\ Free(r)
  /\ gone' = gone \cup {r}
  /\ taskswitch
  /\ UNCHANGED <<taskrunqueue, taskrunning, ready, lockvars, call, held>>

taskscheduler == (runnext \/ norunnable) /\ UNCHANGED <<lockvars, clientvars>>

Terminated == Ended /\ UNCHANGED vars

Step(r) ==
  \/ \E block \in BOOLEAN : rlock(r, block) \/ wlock(r, block)
  \/ resume(r) \/ runlock(r) \/ wunlock(r)
  \/ taskyield(r) \/ taskexit(r)

Next == taskscheduler \/ (\E r \in Task : Step(r)) \/ Terminated

\* As in Rendez: the thread runs on, no client keeps the CPU for ever, and a
\* client that holds the lock and keeps getting the CPU releases it.
Fairness ==
  /\ WF_vars(Next)
  /\ \A r \in Task : WF_vars(taskyield(r))
  /\ \A r \in Task : SF_vars(runlock(r) \/ wunlock(r))

Spec == Init /\ [][Next]_vars /\ Fairness

-----------------------------------------------------------------------------

\* Tasks that were granted the lock: they hold it, or will when they run.
Readers == { t \in Task : held[t] = "r" \/ (call[t] = "rlock" /\ t \notin ToSet(rwaiting)) }
Writers == { t \in Task : held[t] = "w" \/ (call[t] = "wlock" /\ t \notin ToSet(wwaiting)) }

\* README: "Any number of readers can lock them at once, but only one writer
\* at a time.  If a writer is holding it, there can't be any readers."
RWExclusion ==
  \A t, u \in Task : held[t] = "w" /\ u # t => held[u] = "none"

\* l->readers and l->writer count the tasks that were granted the lock,
\* including those that have not run yet, so that no later unlock miscounts
\* and the aborts of wunlock (qlock.c:124, 129) are never reached.
CountsExact ==
  /\ control # "aborted"
  /\ readers = Cardinality(Readers)
  /\ Writers = {writer} \ {nil}
  /\ writer # nil => readers = 0

\* Types, and: a task suspended in a call is on that call's list or has been
\* granted the lock and is ready; it is on no other list.
WaitersOK ==
  /\ TypeOK /\ QueueOK
  /\ IsInjective(rwaiting) /\ IsInjective(wwaiting)
  /\ \A t \in ToSet(rwaiting) : call[t] = "rlock"
  /\ \A t \in ToSet(wwaiting) : call[t] = "wlock"
  /\ \A t \in Task : call[t] # "none" /\ ~Ended =>
       t \in ToSet(rwaiting) \cup ToSet(wwaiting)
         <=> t \notin ToSet(taskrunqueue) /\ ~Running(t)

\* No wakeup is lost: readers wait only for a writer, waiting or inside, and
\* writers wait only for somebody inside.
NoLostWakeup ==
  /\ rwaiting # <<>> => writer # nil \/ wwaiting # <<>>
  /\ wwaiting # <<>> => writer # nil \/ readers > 0

\* Neither readers nor writers starve, whatever the others do.
EventuallyLocked ==
  \A t \in Task :
    /\ call[t] = "rlock" ~> (held[t] = "r" \/ Ended)
    /\ call[t] = "wlock" ~> (held[t] = "w" \/ Ended)

=============================================================================
