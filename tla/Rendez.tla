------------------------------- MODULE Rendez -------------------------------
(***************************************************************************)
(* rendez.c: condition variables, over the locks of module QLock.  A       *)
(* Rendez may name a QLock r->l, which tasksleep gives up while the caller *)
(* sleeps and takes again before it returns; like every condition          *)
(* variable's, that lock is held by the task that sleeps.                  *)
(***************************************************************************)
EXTENDS QLock

CONSTANT Rendez

ASSUME RendezAssumption == nil \notin Rendez /\ Lock \cap Rendez = {}

VARIABLES
  rl,        \* r->l, chosen by the client before the first use
  sleepers   \* r->waiting

rendezvars == <<rl, sleepers>>
vars == <<schedvars, lockvars, rendezvars>>

TypeOK ==
  /\ LockTypeOK
  /\ call \in [Task -> Lock \cup Rendez \cup {nil}]
  /\ rl \in [Rendez -> Lock \cup {nil}]
  /\ sleepers \in [Rendez -> Seq(Task)]

Init ==
  /\ LockInit
  /\ rl \in [Rendez -> Lock \cup {nil}]
  /\ sleepers = [z \in Rendez |-> <<>>]

-----------------------------------------------------------------------------

\* Mutant: the caller goes to sleep with r->l.
givenupNot(z) == nil

\* if(r->l) qunlock(r->l): the lock that tasksleep gives up.
givenup(z) == rl[z]

\* tasksleep up to its switch: join the sleepers, release r->l, switch.
tasksleep(r, z) ==
  /\ Idle(r) /\ (rl[z] # nil => rl[z] \in held[r])
  /\ sleepers' = [sleepers EXCEPT ![z] = addtask(@, r)]
  /\ call' = [call EXCEPT ![r] = z]
  /\ IF givenup(z) = nil
     THEN UNCHANGED <<taskrunqueue, ready, owner, waiting, held>>
     ELSE handoff(givenup(z)) /\ held' = [held EXCEPT ![r] = @ \ {givenup(z)}]
  /\ taskswitch
  /\ UNCHANGED <<taskrunning, gone, rl>>

\* tasksleep after its switch: take r->l again, which may block once more.
sleepresume(r) ==
  /\ Running(r) /\ call[r] \in Rendez
  /\ LET l == rl[call[r]] IN
       \/ /\ l = nil
          /\ call' = [call EXCEPT ![r] = nil]
          /\ UNCHANGED <<control, owner, waiting, held>>
       \/ /\ l # nil
          /\ acquire(r, l)
          /\ call' = [call EXCEPT ![r] = nil]
       \/ /\ l # nil
          /\ enqueue(r, l)
          /\ call' = [call EXCEPT ![r] = l]
  /\ UNCHANGED <<taskrunqueue, taskrunning, ready, gone, rendezvars>>

\* _taskwakeup: the first sleeper, or all of them, in order.
taskwakeup(r, z, all) ==
  LET n == IF all \/ sleepers[z] = <<>> THEN Len(sleepers[z]) ELSE 1
  IN  /\ Idle(r)
      /\ taskreadyeach(SubSeq(sleepers[z], 1, n))
      /\ sleepers' = [sleepers EXCEPT ![z] = SubSeq(@, n + 1, Len(@))]
      /\ UNCHANGED <<taskrunning, control, lockvars, rl>>

taskscheduler == (runnext \/ norunnable) /\ UNCHANGED <<lockvars, rendezvars>>

Terminated == Ended /\ UNCHANGED vars

SleepStep(r) ==
  \/ \E z \in Rendez : \/ tasksleep(r, z)
                       \/ \E all \in BOOLEAN : taskwakeup(r, z, all)
  \/ sleepresume(r)

Next ==
  \/ taskscheduler
  \/ \E r \in Task : (LockStep(r) /\ UNCHANGED rendezvars) \/ SleepStep(r)
  \/ Terminated

(***************************************************************************)
(* The kernel thread keeps executing, no client keeps the CPU for ever     *)
(* (scheduling is cooperative, README), and a client that gets the CPU     *)
(* again and again while holding a lock at last releases it: without that  *)
(* no lock can promise anything to its waiters.                            *)
(***************************************************************************)
Fairness ==
  /\ WF_vars(Next)
  /\ \A r \in Task : WF_vars(taskyield(r) /\ UNCHANGED rendezvars)
  /\ \A r \in Task, l \in Lock : SF_vars(qunlock(r, l) /\ UNCHANGED rendezvars)

Spec == Init /\ [][Next]_vars /\ Fairness

-----------------------------------------------------------------------------

\* The lists a task can be on; nil stands for the run queue.
Lists(t) ==
  { l \in Lock : t \in ToSet(waiting[l]) } \cup
  { z \in Rendez : t \in ToSet(sleepers[z]) } \cup
  { nil : x \in ToSet(taskrunqueue) \cap {t} }

\* Types, and: struct Task has one next/prev pair, shared by the run queue, every
\* l->waiting and every r->waiting: a task is on one list at most, once, on
\* none while its code runs, and a sleeper or waiter only on the list of the
\* call it is suspended in.
OneList ==
  /\ TypeOK /\ QueueOK
  /\ \A z \in Rendez : IsInjective(sleepers[z])
  /\ \A t \in Task :
       /\ \A c, d \in Lists(t) : c = d
       /\ Running(t) \/ t \in gone => Lists(t) = {}
       /\ \A c \in Lists(t) : c = nil \/ call[t] = c

\* Clients that do not nest locks: who blocks in qlock holds none, and who
\* calls tasksleep at most the Rendez's own.
Unnested ==
  \A t \in Task : /\ call[t] \in Lock => held[t] = {}
                  /\ call[t] \in Rendez => held[t] \subseteq {rl[call[t]]}

\* Where locks are not nested, the program stalls only if every task left is
\* asleep on a Rendez: tasksleep gives the lock away before it switches, so
\* nobody waits for a lock that a sleeper took with it.
NeverStalls ==
  control = "sched" /\ taskrunqueue = <<>> /\ Unnested =>
    \A t \in Task \ gone : \E z \in Rendez : t \in ToSet(sleepers[z])

\* Where locks are never nested, a blocked qlock and the tasksleep of a task
\* that was woken return, with the lock held.
EventuallyReturns ==
  []Unnested =>
    \A t \in Task, l \in Lock :
      (\/ call[t] = l
       \/ call[t] \in Rendez /\ rl[call[t]] = l /\ t \notin ToSet(sleepers[call[t]]))
        ~> ((call[t] = nil /\ l \in held[t]) \/ Ended)

=============================================================================
