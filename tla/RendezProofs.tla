---------------------------- MODULE RendezProofs ----------------------------
(***************************************************************************)
(* The safety of queuing locks and condition variables together, for any   *)
(* sets of tasks, locks and condition variables, and the refinement of     *)
(* FifoLock.                                                               *)
(***************************************************************************)
EXTENDS Rendez, SchedProofs

\* The task is neither queued to run nor running.
Off(t) == t \notin ToSet(taskrunqueue) /\ ~Running(t)

\* HandOver without the scheduler.
LockOK ==
  \A l \in Lock :
    /\ waiting[l] # <<>> => owner[l] # nil
    /\ owner[l] \notin ToSet(waiting[l])
    /\ IsInjective(waiting[l])
    /\ \A t \in Task : call[t] = l => t \in ToSet(waiting[l]) \/ owner[l] = t
    /\ \A t \in ToSet(waiting[l]) : call[t] = l
    /\ owner[l] # nil => l \in held[owner[l]] \/ call[owner[l]] = l

\* A task is on a Rendez only in the tasksleep for it, and without its lock.
SleepOK ==
  /\ \A z \in Rendez : /\ IsInjective(sleepers[z])
                       /\ \A t \in ToSet(sleepers[z]) : call[t] = z
  /\ \A t \in Task : call[t] \in Rendez => rl[call[t]] \notin held[t]

\* A task that has exited holds nothing and is nowhere.
GoneOK == \A t \in gone : call[t] = nil /\ held[t] = {} /\ Off(t)

\* Who waits on a lock or sleeps on a Rendez does not run ...
Apart ==
  \A t \in Task :
    /\ \A l \in Lock : t \in ToSet(waiting[l]) => Off(t)
    /\ \A z \in Rendez : t \in ToSet(sleepers[z]) => Off(t)

\* ... and who does not run waits or sleeps, until the process ends.
Placed ==
  ~Ended => \A t \in Task : Off(t) =>
    \/ t \in gone
    \/ call[t] \in Lock /\ t \in ToSet(waiting[call[t]])
    \/ call[t] \in Rendez /\ t \in ToSet(sleepers[call[t]])

\* The inductive invariant.  A resuming qlock is right to rely on l->owner
\* only because it was taken off l->waiting by the hand-over, and it runs only
\* then (Apart); the program does not stall only because nobody falls out of
\* all lists (Placed).
Inv ==
  /\ TypeOK /\ QueueOK /\ control # "aborted"
  /\ MutualExclusion /\ LockOK /\ SleepOK /\ GoneOK /\ Apart /\ Placed

\* The running task is on no list.
LEMMA RunningFacts ==
  ASSUME Inv, NEW r \in Task, Running(r)
  PROVE  /\ control = "task" /\ taskrunning = r /\ ~Ended
         /\ r \notin ToSet(taskrunqueue) /\ r \notin gone
         /\ \A l \in Lock : r \notin ToSet(waiting[l])
         /\ \A z \in Rendez : r \notin ToSet(sleepers[z])
  BY DEF Inv, Running, Ended, QueueOK, GoneOK, Apart, Off

LEMMA InitInv == Init => Inv
<1> SUFFICES ASSUME Init PROVE Inv
  OBVIOUS
<1>1. /\ taskrunqueue \in Seq(Task) /\ IsInjective(taskrunqueue)
      /\ ToSet(taskrunqueue) = Task
  BY InitQueue, TaskAssumption DEF Init, LockInit
<1>2. ToSet(<<>>) = {} /\ IsInjective(<<>>)
  BY DEF ToSet, IsInjective
<1>3. TypeOK
  BY <1>1 DEF Init, LockInit, TypeOK, LockTypeOK, SchedTypeOK
<1>4. QueueOK /\ control # "aborted" /\ MutualExclusion
  BY <1>1 DEF Init, LockInit, QueueOK, MutualExclusion
<1>5. LockOK
  BY <1>2, LockAssumption DEF Init, LockInit, LockOK
<1>6. SleepOK
  BY <1>2, RendezAssumption DEF Init, LockInit, SleepOK
<1>7. GoneOK /\ Apart /\ Placed
  BY <1>1, <1>2 DEF Init, LockInit, GoneOK, Apart, Placed, Off
<1> QED BY <1>3, <1>4, <1>5, <1>6, <1>7 DEF Inv

-----------------------------------------------------------------------------

\* A call finds the lock free and takes it.
LEMMA AcquireInv ==
  ASSUME Inv, NEW r \in Task, NEW l \in Lock, Running(r),
         call[r] \in Rendez \cup {nil}, acquire(r, l),
         call' = [call EXCEPT ![r] = nil],
         UNCHANGED <<taskrunqueue, taskrunning, ready, gone, rendezvars>>
  PROVE  Inv'
<1>1. /\ owner[l] = nil /\ owner' = [owner EXCEPT ![l] = r]
      /\ held' = [held EXCEPT ![r] = held[r] \cup {l}]
      /\ UNCHANGED <<control, waiting, rl, sleepers>>
  BY DEF acquire, taken, rendezvars, Inv, TypeOK, LockTypeOK
<1>2. /\ TypeOK /\ QueueOK /\ control # "aborted" /\ MutualExclusion /\ LockOK
      /\ SleepOK /\ GoneOK /\ Apart /\ Placed
  BY DEF Inv
<1>3. /\ r \notin gone /\ \A m \in Lock : r \notin ToSet(waiting[m])
      /\ \A z \in Rendez : r \notin ToSet(sleepers[z])
      /\ r \notin ToSet(taskrunqueue) /\ call[r] \notin Lock
      /\ \A m \in Lock : ToSet(waiting[m]) \subseteq Task
  BY <1>2, RunningFacts, ToSetFacts, LockAssumption, RendezAssumption
     DEF TypeOK, LockTypeOK
<1>4. /\ call \in [Task -> Lock \cup Rendez \cup {nil}] /\ held \in [Task -> SUBSET Lock]
      /\ owner \in [Lock -> Task \cup {nil}]
  BY <1>2 DEF TypeOK, LockTypeOK
<1>5. TypeOK' /\ QueueOK'
  BY <1>1, <1>2 DEF TypeOK, LockTypeOK, SchedTypeOK, QueueOK
<1>6. MutualExclusion'
  BY <1>1, <1>2, <1>4, TaskAssumption DEF MutualExclusion
<1>7. LockOK'
  <2> SUFFICES ASSUME NEW m \in Lock
               PROVE  LockOK!(m)'
    BY DEF LockOK
  <2>1. CASE m = l
    <3>1. waiting[l] = <<>> /\ ToSet(waiting[l]) = {}
      BY <1>1, <1>2 DEF LockOK, ToSet
    <3>2. \A t \in Task : call[t] # l
      BY <1>1, <1>2, <3>1, TaskAssumption DEF LockOK
    <3> QED BY <1>1, <1>2, <1>4, <2>1, <3>1, <3>2, LockAssumption, TaskAssumption DEF LockOK
  <2>2. CASE m # l
    BY <1>1, <1>2, <1>3, <1>4, <2>2, LockAssumption DEF LockOK
  <2> QED BY <2>1, <2>2
<1>8. SleepOK'
  BY <1>1, <1>2, <1>3, <1>4, RendezAssumption, ToSetFacts DEF SleepOK, TypeOK
<1>9. GoneOK' /\ Apart'
  BY <1>1, <1>2, <1>3, <1>4 DEF GoneOK, Apart, Off, Running, TypeOK, LockTypeOK
<1>10. Placed'
  BY <1>1, <1>2, <1>4 DEF Placed, Off, Running, Ended
<1> QED BY <1>1, <1>2, <1>5, <1>6, <1>7, <1>8, <1>9, <1>10 DEF Inv

\* A call finds the lock taken, queues up and is suspended.
LEMMA EnqueueInv ==
  ASSUME Inv, NEW r \in Task, NEW l \in Lock, Running(r),
         call[r] \in Rendez \cup {nil}, l \notin held[r], enqueue(r, l),
         call' = [call EXCEPT ![r] = l],
         UNCHANGED <<taskrunqueue, taskrunning, ready, gone, rendezvars>>
  PROVE  Inv'
<1>1. /\ owner[l] # nil /\ control' = "sched"
      /\ waiting' = [waiting EXCEPT ![l] = addtask(waiting[l], r)]
      /\ UNCHANGED <<owner, held, rl, sleepers>>
  BY DEF enqueue, taken, taskswitch, rendezvars, Inv, TypeOK, LockTypeOK
<1>2. /\ TypeOK /\ QueueOK /\ control # "aborted" /\ MutualExclusion /\ LockOK
      /\ SleepOK /\ GoneOK /\ Apart /\ Placed
  BY DEF Inv
<1>3. /\ r \notin gone /\ \A m \in Lock : r \notin ToSet(waiting[m])
      /\ \A z \in Rendez : r \notin ToSet(sleepers[z])
      /\ r \notin ToSet(taskrunqueue) /\ call[r] \notin Lock
      /\ control = "task" /\ taskrunning = r /\ ~Ended
  BY <1>2, RunningFacts, LockAssumption, RendezAssumption
<1>4. /\ call \in [Task -> Lock \cup Rendez \cup {nil}] /\ held \in [Task -> SUBSET Lock]
      /\ owner \in [Lock -> Task \cup {nil}] /\ waiting \in [Lock -> Seq(Task)]
      /\ waiting[l] \in Seq(Task) /\ IsInjective(waiting[l])
  BY <1>2 DEF TypeOK, LockTypeOK, LockOK
<1>5. /\ waiting'[l] \in Seq(Task) /\ waiting'[l] # <<>>
      /\ ToSet(waiting'[l]) = ToSet(waiting[l]) \cup {r}
      /\ IsInjective(waiting'[l])
  <2> DEFINE w == waiting[l]
  <2>1. /\ w \in Seq(Task) /\ IsInjective(w) /\ r \notin ToSet(w)
        /\ waiting'[l] = addtask(w, r)
    BY <1>1, <1>3, <1>4
  <2> HIDE DEF w
  <2>2. /\ addtask(w, r) \in Seq(Task) /\ addtask(w, r) # <<>>
        /\ ToSet(addtask(w, r)) = ToSet(w) \cup {r}
        /\ IsInjective(addtask(w, r))
    BY <2>1, AddTaskFacts
  <2> QED BY <2>1, <2>2 DEF w
<1>6. \A m \in Lock : m # l => waiting'[m] = waiting[m]
  BY <1>1, <1>4
<1>7. TypeOK'
  <2>1. waiting' \in [Lock -> Seq(Task)]
    BY <1>1, <1>4, <1>5
  <2> QED BY <1>1, <1>2, <2>1 DEF TypeOK, LockTypeOK, SchedTypeOK
<1>8. QueueOK' /\ MutualExclusion'
  BY <1>1, <1>2 DEF QueueOK, MutualExclusion
<1>9. LockOK'
  <2> SUFFICES ASSUME NEW m \in Lock
               PROVE  LockOK!(m)'
    BY DEF LockOK
  <2>1. CASE m = l
    <3>1. owner[l] # r
      BY <1>1, <1>2, <1>3 DEF LockOK
    <3> QED BY <1>1, <1>2, <1>3, <1>4, <1>5, <2>1, <3>1 DEF LockOK
  <2>2. CASE m # l
    <3>1. \A t \in Task : call'[t] = m <=> call[t] = m
      BY <1>3, <1>4, <2>2
    <3>2. ToSet(waiting[m]) \subseteq Task
      BY <1>4, ToSetFacts
    <3> QED BY <1>1, <1>2, <1>4, <1>6, <2>2, <3>1, <3>2 DEF LockOK
  <2> QED BY <2>1, <2>2
<1>10. SleepOK'
  <2>1. \A z \in Rendez : ToSet(sleepers[z]) \subseteq Task
    BY <1>2, ToSetFacts DEF TypeOK
  <2> QED BY <1>1, <1>2, <1>3, <1>4, <2>1, RendezAssumption DEF SleepOK
<1>11. GoneOK'
  BY <1>1, <1>2, <1>3, <1>4 DEF GoneOK, Off, Running, TypeOK, LockTypeOK
<1>12. Apart'
  BY <1>1, <1>2, <1>3, <1>5, <1>6 DEF Apart, Off, Running
<1>13. Placed'
  <2> SUFFICES ASSUME NEW t \in Task, t \notin ToSet(taskrunqueue)
               PROVE  \/ t \in gone
                      \/ call'[t] \in Lock /\ t \in ToSet(waiting'[call'[t]])
                      \/ call'[t] \in Rendez /\ t \in ToSet(sleepers[call'[t]])
    BY <1>1 DEF Placed, Off
  <2>1. CASE t = r
    BY <1>4, <1>5, <2>1
  <2>2. CASE t # r
    <3>1. Off(t) /\ call'[t] = call[t]
      BY <1>3, <1>4, <2>2 DEF Off, Running
    <3> QED BY <1>2, <1>3, <1>5, <1>6, <3>1 DEF Placed
  <2> QED BY <2>1, <2>2
<1> QED BY <1>1, <1>2, <1>7, <1>8, <1>9, <1>10, <1>11, <1>12, <1>13 DEF Inv

\* tasksleep without a lock returns; and calls that change nothing.
LEMMA ReturnInv ==
  ASSUME Inv, NEW r \in Task, Running(r), call[r] \in Rendez \cup {nil},
         call' = [call EXCEPT ![r] = nil],
         UNCHANGED <<schedvars, owner, waiting, held, gone, rendezvars>>
  PROVE  Inv'
<1>1. UNCHANGED <<taskrunqueue, taskrunning, ready, control, rl, sleepers>>
  BY DEF schedvars, rendezvars
<1>2. /\ TypeOK /\ QueueOK /\ control # "aborted" /\ MutualExclusion /\ LockOK
      /\ SleepOK /\ GoneOK /\ Apart /\ Placed
  BY DEF Inv
<1>3. /\ r \notin gone /\ \A m \in Lock : r \notin ToSet(waiting[m])
      /\ \A z \in Rendez : r \notin ToSet(sleepers[z])
      /\ r \notin ToSet(taskrunqueue) /\ call[r] \notin Lock
      /\ \A m \in Lock : ToSet(waiting[m]) \subseteq Task
      /\ \A z \in Rendez : ToSet(sleepers[z]) \subseteq Task
  BY <1>2, RunningFacts, ToSetFacts, LockAssumption, RendezAssumption
     DEF TypeOK, LockTypeOK
<1>4. call \in [Task -> Lock \cup Rendez \cup {nil}] /\ owner \in [Lock -> Task \cup {nil}]
  BY <1>2 DEF TypeOK, LockTypeOK
<1>5. TypeOK' /\ QueueOK' /\ MutualExclusion'
  BY <1>1, <1>2 DEF TypeOK, LockTypeOK, SchedTypeOK, QueueOK, MutualExclusion
<1>6. LockOK'
  <2>1. \A t \in Task, m \in Lock : call'[t] = m <=> call[t] = m
    BY <1>3, <1>4, LockAssumption
  <2> QED BY <1>1, <1>2, <1>3, <1>4, <2>1 DEF LockOK
<1>7. SleepOK'
  BY <1>1, <1>2, <1>3, <1>4, RendezAssumption DEF SleepOK
<1>8. GoneOK' /\ Apart' /\ Placed'
  BY <1>1, <1>2, <1>3, <1>4 DEF GoneOK, Apart, Placed, Off, Running, Ended, TypeOK, LockTypeOK
<1> QED BY <1>1, <1>2, <1>5, <1>6, <1>7, <1>8 DEF Inv

\* qlock resumes: it owns the lock.
LEMMA ResumeInv ==
  ASSUME Inv, NEW r \in Task, qlockresume(r), UNCHANGED rendezvars
  PROVE  Inv'
<1> DEFINE l == call[r]
<1>1. /\ TypeOK /\ QueueOK /\ control # "aborted" /\ MutualExclusion /\ LockOK
      /\ SleepOK /\ GoneOK /\ Apart /\ Placed
  BY DEF Inv
<1>2. Running(r) /\ l \in Lock /\ r \in Task
  BY DEF qlockresume
<1>3. /\ r \notin gone /\ \A m \in Lock : r \notin ToSet(waiting[m])
      /\ \A z \in Rendez : r \notin ToSet(sleepers[z])
      /\ \A m \in Lock : ToSet(waiting[m]) \subseteq Task
      /\ \A z \in Rendez : ToSet(sleepers[z]) \subseteq Task
  BY <1>1, <1>2, RunningFacts, ToSetFacts DEF TypeOK, LockTypeOK
<1>4. owner[l] = r
  BY <1>1, <1>2, <1>3 DEF LockOK
<1>5. /\ held' = [held EXCEPT ![r] = held[r] \cup {l}]
      /\ call' = [call EXCEPT ![r] = nil]
      /\ UNCHANGED <<taskrunqueue, taskrunning, ready, control, owner, waiting, gone,
                     rl, sleepers>>
  BY <1>1, <1>4 DEF qlockresume, rendezvars, TypeOK, LockTypeOK
<1>6. /\ call \in [Task -> Lock \cup Rendez \cup {nil}] /\ held \in [Task -> SUBSET Lock]
      /\ owner \in [Lock -> Task \cup {nil}]
  BY <1>1 DEF TypeOK, LockTypeOK
<1> HIDE DEF l
<1>7. TypeOK' /\ QueueOK'
  BY <1>1, <1>2, <1>5 DEF TypeOK, LockTypeOK, SchedTypeOK, QueueOK
<1>8. MutualExclusion'
  BY <1>1, <1>4, <1>5, <1>6 DEF MutualExclusion
<1>9. LockOK'
  <2> SUFFICES ASSUME NEW m \in Lock
               PROVE  LockOK!(m)'
    BY DEF LockOK
  <2>1. \A t \in Task : call'[t] = m => call[t] = m
    BY <1>5, <1>6, LockAssumption
  <2>2. \A t \in ToSet(waiting[m]) : t \in Task /\ call'[t] = call[t]
    BY <1>3, <1>5, <1>6
  <2>3. owner[m] # nil => m \in held'[owner[m]] \/ call'[owner[m]] = m
    <3>1. CASE m = l
      BY <1>4, <1>5, <1>6, <3>1
    <3>2. CASE m # l /\ owner[m] # nil
      <4>1. owner[m] \in Task /\ (m \in held[owner[m]] \/ call[owner[m]] = m)
        BY <1>1, <1>6, <3>2 DEF LockOK
      <4> QED BY <1>5, <1>6, <3>2, <4>1 DEF l
    <3> QED BY <3>1, <3>2
  <2> QED BY <1>1, <1>5, <2>1, <2>2, <2>3 DEF LockOK
<1>10. SleepOK'
  BY <1>1, <1>2, <1>3, <1>5, <1>6, RendezAssumption DEF SleepOK
<1>11. GoneOK' /\ Apart' /\ Placed'
  BY <1>1, <1>2, <1>3, <1>5, <1>6 DEF GoneOK, Apart, Placed, Off, Running, Ended, TypeOK, LockTypeOK
<1> QED BY <1>1, <1>5, <1>7, <1>8, <1>9, <1>10, <1>11 DEF Inv

\* What handing a lock over does: G is the next owner, if there is one.
LEMMA HandoffFacts ==
  ASSUME Inv, NEW l \in Lock, owner[l] # nil, handoff(l)
  PROVE  \E G \in SUBSET ToSet(waiting[l]) :
           /\ taskrunqueue' \in Seq(Task) /\ ready' \in [Task -> BOOLEAN]
           /\ ToSet(taskrunqueue') = ToSet(taskrunqueue) \cup G
           /\ IsInjective(taskrunqueue') /\ \A t \in ToSet(taskrunqueue') : ready'[t]
           /\ owner' \in [Lock -> Task \cup {nil}] /\ waiting' \in [Lock -> Seq(Task)]
           /\ \A m \in Lock : m # l => owner'[m] = owner[m] /\ waiting'[m] = waiting[m]
           /\ IsInjective(waiting'[l]) /\ ToSet(waiting'[l]) = ToSet(waiting[l]) \ G
           /\ waiting'[l] # <<>> => owner'[l] # nil
           /\ G = (IF owner'[l] = nil THEN {} ELSE {owner'[l]})
           /\ waiting[l] = <<>> => owner'[l] = nil /\ waiting'[l] = <<>>
           /\ waiting[l] # <<>> => /\ owner'[l] = Head(waiting[l])
                                   /\ waiting'[l] = Tail(waiting[l])
<1> DEFINE w == waiting[l]
<1>1. /\ SchedTypeOK /\ QueueOK /\ LockOK /\ Apart
      /\ owner \in [Lock -> Task \cup {nil}] /\ waiting \in [Lock -> Seq(Task)]
      /\ taskrunqueue \in Seq(Task) /\ ready \in [Task -> BOOLEAN]
  BY DEF Inv, TypeOK, LockTypeOK, SchedTypeOK
<1>2. w \in Seq(Task) /\ IsInjective(w)
  BY <1>1 DEF LockOK
<1>3. ToSet(<<>>) = {} /\ IsInjective(<<>>)
  BY DEF ToSet, IsInjective
<1>4. IsInjective(taskrunqueue) /\ \A t \in ToSet(taskrunqueue) : ready[t]
  BY <1>1, ToSetFacts DEF QueueOK
<1>5. CASE w = <<>>
  <2>1. owner' = [owner EXCEPT ![l] = nil] /\ UNCHANGED <<taskrunqueue, ready, waiting>>
    BY <1>5 DEF handoff
  <2> WITNESS {} \in SUBSET ToSet(waiting[l])
  <2> QED BY <1>1, <1>3, <1>4, <1>5, <2>1
<1>6. CASE w # <<>>
  <2> DEFINE h == Head(w)
  <2>1. /\ owner' = [owner EXCEPT ![l] = h]
        /\ waiting' = [waiting EXCEPT ![l] = deltask(w, h)]
        /\ taskready(h)
    BY <1>1, <1>6 DEF handoff
  <2> HIDE DEF w
  <2>2. /\ deltask(w, h) = Tail(w) /\ Tail(w) \in Seq(Task)
        /\ h \in Task /\ h \in ToSet(w)
        /\ IsInjective(Tail(w)) /\ ToSet(Tail(w)) = ToSet(w) \ {h}
    BY <1>2, <1>6, DelHeadFacts
  <2> HIDE DEF h
  <2>3. h \notin ToSet(taskrunqueue)
    BY <1>1, <2>2 DEF Apart, Off, w
  <2>4. /\ taskrunqueue' \in Seq(Task) /\ ready' \in [Task -> BOOLEAN]
        /\ ToSet(taskrunqueue') = ToSet(taskrunqueue) \cup {h}
        /\ IsInjective(taskrunqueue') /\ \A t \in ToSet(taskrunqueue') : ready'[t]
    BY <1>1, <2>1, <2>2, <2>3, ReadyQueue
  <2>5. /\ owner' \in [Lock -> Task \cup {nil}] /\ waiting' \in [Lock -> Seq(Task)]
        /\ \A m \in Lock : m # l => owner'[m] = owner[m] /\ waiting'[m] = waiting[m]
        /\ owner'[l] = h /\ waiting'[l] = Tail(w) /\ h # nil
    BY <1>1, <2>1, <2>2, TaskAssumption
  <2>6. {h} \in SUBSET ToSet(waiting[l])
    BY <2>2 DEF w
  <2> QED BY <1>6, <2>2, <2>4, <2>5, <2>6 DEF w, h
<1> QED BY <1>5, <1>6

\* Giving up a lock, in qunlock and in tasksleep: the lock passes to its first
\* waiter, which leaves the list for the run queue.
LEMMA ReleaseFacts ==
  ASSUME Inv, NEW r \in Task, NEW l \in Lock, Idle(r), l \in held[r], handoff(l),
         held' = [held EXCEPT ![r] = @ \ {l}],
         \A t \in Task, m \in Lock : call'[t] = m <=> call[t] = m
  PROVE  /\ owner[l] = r
         /\ taskrunqueue' \in Seq(Task) /\ ready' \in [Task -> BOOLEAN]
         /\ owner' \in [Lock -> Task \cup {nil}] /\ waiting' \in [Lock -> Seq(Task)]
         /\ held' \in [Task -> SUBSET Lock]
         /\ IsInjective(taskrunqueue') /\ \A t \in ToSet(taskrunqueue') : ready'[t]
         /\ r \notin ToSet(taskrunqueue')
         /\ MutualExclusion' /\ LockOK'
         /\ ToSet(waiting'[l]) \subseteq ToSet(waiting[l])
         /\ ToSet(taskrunqueue') =
              ToSet(taskrunqueue) \cup (ToSet(waiting[l]) \ ToSet(waiting'[l]))
<1>1. /\ MutualExclusion /\ LockOK /\ Apart
      /\ owner \in [Lock -> Task \cup {nil}] /\ waiting \in [Lock -> Seq(Task)]
      /\ held \in [Task -> SUBSET Lock]
  BY DEF Inv, TypeOK, LockTypeOK
<1>2. owner[l] = r /\ owner[l] # nil
  BY <1>1, TaskAssumption DEF MutualExclusion
<1>3. /\ r \notin ToSet(taskrunqueue) /\ r \notin ToSet(waiting[l])
      /\ \A m \in Lock : ToSet(waiting[m]) \subseteq Task
  BY <1>1, RunningFacts, ToSetFacts DEF Idle
<1>4. PICK G \in SUBSET ToSet(waiting[l]) :
           /\ taskrunqueue' \in Seq(Task) /\ ready' \in [Task -> BOOLEAN]
           /\ ToSet(taskrunqueue') = ToSet(taskrunqueue) \cup G
           /\ IsInjective(taskrunqueue') /\ \A t \in ToSet(taskrunqueue') : ready'[t]
           /\ owner' \in [Lock -> Task \cup {nil}] /\ waiting' \in [Lock -> Seq(Task)]
           /\ \A m \in Lock : m # l => owner'[m] = owner[m] /\ waiting'[m] = waiting[m]
           /\ IsInjective(waiting'[l]) /\ ToSet(waiting'[l]) = ToSet(waiting[l]) \ G
           /\ waiting'[l] # <<>> => owner'[l] # nil
           /\ G = (IF owner'[l] = nil THEN {} ELSE {owner'[l]})
  BY <1>2, HandoffFacts
<1>5. /\ held' \in [Task -> SUBSET Lock]
      /\ \A t \in Task, m \in Lock : m \in held'[t] <=> m \in held[t] /\ ~(t = r /\ m = l)
  BY <1>1
<1>6. MutualExclusion'
  <2> SUFFICES ASSUME NEW t \in Task, NEW m \in held'[t]
               PROVE  owner'[m] = t
    BY DEF MutualExclusion
  <2>1. m \in Lock /\ m \in held[t] /\ ~(t = r /\ m = l) /\ owner[m] = t
    BY <1>1, <1>5 DEF MutualExclusion
  <2> QED BY <1>2, <1>4, <2>1
<1>7. LockOK'
  <2> SUFFICES ASSUME NEW m \in Lock
               PROVE  LockOK!(m)'
    BY DEF LockOK
  <2>1. CASE m = l
    <3>1. /\ waiting'[l] # <<>> => owner'[l] # nil
          /\ owner'[l] \notin ToSet(waiting'[l])
          /\ IsInjective(waiting'[l])
      <4>1. nil \notin ToSet(waiting[l])
        BY <1>3, TaskAssumption
      <4> QED BY <1>4, <4>1
    <3>2. \A t \in Task : call'[t] = l => t \in ToSet(waiting'[l]) \/ owner'[l] = t
      <4> SUFFICES ASSUME NEW t \in Task, call[t] = l
                   PROVE  t \in ToSet(waiting'[l]) \/ owner'[l] = t
        OBVIOUS
      <4>1. t \in ToSet(waiting[l]) \/ t = r
        BY <1>1, <1>2 DEF LockOK
      <4>2. t # r
        BY LockAssumption DEF Idle
      <4> QED BY <1>4, <4>1, <4>2
    <3>3. \A t \in ToSet(waiting'[l]) : call'[t] = l
      BY <1>1, <1>3, <1>4 DEF LockOK
    <3>4. owner'[l] # nil => l \in held'[owner'[l]] \/ call'[owner'[l]] = l
      BY <1>1, <1>3, <1>4 DEF LockOK
    <3> QED BY <2>1, <3>1, <3>2, <3>3, <3>4
  <2>2. CASE m # l
    <3>1. \A t \in Task : m \in held'[t] <=> m \in held[t]
      BY <1>5, <2>2
    <3> QED BY <1>1, <1>3, <1>4, <2>2, <3>1 DEF LockOK
  <2> QED BY <2>1, <2>2
<1>8. r \notin ToSet(taskrunqueue')
  BY <1>3, <1>4
<1> QED BY <1>2, <1>4, <1>5, <1>6, <1>7, <1>8

LEMMA QunlockInv ==
  ASSUME Inv, NEW r \in Task, NEW l \in Lock, qunlock(r, l), UNCHANGED rendezvars
  PROVE  Inv'
<1>1. /\ TypeOK /\ QueueOK /\ control # "aborted" /\ MutualExclusion /\ LockOK
      /\ SleepOK /\ GoneOK /\ Apart /\ Placed
  BY DEF Inv
<1>2. /\ Idle(r) /\ l \in held[r] /\ held' = [held EXCEPT ![r] = @ \ {l}]
      /\ UNCHANGED <<taskrunning, call, gone, rl, sleepers>>
  BY DEF qunlock, rendezvars
<1>3. owner[l] # nil
  BY <1>1, <1>2, TaskAssumption DEF MutualExclusion
<1>4. handoff(l) /\ control' = control
  BY <1>3 DEF qunlock
<1>5. \A t \in Task, m \in Lock : call'[t] = m <=> call[t] = m
  BY <1>2
<1>6. /\ taskrunqueue' \in Seq(Task) /\ ready' \in [Task -> BOOLEAN]
      /\ owner' \in [Lock -> Task \cup {nil}] /\ waiting' \in [Lock -> Seq(Task)]
      /\ held' \in [Task -> SUBSET Lock]
      /\ IsInjective(taskrunqueue') /\ \A t \in ToSet(taskrunqueue') : ready'[t]
      /\ r \notin ToSet(taskrunqueue')
      /\ MutualExclusion' /\ LockOK'
  BY <1>2, <1>4, <1>5, ReleaseFacts
<1>7. PICK G \in SUBSET ToSet(waiting[l]) :
        /\ ToSet(taskrunqueue') = ToSet(taskrunqueue) \cup G
        /\ ToSet(waiting'[l]) = ToSet(waiting[l]) \ G
        /\ \A m \in Lock : m # l => waiting'[m] = waiting[m]
  <2> DEFINE H == ToSet(waiting[l]) \ ToSet(waiting'[l])
  <2>1. /\ ToSet(waiting'[l]) \subseteq ToSet(waiting[l])
        /\ ToSet(taskrunqueue') = ToSet(taskrunqueue) \cup H
        /\ \A m \in Lock : m # l => waiting'[m] = waiting[m]
    <3>1. ToSet(waiting'[l]) \subseteq ToSet(waiting[l])
      BY <1>2, <1>4, <1>5, ReleaseFacts, Zenon
    <3>2. ToSet(taskrunqueue') =
            ToSet(taskrunqueue) \cup (ToSet(waiting[l]) \ ToSet(waiting'[l]))
      BY <1>2, <1>4, <1>5, ReleaseFacts, Zenon
    <3>3. \A m \in Lock : m # l => waiting'[m] = waiting[m]
      BY <1>1, <1>4 DEF handoff, TypeOK, LockTypeOK
    <3> QED BY <3>1, <3>2, <3>3
  <2>2. H \in SUBSET ToSet(waiting[l]) /\ ToSet(waiting'[l]) = ToSet(waiting[l]) \ H
    BY <2>1
  <2> HIDE DEF H
  <2> QED BY <2>1, <2>2
<1>8. /\ control = "task" /\ taskrunning = r /\ ~Ended /\ r \notin gone
      /\ \A m \in Lock : r \notin ToSet(waiting[m])
  BY <1>2, RunningFacts DEF Idle
<1>9. \A t \in G : call[t] = l /\ t \notin gone
  <2>1. \A t \in G : call[t] = l
    BY <1>1 DEF LockOK
  <2> QED BY <1>1, <2>1, LockAssumption DEF GoneOK
<1>10. TypeOK' /\ QueueOK'
  <2>1. SchedTypeOK'
    BY <1>1, <1>2, <1>4, <1>6 DEF TypeOK, LockTypeOK, SchedTypeOK
  <2> QED BY <1>1, <1>2, <1>6, <1>8, <2>1 DEF TypeOK, LockTypeOK, QueueOK
<1>11. SleepOK'
  <2>1. \A t \in Task : held'[t] \subseteq held[t]
    BY <1>1, <1>2 DEF TypeOK, LockTypeOK
  <2> QED BY <1>1, <1>2, <2>1 DEF SleepOK
<1>12. GoneOK'
  <2>1. \A t \in gone : t \in Task /\ t # r /\ held'[t] = held[t]
    BY <1>1, <1>2, <1>8 DEF TypeOK, LockTypeOK
  <2> QED BY <1>1, <1>2, <1>4, <1>7, <1>9, <2>1 DEF GoneOK, Off, Running
<1>13. Apart'
  <2>1. \A t \in Task, m \in Lock : t \in ToSet(waiting'[m]) =>
           t \in ToSet(waiting[m]) /\ t \notin G
    <3>1. \A t \in G, m \in Lock : t \in ToSet(waiting[m]) => m = l
      BY <1>1, <1>9 DEF LockOK
    <3> QED BY <1>7, <3>1
  <2>2. \A t \in G, z \in Rendez : t \notin ToSet(sleepers[z])
    BY <1>1, <1>9, RendezAssumption DEF SleepOK
  <2> QED BY <1>1, <1>2, <1>4, <1>7, <2>1, <2>2 DEF Apart, Off, Running
<1>14. Placed'
  <2> SUFFICES ASSUME NEW t \in Task, Off(t)'
               PROVE  \/ t \in gone
                      \/ call[t] \in Lock /\ t \in ToSet(waiting'[call[t]])
                      \/ call[t] \in Rendez /\ t \in ToSet(sleepers[call[t]])
    BY <1>2 DEF Placed
  <2>1. Off(t) /\ t \notin G
    BY <1>2, <1>4, <1>7 DEF Off, Running
  <2> QED BY <1>1, <1>7, <1>8, <2>1 DEF Placed
<1> QED BY <1>1, <1>4, <1>6, <1>10, <1>11, <1>12, <1>13, <1>14 DEF Inv

\* tasksleep with a lock: the caller is on the Rendez and the lock is handed on.
LEMMA SleepLockInv ==
  ASSUME Inv, NEW r \in Task, NEW z \in Rendez, tasksleep(r, z), rl[z] # nil
  PROVE  Inv'
<1> DEFINE l == rl[z]
<1>1. /\ TypeOK /\ QueueOK /\ control # "aborted" /\ MutualExclusion /\ LockOK
      /\ SleepOK /\ GoneOK /\ Apart /\ Placed
  BY DEF Inv
<1>2. /\ call \in [Task -> Lock \cup Rendez \cup {nil}] /\ held \in [Task -> SUBSET Lock]
      /\ sleepers \in [Rendez -> Seq(Task)] /\ rl \in [Rendez -> Lock \cup {nil}]
      /\ \A y \in Rendez : ToSet(sleepers[y]) \subseteq Task
      /\ gone \subseteq Task
  BY <1>1, ToSetFacts DEF TypeOK, LockTypeOK
<1>3. /\ Idle(r) /\ l \in Lock /\ l \in held[r] /\ handoff(l)
      /\ held' = [held EXCEPT ![r] = @ \ {l}]
      /\ sleepers' = [sleepers EXCEPT ![z] = addtask(sleepers[z], r)]
      /\ call' = [call EXCEPT ![r] = z]
      /\ control' = "sched" /\ UNCHANGED <<taskrunning, gone, rl>>
  BY <1>2 DEF tasksleep, givenup, taskswitch
<1> HIDE DEF l
<1>4. /\ control = "task" /\ taskrunning = r /\ ~Ended /\ r \notin gone /\ call[r] = nil
      /\ \A m \in Lock : r \notin ToSet(waiting[m])
      /\ \A y \in Rendez : r \notin ToSet(sleepers[y])
  BY <1>3, RunningFacts DEF Idle
<1>5. \A t \in Task, m \in Lock : call'[t] = m <=> call[t] = m
  BY <1>2, <1>3, <1>4, LockAssumption, RendezAssumption
<1>6. /\ taskrunqueue' \in Seq(Task) /\ ready' \in [Task -> BOOLEAN]
      /\ owner' \in [Lock -> Task \cup {nil}] /\ waiting' \in [Lock -> Seq(Task)]
      /\ held' \in [Task -> SUBSET Lock]
      /\ IsInjective(taskrunqueue') /\ \A t \in ToSet(taskrunqueue') : ready'[t]
      /\ r \notin ToSet(taskrunqueue')
      /\ MutualExclusion' /\ LockOK'
  BY <1>3, <1>5, ReleaseFacts
<1>7. PICK G \in SUBSET ToSet(waiting[l]) :
        /\ ToSet(taskrunqueue') = ToSet(taskrunqueue) \cup G
        /\ ToSet(waiting'[l]) = ToSet(waiting[l]) \ G
        /\ \A m \in Lock : m # l => waiting'[m] = waiting[m]
  <2> DEFINE H == ToSet(waiting[l]) \ ToSet(waiting'[l])
  <2>1. /\ ToSet(waiting'[l]) \subseteq ToSet(waiting[l])
        /\ ToSet(taskrunqueue') = ToSet(taskrunqueue) \cup H
        /\ \A m \in Lock : m # l => waiting'[m] = waiting[m]
    <3>1. ToSet(waiting'[l]) \subseteq ToSet(waiting[l])
      BY <1>3, <1>5, ReleaseFacts, Zenon
    <3>2. ToSet(taskrunqueue') =
            ToSet(taskrunqueue) \cup (ToSet(waiting[l]) \ ToSet(waiting'[l]))
      BY <1>3, <1>5, ReleaseFacts, Zenon
    <3>3. \A m \in Lock : m # l => waiting'[m] = waiting[m]
      BY <1>1, <1>3 DEF handoff, TypeOK, LockTypeOK
    <3> QED BY <3>1, <3>2, <3>3
  <2>2. H \in SUBSET ToSet(waiting[l]) /\ ToSet(waiting'[l]) = ToSet(waiting[l]) \ H
    BY <2>1
  <2> HIDE DEF H
  <2> QED BY <2>1, <2>2
<1>8. \A t \in G : call[t] = l /\ t \notin gone
  <2>1. \A t \in G : call[t] = l
    BY <1>1, <1>3 DEF LockOK
  <2> QED BY <1>1, <1>3, <2>1, LockAssumption DEF GoneOK
<1>9. /\ sleepers'[z] \in Seq(Task) /\ IsInjective(sleepers'[z])
      /\ ToSet(sleepers'[z]) = ToSet(sleepers[z]) \cup {r}
      /\ \A y \in Rendez : y # z => sleepers'[y] = sleepers[y]
  <2> DEFINE w == sleepers[z]
  <2>1. /\ w \in Seq(Task) /\ IsInjective(w) /\ r \notin ToSet(w)
        /\ sleepers'[z] = addtask(w, r)
        /\ \A y \in Rendez : y # z => sleepers'[y] = sleepers[y]
    BY <1>1, <1>2, <1>3, <1>4 DEF SleepOK
  <2> HIDE DEF w
  <2>2. /\ addtask(w, r) \in Seq(Task) /\ ToSet(addtask(w, r)) = ToSet(w) \cup {r}
        /\ IsInjective(addtask(w, r))
    BY <2>1, AddTaskFacts
  <2> QED BY <2>1, <2>2 DEF w
<1>10. TypeOK' /\ QueueOK'
  <2>1. SchedTypeOK'
    BY <1>1, <1>3, <1>6 DEF TypeOK, LockTypeOK, SchedTypeOK
  <2>2. sleepers' \in [Rendez -> Seq(Task)]
    BY <1>2, <1>3, <1>9
  <2> QED BY <1>1, <1>2, <1>3, <1>6, <2>1, <2>2 DEF TypeOK, LockTypeOK, QueueOK
<1>11. SleepOK'
  <2>1. \A t \in Task : held'[t] \subseteq held[t] /\ l \notin held'[r]
    BY <1>2, <1>3
  <2>2. \A y \in Rendez : IsInjective(sleepers'[y])
    BY <1>1, <1>9 DEF SleepOK
  <2>3. \A y \in Rendez : \A t \in ToSet(sleepers'[y]) : call'[t] = y
    BY <1>1, <1>2, <1>3, <1>4, <1>9, RendezAssumption DEF SleepOK
  <2>4. \A t \in Task : call'[t] \in Rendez => rl[call'[t]] \notin held'[t]
    BY <1>1, <1>2, <1>3, <2>1 DEF SleepOK, l
  <2> QED BY <1>3, <2>2, <2>3, <2>4 DEF SleepOK
<1>12. GoneOK'
  <2>1. \A t \in gone : t # r /\ held'[t] = held[t] /\ call'[t] = call[t]
    BY <1>2, <1>3, <1>4
  <2> QED BY <1>1, <1>3, <1>7, <1>8, <2>1 DEF GoneOK, Off, Running
<1>13. Apart'
  <2>1. \A t \in Task, m \in Lock : t \in ToSet(waiting'[m]) =>
           t \in ToSet(waiting[m]) /\ t \notin G
    <3>1. \A t \in G, m \in Lock : t \in ToSet(waiting[m]) => m = l
      BY <1>1, <1>8 DEF LockOK
    <3> QED BY <1>3, <1>7, <3>1
  <2>2. \A t \in G, y \in Rendez : t \notin ToSet(sleepers[y])
    BY <1>1, <1>3, <1>8, RendezAssumption DEF SleepOK
  <2>3. \A t \in Task : t \in ToSet(taskrunqueue') => t \in ToSet(taskrunqueue) \cup G
    BY <1>7
  <2>4. \A t \in Task, m \in Lock : t \in ToSet(waiting'[m]) => Off(t)'
    BY <1>1, <1>3, <2>1, <2>3 DEF Apart, Off, Running
  <2>5. \A t \in Task, y \in Rendez : t \in ToSet(sleepers'[y]) => Off(t)'
    BY <1>1, <1>3, <1>6, <1>9, <2>2, <2>3 DEF Apart, Off, Running
  <2> QED BY <2>4, <2>5 DEF Apart
<1>14. Placed'
  <2> SUFFICES ASSUME NEW t \in Task, Off(t)'
               PROVE  \/ t \in gone
                      \/ call'[t] \in Lock /\ t \in ToSet(waiting'[call'[t]])
                      \/ call'[t] \in Rendez /\ t \in ToSet(sleepers'[call'[t]])
    BY <1>3 DEF Placed
  <2>1. CASE t = r
    BY <1>2, <1>3, <1>9, <2>1
  <2>2. CASE t # r
    <3>1. Off(t) /\ t \notin G /\ call'[t] = call[t]
      BY <1>2, <1>3, <1>4, <1>7, <2>2 DEF Off, Running
    <3> QED BY <1>1, <1>4, <1>7, <1>9, <3>1 DEF Placed
  <2> QED BY <2>1, <2>2
<1> QED BY <1>1, <1>3, <1>6, <1>10, <1>11, <1>12, <1>13, <1>14 DEF Inv

\* tasksleep without a lock.
LEMMA SleepOnlyInv ==
  ASSUME Inv, NEW r \in Task, NEW z \in Rendez, tasksleep(r, z), rl[z] = nil
  PROVE  Inv'
<1>1. /\ TypeOK /\ QueueOK /\ control # "aborted" /\ MutualExclusion /\ LockOK
      /\ SleepOK /\ GoneOK /\ Apart /\ Placed
  BY DEF Inv
<1>2. /\ call \in [Task -> Lock \cup Rendez \cup {nil}] /\ held \in [Task -> SUBSET Lock]
      /\ sleepers \in [Rendez -> Seq(Task)] /\ owner \in [Lock -> Task \cup {nil}]
      /\ \A y \in Rendez : ToSet(sleepers[y]) \subseteq Task
      /\ \A m \in Lock : ToSet(waiting[m]) \subseteq Task
      /\ gone \subseteq Task
  BY <1>1, ToSetFacts DEF TypeOK, LockTypeOK
<1>3. /\ Idle(r) /\ UNCHANGED <<taskrunqueue, ready, owner, waiting, held>>
      /\ sleepers' = [sleepers EXCEPT ![z] = addtask(sleepers[z], r)]
      /\ call' = [call EXCEPT ![r] = z]
      /\ control' = "sched" /\ UNCHANGED <<taskrunning, gone, rl>>
  BY <1>2 DEF tasksleep, givenup, taskswitch
<1>4. /\ control = "task" /\ taskrunning = r /\ ~Ended /\ r \notin gone /\ call[r] = nil
      /\ r \notin ToSet(taskrunqueue)
      /\ \A m \in Lock : r \notin ToSet(waiting[m])
      /\ \A y \in Rendez : r \notin ToSet(sleepers[y])
  BY <1>3, RunningFacts DEF Idle
<1>5. \A t \in Task, m \in Lock : call'[t] = m <=> call[t] = m
  BY <1>2, <1>3, <1>4, LockAssumption, RendezAssumption
<1>6. /\ sleepers'[z] \in Seq(Task) /\ IsInjective(sleepers'[z])
      /\ ToSet(sleepers'[z]) = ToSet(sleepers[z]) \cup {r}
      /\ \A y \in Rendez : y # z => sleepers'[y] = sleepers[y]
  <2> DEFINE w == sleepers[z]
  <2>1. /\ w \in Seq(Task) /\ IsInjective(w) /\ r \notin ToSet(w)
        /\ sleepers'[z] = addtask(w, r)
        /\ \A y \in Rendez : y # z => sleepers'[y] = sleepers[y]
    BY <1>1, <1>2, <1>3, <1>4 DEF SleepOK
  <2> HIDE DEF w
  <2>2. /\ addtask(w, r) \in Seq(Task) /\ ToSet(addtask(w, r)) = ToSet(w) \cup {r}
        /\ IsInjective(addtask(w, r))
    BY <2>1, AddTaskFacts
  <2> QED BY <2>1, <2>2 DEF w
<1>7. TypeOK' /\ QueueOK' /\ MutualExclusion'
  <2>1. sleepers' \in [Rendez -> Seq(Task)]
    BY <1>2, <1>3, <1>6
  <2> QED BY <1>1, <1>3, <2>1 DEF TypeOK, LockTypeOK, SchedTypeOK, QueueOK, MutualExclusion
<1>8. LockOK'
  BY <1>1, <1>2, <1>3, <1>5 DEF LockOK
<1>9. SleepOK'
  <2>1. \A y \in Rendez : IsInjective(sleepers'[y])
    BY <1>1, <1>6 DEF SleepOK
  <2>2. \A y \in Rendez : \A t \in ToSet(sleepers'[y]) : call'[t] = y
    BY <1>1, <1>2, <1>3, <1>4, <1>6, RendezAssumption DEF SleepOK
  <2>3. \A t \in Task : call'[t] \in Rendez => rl[call'[t]] \notin held'[t]
    <3>1. nil \notin held[r]
      BY <1>2, LockAssumption
    <3> QED BY <1>1, <1>2, <1>3, <3>1 DEF SleepOK
  <2> QED BY <1>3, <2>1, <2>2, <2>3 DEF SleepOK
<1>10. GoneOK'
  BY <1>1, <1>2, <1>3, <1>4 DEF GoneOK, Off, Running
<1>11. Apart'
  BY <1>1, <1>3, <1>4, <1>6 DEF Apart, Off, Running
<1>12. Placed'
  <2> SUFFICES ASSUME NEW t \in Task, Off(t)'
               PROVE  \/ t \in gone
                      \/ call'[t] \in Lock /\ t \in ToSet(waiting[call'[t]])
                      \/ call'[t] \in Rendez /\ t \in ToSet(sleepers'[call'[t]])
    BY <1>3 DEF Placed
  <2>1. CASE t = r
    BY <1>2, <1>3, <1>6, <2>1
  <2>2. CASE t # r
    <3>1. Off(t) /\ call'[t] = call[t]
      BY <1>2, <1>3, <1>4, <2>2 DEF Off, Running
    <3> QED BY <1>1, <1>4, <1>6, <3>1 DEF Placed
  <2> QED BY <2>1, <2>2
<1> QED BY <1>1, <1>3, <1>7, <1>8, <1>9, <1>10, <1>11, <1>12 DEF Inv

LEMMA WakeupInv ==
  ASSUME Inv, NEW r \in Task, NEW z \in Rendez, NEW all \in BOOLEAN, taskwakeup(r, z, all)
  PROVE  Inv'
<1> DEFINE s == sleepers[z]
           n == IF all \/ s = <<>> THEN Len(s) ELSE 1
           a == SubSeq(s, 1, n)
           b == SubSeq(s, n + 1, Len(s))
<1>1. /\ TypeOK /\ QueueOK /\ control # "aborted" /\ MutualExclusion /\ LockOK
      /\ SleepOK /\ GoneOK /\ Apart /\ Placed
  BY DEF Inv
<1>2. /\ SchedTypeOK /\ sleepers \in [Rendez -> Seq(Task)]
      /\ \A y \in Rendez : ToSet(sleepers[y]) \subseteq Task
      /\ s \in Seq(Task) /\ IsInjective(s) /\ \A t \in ToSet(s) : call[t] = z
      /\ \A t \in ToSet(s) : t \notin ToSet(taskrunqueue)
  BY <1>1, ToSetFacts DEF TypeOK, LockTypeOK, SleepOK, Apart, Off
<1>3. /\ Idle(r) /\ taskreadyeach(a)
      /\ sleepers' = [sleepers EXCEPT ![z] = b]
      /\ UNCHANGED <<taskrunning, control, owner, waiting, call, held, gone, rl>>
  BY <1>2 DEF taskwakeup, lockvars
<1>4. n \in 0 .. Len(s)
  BY <1>2, EmptySeq, LenProperties
<1> HIDE DEF n, s
<1>5. /\ a \in Seq(Task) /\ b \in Seq(Task) /\ IsInjective(a) /\ IsInjective(b)
      /\ ToSet(s) = ToSet(a) \cup ToSet(b) /\ ToSet(a) \cap ToSet(b) = {}
  BY <1>2, <1>4, CutFacts
<1> HIDE DEF a, b
<1>6. /\ taskrunqueue' \in Seq(Task) /\ ready' \in [Task -> BOOLEAN]
      /\ ToSet(taskrunqueue') = ToSet(taskrunqueue) \cup ToSet(a)
      /\ IsInjective(taskrunqueue') /\ \A u \in ToSet(taskrunqueue') : ready'[u]
  <2>1. ToSet(a) \cap ToSet(taskrunqueue) = {}
    BY <1>2, <1>5
  <2> QED BY <1>1, <1>2, <1>3, <1>5, <2>1, ReadyEachQueue
<1>7. /\ control = "task" /\ taskrunning = r /\ ~Ended /\ r \notin gone /\ call[r] = nil
      /\ r \notin ToSet(taskrunqueue) /\ r \notin ToSet(s)
  BY <1>3, RunningFacts DEF Idle, s
<1>8. /\ sleepers'[z] = b /\ \A y \in Rendez : y # z => sleepers'[y] = sleepers[y]
      /\ sleepers' \in [Rendez -> Seq(Task)]
  BY <1>2, <1>3, <1>5
<1>9. TypeOK' /\ QueueOK'
  <2>1. SchedTypeOK'
    BY <1>2, <1>3, <1>6 DEF SchedTypeOK
  <2> QED BY <1>1, <1>3, <1>5, <1>6, <1>7, <1>8, <2>1 DEF TypeOK, LockTypeOK, QueueOK
<1>10. MutualExclusion' /\ LockOK'
  BY <1>1, <1>3 DEF MutualExclusion, LockOK
<1>11. SleepOK'
  BY <1>1, <1>2, <1>3, <1>5, <1>8 DEF SleepOK
<1>12. GoneOK'
  <2>1. \A t \in gone : t \notin ToSet(a)
    BY <1>1, <1>2, <1>5, RendezAssumption DEF GoneOK
  <2> QED BY <1>1, <1>3, <1>6, <2>1 DEF GoneOK, Off, Running
<1>13. Apart'
  <2>1. \A t \in ToSet(a), m \in Lock : t \notin ToSet(waiting[m])
    BY <1>1, <1>2, <1>5, RendezAssumption DEF LockOK
  <2>2. \A t \in ToSet(a), y \in Rendez : t \notin ToSet(sleepers'[y])
    BY <1>1, <1>2, <1>5, <1>8 DEF SleepOK
  <2>3. \A y \in Rendez : ToSet(sleepers'[y]) \subseteq ToSet(sleepers[y])
    BY <1>5, <1>8 DEF s
  <2> QED BY <1>1, <1>3, <1>6, <2>1, <2>2, <2>3 DEF Apart, Off, Running
<1>14. Placed'
  <2> SUFFICES ASSUME NEW t \in Task, Off(t)'
               PROVE  \/ t \in gone
                      \/ call[t] \in Lock /\ t \in ToSet(waiting[call[t]])
                      \/ call[t] \in Rendez /\ t \in ToSet(sleepers'[call[t]])
    BY <1>3 DEF Placed
  <2>1. Off(t) /\ t \notin ToSet(a)
    BY <1>3, <1>6 DEF Off, Running
  <2> QED BY <1>1, <1>5, <1>7, <1>8, <2>1 DEF Placed, s
<1> QED BY <1>1, <1>3, <1>9, <1>10, <1>11, <1>12, <1>13, <1>14 DEF Inv

\* The client yields or exits.
LEMMA ClientInv ==
  ASSUME Inv, NEW r \in Task, taskyield(r) \/ taskexit(r), UNCHANGED rendezvars
  PROVE  Inv'
<1>1. /\ TypeOK /\ QueueOK /\ control # "aborted" /\ MutualExclusion /\ LockOK
      /\ SleepOK /\ GoneOK /\ Apart /\ Placed /\ SchedTypeOK
  BY DEF Inv, TypeOK, LockTypeOK
<1>2. /\ Running(r) /\ call[r] = nil
      /\ UNCHANGED <<taskrunning, owner, waiting, call, held, rl, sleepers>>
      /\ control' = "sched"
  BY DEF taskyield, taskexit, yieldcpu, taskswitch, Idle, lockvars, rendezvars
<1>3. /\ control = "task" /\ taskrunning = r /\ ~Ended /\ r \notin gone
      /\ r \notin ToSet(taskrunqueue)
      /\ \A m \in Lock : r \notin ToSet(waiting[m])
      /\ \A y \in Rendez : r \notin ToSet(sleepers[y])
  BY <1>2, RunningFacts
<1>4. MutualExclusion' /\ LockOK' /\ SleepOK'
  BY <1>1, <1>2 DEF MutualExclusion, LockOK, SleepOK
<1>5. CASE taskyield(r)
  <2>1. taskready(r) /\ UNCHANGED gone
    BY <1>5 DEF taskyield, yieldcpu, lockvars
  <2>2. /\ taskrunqueue' \in Seq(Task) /\ ready' \in [Task -> BOOLEAN]
        /\ ToSet(taskrunqueue') = ToSet(taskrunqueue) \cup {r}
        /\ IsInjective(taskrunqueue') /\ \A u \in ToSet(taskrunqueue') : ready'[u]
    BY <1>1, <1>3, <2>1, ReadyQueue
  <2>3. TypeOK' /\ QueueOK'
    <3>1. SchedTypeOK'
      BY <1>1, <1>2, <2>2 DEF SchedTypeOK
    <3> QED BY <1>1, <1>2, <2>1, <2>2, <3>1 DEF TypeOK, LockTypeOK, QueueOK
  <2>4. GoneOK' /\ Apart' /\ Placed'
    BY <1>1, <1>2, <1>3, <2>1, <2>2 DEF GoneOK, Apart, Placed, Off, Running
  <2> QED BY <1>2, <1>4, <2>3, <2>4 DEF Inv
<1>6. CASE taskexit(r)
  <2>1. /\ held[r] = {} /\ gone' = gone \cup {r} /\ UNCHANGED <<taskrunqueue, ready>>
    BY <1>6 DEF taskexit
  <2>2. TypeOK' /\ QueueOK'
    BY <1>1, <1>2, <2>1 DEF TypeOK, LockTypeOK, SchedTypeOK, QueueOK
  <2>3. GoneOK' /\ Apart' /\ Placed'
    BY <1>1, <1>2, <1>3, <2>1 DEF GoneOK, Apart, Placed, Off, Running
  <2> QED BY <1>2, <1>4, <2>2, <2>3 DEF Inv
<1> QED BY <1>5, <1>6

\* The scheduler runs the next task or ends the process.
LEMMA SchedulerInv ==
  ASSUME Inv, taskscheduler
  PROVE  Inv'
<1>1. /\ TypeOK /\ QueueOK /\ control # "aborted" /\ MutualExclusion /\ LockOK
      /\ SleepOK /\ GoneOK /\ Apart /\ Placed /\ SchedTypeOK
  BY DEF Inv, TypeOK, LockTypeOK
<1>2. control = "sched" /\ UNCHANGED <<owner, waiting, call, held, gone, rl, sleepers>>
  BY DEF taskscheduler, runnext, norunnable, lockvars, rendezvars
<1>3. MutualExclusion' /\ LockOK' /\ SleepOK'
  BY <1>1, <1>2 DEF MutualExclusion, LockOK, SleepOK
<1>4. CASE runnext
  <2>1. PICK t \in Task : dispatch(t)
    BY <1>4 DEF runnext
  <2>2. /\ taskrunqueue' \in Seq(Task) /\ ready' \in [Task -> BOOLEAN]
        /\ t \in ToSet(taskrunqueue) /\ ToSet(taskrunqueue') = ToSet(taskrunqueue) \ {t}
        /\ IsInjective(taskrunqueue') /\ \A u \in ToSet(taskrunqueue') : ready'[u]
    BY <1>1, <2>1, DispatchQueue
  <2>3. taskrunning' = t /\ control' = "task"
    BY <2>1 DEF dispatch
  <2>4. TypeOK' /\ QueueOK'
    <3>1. SchedTypeOK'
      BY <2>2, <2>3 DEF SchedTypeOK
    <3> QED BY <1>1, <1>2, <2>2, <2>3, <3>1 DEF TypeOK, LockTypeOK, QueueOK
  <2>5. GoneOK' /\ Apart' /\ Placed'
    BY <1>1, <1>2, <2>2, <2>3 DEF GoneOK, Apart, Placed, Off, Running, Ended
  <2> QED BY <1>3, <2>3, <2>4, <2>5 DEF Inv
<1>5. CASE norunnable
  <2>1. control' = "exited" /\ UNCHANGED <<taskrunqueue, taskrunning, ready>>
    BY <1>5 DEF norunnable
  <2>2. TypeOK' /\ QueueOK'
    BY <1>1, <1>2, <2>1 DEF TypeOK, LockTypeOK, SchedTypeOK, QueueOK
  <2>3. GoneOK' /\ Apart' /\ Placed'
    BY <1>1, <1>2, <2>1 DEF GoneOK, Apart, Placed, Off, Running, Ended
  <2> QED BY <1>3, <2>1, <2>2, <2>3 DEF Inv
<1> QED BY <1>4, <1>5 DEF taskscheduler

LEMMA StutterInv == Inv /\ UNCHANGED vars => Inv'
  BY DEF Inv, vars, schedvars, lockvars, rendezvars, TypeOK, LockTypeOK, SchedTypeOK,
         QueueOK, MutualExclusion, LockOK, SleepOK, GoneOK, Apart, Placed, Off, Running, Ended

LEMMA NextInv == Inv /\ [Next]_vars => Inv'
<1> SUFFICES ASSUME Inv, [Next]_vars PROVE Inv'
  OBVIOUS
<1>1. call \in [Task -> Lock \cup Rendez \cup {nil}] /\ rl \in [Rendez -> Lock \cup {nil}]
  BY DEF Inv, TypeOK
<1>2. CASE taskscheduler
  BY <1>2, SchedulerInv
<1>3. ASSUME NEW r \in Task, LockStep(r), UNCHANGED rendezvars
      PROVE  Inv'
  <2>1. ASSUME NEW l \in Lock, qlock(r, l) PROVE Inv'
    <3>1. /\ Running(r) /\ call[r] = nil /\ l \notin held[r]
          /\ UNCHANGED <<taskrunqueue, taskrunning, ready, gone, rendezvars>>
      BY <1>3, <2>1 DEF qlock, Idle
    <3>2. CASE acquire(r, l) /\ UNCHANGED call
      <4>1. call' = [call EXCEPT ![r] = nil]
        BY <1>1, <3>1, <3>2
      <4> QED BY <3>1, <3>2, <4>1, AcquireInv
    <3>3. CASE enqueue(r, l) /\ call' = [call EXCEPT ![r] = l]
      BY <3>1, <3>3, EnqueueInv
    <3> QED BY <2>1, <3>2, <3>3 DEF qlock
  <2>2. ASSUME NEW l \in Lock, canqlock(r, l) PROVE Inv'
    <3>1. /\ Running(r) /\ call[r] = nil
          /\ UNCHANGED <<taskrunqueue, taskrunning, ready, call, gone, rendezvars>>
      BY <1>3, <2>2 DEF canqlock, Idle
    <3>2. CASE acquire(r, l)
      <4>1. call' = [call EXCEPT ![r] = nil]
        BY <1>1, <3>1
      <4> QED BY <3>1, <3>2, <4>1, AcquireInv
    <3>3. CASE UNCHANGED <<control, owner, waiting, held>>
      BY <3>1, <3>3, StutterInv DEF vars, schedvars, lockvars
    <3> QED BY <2>2, <3>2, <3>3 DEF canqlock
  <2> QED BY <1>3, <2>1, <2>2, QunlockInv, ResumeInv, ClientInv DEF LockStep
<1>4. ASSUME NEW r \in Task, SleepStep(r) PROVE Inv'
  <2>1. ASSUME NEW z \in Rendez, tasksleep(r, z) PROVE Inv'
    BY <2>1, SleepLockInv, SleepOnlyInv
  <2>2. ASSUME sleepresume(r) PROVE Inv'
    <3> DEFINE l == rl[call[r]]
    <3>1. /\ Running(r) /\ call[r] \in Rendez /\ l \in Lock \cup {nil}
          /\ UNCHANGED <<taskrunqueue, taskrunning, ready, gone, rendezvars>>
      BY <1>1, <2>2 DEF sleepresume
    <3>2. l \notin held[r]
      BY <3>1 DEF Inv, SleepOK
    <3>3. \/ /\ call' = [call EXCEPT ![r] = nil]
             /\ UNCHANGED <<control, owner, waiting, held>>
          \/ l \in Lock /\ acquire(r, l) /\ call' = [call EXCEPT ![r] = nil]
          \/ l \in Lock /\ enqueue(r, l) /\ call' = [call EXCEPT ![r] = l]
      BY <2>2, <3>1 DEF sleepresume
    <3> HIDE DEF l
    <3>4. CASE call' = [call EXCEPT ![r] = nil] /\ UNCHANGED <<control, owner, waiting, held>>
      <4>1. UNCHANGED <<schedvars, owner, waiting, held, gone, rendezvars>>
        BY <3>1, <3>4 DEF schedvars
      <4> QED BY <3>1, <3>4, <4>1, ReturnInv
    <3>5. CASE l \in Lock /\ acquire(r, l) /\ call' = [call EXCEPT ![r] = nil]
      BY <3>1, <3>5, AcquireInv
    <3>6. CASE l \in Lock /\ enqueue(r, l) /\ call' = [call EXCEPT ![r] = l]
      BY <3>1, <3>2, <3>6, EnqueueInv
    <3> QED BY <3>3, <3>4, <3>5, <3>6
  <2> QED BY <1>4, <2>1, <2>2, WakeupInv DEF SleepStep
<1>5. CASE UNCHANGED vars
  BY <1>5, StutterInv
<1> QED BY <1>2, <1>3, <1>4, <1>5 DEF Next, Terminated

\* The inductive invariant holds in every reachable state.
THEOREM Invariance == Spec => []Inv
  BY InitInv, NextInv, PTL DEF Spec

\* Only one task at a time relies on a lock, the one in l->owner.
THEOREM ExclusionCorrect == Spec => []MutualExclusion
<1>1. Inv => MutualExclusion
  BY DEF Inv
<1> QED BY <1>1, Invariance, PTL

\* No hand-over of a lock is lost, and qlock.c's aborts are never reached.
THEOREM HandOverCorrect == Spec => []HandOver
<1>1. Inv => HandOver
  <2> SUFFICES ASSUME Inv PROVE HandOver
    OBVIOUS
  <2>1. LockOK /\ GoneOK /\ Placed /\ control # "aborted"
    BY DEF Inv
  <2>2. ASSUME NEW l \in Lock, NEW t \in Task, call[t] = l
        PROVE  \/ t \in ToSet(waiting[l])
               \/ owner[l] = t /\ (t \in ToSet(taskrunqueue) \/ Running(t) \/ Ended)
    <3>1. t \notin gone /\ call[t] \notin Rendez
      BY <2>1, <2>2, LockAssumption, RendezAssumption DEF GoneOK
    <3>2. t \in ToSet(waiting[l]) \/ owner[l] = t
      BY <2>1, <2>2 DEF LockOK
    <3> QED BY <2>1, <2>2, <3>1, <3>2 DEF Placed, Off
  <2> QED BY <2>1, <2>2 DEF HandOver, LockOK
<1> QED BY <1>1, Invariance, PTL

\* The one next/prev pair of a task is enough: it is never on two lists.
THEOREM ListsCorrect == Spec => []OneList
<1>1. Inv => OneList
  <2> SUFFICES ASSUME Inv PROVE OneList
    OBVIOUS
  <2>1. TypeOK /\ QueueOK /\ LockOK /\ SleepOK /\ GoneOK /\ Apart
    BY DEF Inv
  <2>2. ASSUME NEW t \in Task, NEW c \in Lists(t)
        PROVE  \/ c = nil /\ t \in ToSet(taskrunqueue)
               \/ c # nil /\ call[t] = c /\ Off(t)
    <3>1. CASE c \in Lock /\ t \in ToSet(waiting[c])
      BY <2>1, <3>1, LockAssumption DEF LockOK, Apart
    <3>2. CASE c \in Rendez /\ t \in ToSet(sleepers[c])
      BY <2>1, <3>2, RendezAssumption DEF SleepOK, Apart
    <3>3. CASE c = nil /\ t \in ToSet(taskrunqueue)
      BY <3>3
    <3> QED BY <2>2, <3>1, <3>2, <3>3 DEF Lists
  <2>3. ASSUME NEW t \in Task
        PROVE  \A c, d \in Lists(t) : c = d
    BY <2>2 DEF Off
  <2>4. ASSUME NEW t \in Task, Running(t) \/ t \in gone
        PROVE  Lists(t) = {}
    <3>1. t \notin ToSet(taskrunqueue)
      BY <2>1, <2>4 DEF QueueOK, GoneOK, Off, Running
    <3>2. \A l \in Lock : t \notin ToSet(waiting[l])
      BY <2>1, <2>4, LockAssumption DEF LockOK, GoneOK, Apart, Off
    <3>3. \A z \in Rendez : t \notin ToSet(sleepers[z])
      BY <2>1, <2>4, RendezAssumption DEF SleepOK, GoneOK, Apart, Off
    <3> QED BY <3>1, <3>2, <3>3 DEF Lists
  <2>5. \A z \in Rendez : IsInjective(sleepers[z])
    BY <2>1 DEF SleepOK
  <2> QED BY <2>1, <2>2, <2>3, <2>4, <2>5 DEF OneList
<1> QED BY <1>1, Invariance, PTL

\* Without nested locks nobody waits for a lock when there is nothing to run.
THEOREM StallsCorrect == Spec => []NeverStalls
<1>1. Inv => NeverStalls
  <2> SUFFICES ASSUME Inv, control = "sched", taskrunqueue = <<>>, Unnested,
                      NEW t \in Task, t \notin gone
               PROVE  \E z \in Rendez : t \in ToSet(sleepers[z])
    BY DEF NeverStalls
  <2>1. /\ LockOK /\ SleepOK /\ GoneOK /\ owner \in [Lock -> Task \cup {nil}]
        /\ waiting \in [Lock -> Seq(Task)]
    BY DEF Inv, TypeOK, LockTypeOK
  <2>2. ASSUME NEW u \in Task, u \notin gone
        PROVE  \/ call[u] \in Lock /\ u \in ToSet(waiting[call[u]])
               \/ call[u] \in Rendez /\ u \in ToSet(sleepers[call[u]])
    <3>1. u \notin ToSet(taskrunqueue) /\ ~Running(u) /\ ~Ended
      BY DEF ToSet, Running, Ended
    <3> QED BY <2>2, <3>1 DEF Inv, Placed, Off
  <2>3. ASSUME NEW l \in Lock, t \in ToSet(waiting[l])
        PROVE  FALSE
    <3> DEFINE o == owner[l]
    <3>1. waiting[l] # <<>>
      BY <2>1, <2>3, ToSetFacts
    <3>2. /\ o \in Task /\ o \notin ToSet(waiting[l])
          /\ l \in held[o] \/ call[o] = l
      BY <2>1, <3>1 DEF LockOK
    <3> HIDE DEF o
    <3>3. o \notin gone
      BY <2>1, <3>2, LockAssumption DEF GoneOK
    <3>4. call[o] # l
      BY <2>2, <3>2, <3>3, RendezAssumption
    <3>5. l \in held[o] /\ call[o] \notin Lock
      BY <3>2, <3>4 DEF Unnested
    <3>6. call[o] \in Rendez /\ rl[call[o]] = l
      BY <2>2, <3>2, <3>3, <3>5 DEF Unnested
    <3> QED BY <2>1, <3>2, <3>5, <3>6 DEF SleepOK
  <2> QED BY <2>2, <2>3
<1> QED BY <1>1, Invariance, PTL

-----------------------------------------------------------------------------

\* The queue of FifoLock: the owner of a lock, then its waiters.
LockQueue ==
  [l \in Lock |-> IF owner[l] = nil THEN <<>> ELSE <<owner[l]>> \o waiting[l]]

\* Changing one lock changes one queue.
LEMMA OneQueueChanges ==
  ASSUME NEW l \in Lock,
         \A m \in Lock : m # l => owner'[m] = owner[m] /\ waiting'[m] = waiting[m]
  PROVE  LockQueue' = [LockQueue EXCEPT ![l] = LockQueue'[l]]
  BY DEF LockQueue

\* Taking a free lock and queueing up for a taken one are Ask, ...
LEMMA AskStep ==
  ASSUME Inv, NEW r \in Task, NEW l \in Lock, Running(r), l \notin held[r],
         call[r] \in Rendez \cup {nil}, acquire(r, l) \/ enqueue(r, l)
  PROVE  ImplementsFifoLock!Ask(r, l)
<1> DEFINE w == waiting[l]
           o == owner[l]
<1>1. /\ owner \in [Lock -> Task \cup {nil}] /\ waiting \in [Lock -> Seq(Task)]
      /\ w \in Seq(Task) /\ o \in Task \cup {nil} /\ LockOK
  BY DEF Inv, TypeOK, LockTypeOK
<1>2. r \notin ToSet(w) /\ r # o
  BY <1>1, RunningFacts, LockAssumption, RendezAssumption, TaskAssumption DEF LockOK
<1>3. /\ \A m \in Lock : m # l => owner'[m] = owner[m] /\ waiting'[m] = waiting[m]
      /\ \/ o = nil /\ w = <<>> /\ owner'[l] = r /\ waiting'[l] = <<>>
         \/ o # nil /\ owner'[l] = o /\ waiting'[l] = Append(w, r)
  BY <1>1 DEF acquire, enqueue, taken, addtask, LockOK
<1>4. LockQueue' = [LockQueue EXCEPT ![l] = LockQueue'[l]]
  BY <1>3, OneQueueChanges
<1>5. r \notin ToSet(LockQueue[l]) /\ LockQueue'[l] = Append(LockQueue[l], r)
  <2>1. /\ LockQueue[l] = IF o = nil THEN <<>> ELSE <<o>> \o w
        /\ LockQueue'[l] = IF owner'[l] = nil THEN <<>> ELSE <<owner'[l]>> \o waiting'[l]
    BY DEF LockQueue
  <2> HIDE DEF w, o
  <2>2. CASE o = nil /\ w = <<>> /\ owner'[l] = r /\ waiting'[l] = <<>>
    <3>1. LockQueue[l] = <<>> /\ LockQueue'[l] = <<r>> \o <<>>
      BY <2>1, <2>2, TaskAssumption
    <3>2. <<r>> \o <<>> = <<r>> /\ Append(<<>>, r) = <<r>> /\ ToSet(<<>>) = {}
      <4>1. <<r>> \in Seq(Task) /\ <<>> \in Seq(Task)
        OBVIOUS
      <4> QED BY <4>1, ConcatEmptySeq, AppendIsConcat DEF ToSet
    <3> QED BY <3>1, <3>2
  <2>3. CASE o # nil /\ owner'[l] = o /\ waiting'[l] = Append(w, r)
    <3>1. LockQueue[l] = <<o>> \o w /\ LockQueue'[l] = <<o>> \o Append(w, r) /\ o \in Task
      BY <1>1, <2>1, <2>3
    <3>2. o \in Task /\ w \in Seq(Task)
      BY <1>1, <3>1
    <3>3. ToSet(<<o>> \o w) = {o} \cup ToSet(w)
      BY <3>2, ConsFacts
    <3>4. \A y \in Task : <<o>> \o Append(w, y) = Append(<<o>> \o w, y)
      BY <3>2, ConsFacts
    <3> QED BY <1>2, <3>1, <3>3, <3>4
  <2> QED BY <1>3, <2>2, <2>3
<1>6. r \notin ImplementsFifoLock!ToSet(LockQueue[l])
  BY <1>5 DEF ToSet, ImplementsFifoLock!ToSet
<1>7. LockQueue' = [LockQueue EXCEPT ![l] = Append(LockQueue[l], r)]
  BY <1>4, <1>5
<1> QED BY <1>6, <1>7 DEF ImplementsFifoLock!Ask, LockQueue

\* ... and handing a lock over is Release.
LEMMA ReleaseStep ==
  ASSUME Inv, NEW l \in Lock, owner[l] # nil, handoff(l)
  PROVE  ImplementsFifoLock!Release(l)
<1> DEFINE w == waiting[l]
           o == owner[l]
<1>1. /\ owner \in [Lock -> Task \cup {nil}] /\ waiting \in [Lock -> Seq(Task)]
      /\ w \in Seq(Task) /\ o \in Task
  BY DEF Inv, TypeOK, LockTypeOK
<1>2. \A m \in Lock : m # l => owner'[m] = owner[m] /\ waiting'[m] = waiting[m]
  BY <1>1 DEF handoff
<1>3. /\ w = <<>> => owner'[l] = nil
      /\ w # <<>> => owner'[l] = Head(w) /\ waiting'[l] = Tail(w)
  BY <1>1, DelHeadFacts DEF handoff
<1>4. LockQueue' = [LockQueue EXCEPT ![l] = LockQueue'[l]]
  BY <1>2, OneQueueChanges
<1>5. LockQueue[l] # <<>> /\ LockQueue'[l] = Tail(LockQueue[l])
  <2>1. /\ LockQueue[l] = <<o>> \o w
        /\ LockQueue'[l] = IF owner'[l] = nil THEN <<>> ELSE <<owner'[l]>> \o waiting'[l]
    BY DEF LockQueue
  <2> HIDE DEF w, o
  <2>2. <<o>> \o w # <<>> /\ Tail(<<o>> \o w) = w
    BY <1>1, ConsFacts
  <2>3. CASE w = <<>>
    BY <1>3, <2>1, <2>2, <2>3
  <2>4. CASE w # <<>>
    <3>1. Head(w) \in Task /\ w = <<Head(w)>> \o Tail(w)
      BY <1>1, <2>4, HeadTailProperties, ConsFacts
    <3>2. owner'[l] # nil /\ LockQueue'[l] = <<Head(w)>> \o Tail(w)
      BY <1>3, <2>1, <2>4, <3>1, TaskAssumption
    <3> QED BY <2>1, <2>2, <3>1, <3>2
  <2> QED BY <2>3, <2>4
<1> QED BY <1>4, <1>5 DEF ImplementsFifoLock!Release, LockQueue

\* Every step of the system is a step of FifoLock or leaves its queues alone.
LEMMA FifoStep == Inv /\ [Next]_vars => [ImplementsFifoLock!Next]_LockQueue
<1> SUFFICES ASSUME Inv, [Next]_vars, ~(UNCHANGED LockQueue)
             PROVE  ImplementsFifoLock!Next
  OBVIOUS
<1>1. ~(UNCHANGED <<owner, waiting>>)
  BY DEF LockQueue
<1>2. ~taskscheduler /\ ~(UNCHANGED vars)
  BY <1>1 DEF taskscheduler, vars, lockvars
<1>3. ASSUME NEW r \in Task, NEW l \in Lock, Idle(r), l \in held[r], handoff(l)
      PROVE  ImplementsFifoLock!Next
  <2>1. owner[l] # nil
    BY <1>3, TaskAssumption DEF Inv, MutualExclusion
  <2> QED BY <1>3, <2>1, ReleaseStep DEF ImplementsFifoLock!Next
<1>4. ASSUME NEW r \in Task, LockStep(r) PROVE ImplementsFifoLock!Next
  <2>1. PICK l \in Lock : qlock(r, l) \/ canqlock(r, l) \/ qunlock(r, l)
    BY <1>1, <1>4 DEF LockStep, qlockresume, taskyield, taskexit, lockvars
  <2>2. CASE qlock(r, l) \/ canqlock(r, l)
    <3>1. /\ Running(r) /\ call[r] \in Rendez \cup {nil}
          /\ acquire(r, l) \/ (l \notin held[r] /\ enqueue(r, l))
      BY <1>1, <2>2 DEF qlock, canqlock, Idle
    <3>2. l \notin held[r]
      BY <3>1, TaskAssumption DEF acquire, taken, Inv, MutualExclusion
    <3> QED BY <3>1, <3>2, AskStep DEF ImplementsFifoLock!Next
  <2>3. CASE qunlock(r, l)
    BY <1>1, <1>3, <2>3 DEF qunlock
  <2> QED BY <2>1, <2>2, <2>3
<1>5. ASSUME NEW r \in Task, SleepStep(r) PROVE ImplementsFifoLock!Next
  <2>1. CASE sleepresume(r)
    <3> DEFINE l == rl[call[r]]
    <3>1. /\ Running(r) /\ call[r] \in Rendez /\ l \in Lock \cup {nil} /\ l # nil
          /\ acquire(r, l) \/ enqueue(r, l)
      BY <1>1, <2>1 DEF sleepresume, Inv, TypeOK
    <3>2. l \notin held[r] /\ l \in Lock
      BY <3>1 DEF Inv, SleepOK
    <3> HIDE DEF l
    <3> QED BY <3>1, <3>2, AskStep DEF ImplementsFifoLock!Next
  <2>2. ASSUME NEW z \in Rendez, tasksleep(r, z) PROVE ImplementsFifoLock!Next
    <3>1. Idle(r) /\ rl[z] \in held[r] /\ handoff(rl[z])
      BY <1>1, <2>2 DEF tasksleep, givenup
    <3>2. rl[z] \in Lock
      BY <3>1 DEF Inv, TypeOK, LockTypeOK
    <3> QED BY <1>3, <3>1, <3>2
  <2> QED BY <1>1, <1>5, <2>1, <2>2 DEF SleepStep, taskwakeup, lockvars
<1> QED BY <1>2, <1>4, <1>5 DEF Next, Terminated

\* qlock.c, used by any clients and by the condition variables of rendez.c, is
\* a fair queue: the lock goes to whoever asked first.
THEOREM FifoCorrect == Spec => FifoLockSpec
<1>1. Init => ImplementsFifoLock!Init
  BY DEF Init, LockInit, ImplementsFifoLock!Init
<1> QED BY <1>1, Invariance, FifoStep, PTL
        DEF Spec, FifoLockSpec, ImplementsFifoLock!Spec, LockQueue

=============================================================================
