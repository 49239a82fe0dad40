---------------------------- MODULE RWLockProofs ----------------------------
(***************************************************************************)
(* The safety of RWLock for any set of tasks.                              *)
(***************************************************************************)
EXTENDS RWLock, SchedProofs

\* A task that is suspended in a call holds nothing.
HeldOK == \A t \in Task : held[t] # "none" => call[t] = "none"

\* A task that is suspended in a call waits on a list of the lock, or it is
\* queued to run or running.
Placed ==
  \A t \in Task : call[t] # "none" /\ ~Ended =>
    (t \in ToSet(rwaiting) \cup ToSet(wwaiting)
       <=> t \notin ToSet(taskrunqueue) /\ ~Running(t))

\* A task is on a list only while it is suspended in the call of that list.
Listed ==
  /\ IsInjective(rwaiting) /\ IsInjective(wwaiting)
  /\ \A t \in ToSet(rwaiting) : call[t] = "rlock"
  /\ \A t \in ToSet(wwaiting) : call[t] = "wlock"

\* The inductive invariant.  The counts are right only because a task that is
\* granted the lock leaves its list, is queued to run and finds itself off
\* the list when it resumes; unlocking wakes the right tasks only because the
\* counts are right.
Inv == TypeOK /\ QueueOK /\ Listed /\ Placed /\ CountsExact /\ NoLostWakeup /\ HeldOK

LEMMA InvWaiters == ASSUME Inv PROVE WaitersOK
  BY DEF Inv, WaitersOK, Listed, Placed

\* Readers is finite, so that a count of zero means that there is none.
LEMMA ReadersFacts ==
  /\ IsFiniteSet(Readers) /\ Cardinality(Readers) \in Nat
  /\ Cardinality(Readers) = 0 <=> Readers = {}
<1>1. Readers \in SUBSET Task
  BY DEF Readers
<1>2. IsFiniteSet(Readers)
  BY <1>1, TaskAssumption, FS_Subset
<1> QED BY <1>2, FS_CardinalityType, FS_EmptySet

\* The running task is on no list, and no waiting task is queued to run.
LEMMA RunningFacts ==
  ASSUME Inv, NEW r \in Task, Running(r)
  PROVE  /\ control = "task" /\ taskrunning = r /\ ~Ended
         /\ r \notin ToSet(taskrunqueue)
         /\ r \notin ToSet(rwaiting) /\ r \notin ToSet(wwaiting)
         /\ ToSet(rwaiting) \cap ToSet(taskrunqueue) = {}
         /\ ToSet(wwaiting) \cap ToSet(taskrunqueue) = {}
         /\ ToSet(rwaiting) \subseteq Task /\ ToSet(wwaiting) \subseteq Task
<1>1. control = "task" /\ taskrunning = r /\ ~Ended
  BY DEF Running, Ended
<1>2. ToSet(rwaiting) \subseteq Task /\ ToSet(wwaiting) \subseteq Task
  BY ToSetFacts DEF Inv, TypeOK
<1>3. \A t \in ToSet(rwaiting) \cup ToSet(wwaiting) :
         t \in Task /\ call[t] # "none"
  BY <1>2 DEF Inv, Listed
<1>4. \A t \in ToSet(rwaiting) \cup ToSet(wwaiting) :
         t \notin ToSet(taskrunqueue) /\ ~Running(t)
  BY <1>1, <1>3 DEF Inv, Placed
<1> QED BY <1>1, <1>2, <1>4 DEF Inv, QueueOK

LEMMA InitInv == Init => Inv
<1> SUFFICES ASSUME Init PROVE Inv
  OBVIOUS
<1>1. taskrunqueue \in Seq(Task) /\ IsInjective(taskrunqueue)
  <2>1. Cardinality(Task) \in Nat
    BY TaskAssumption, FS_CardinalityType
  <2>2. /\ taskrunqueue \in [1 .. Cardinality(Task) -> Task]
        /\ IsInjective(taskrunqueue)
    BY DEF Init, SetToSeqs, IsInjective
  <2> QED BY <2>1, <2>2
<1>2. ToSet(<<>>) = {} /\ IsInjective(<<>>)
  BY DEF ToSet, IsInjective
<1>3. TypeOK
  BY <1>1 DEF Init, TypeOK, SchedTypeOK
<1>4. QueueOK
  BY <1>1 DEF Init, QueueOK
<1>5. Listed /\ NoLostWakeup /\ HeldOK /\ Placed
  BY <1>2 DEF Init, Listed, NoLostWakeup, HeldOK, Placed
<1>6. CountsExact
  <2>1. Readers = {} /\ Writers = {}
    BY DEF Init, Readers, Writers
  <2> QED BY <2>1, FS_EmptySet DEF Init, CountsExact
<1> QED BY <1>3, <1>4, <1>5, <1>6 DEF Inv

-----------------------------------------------------------------------------

\* A call that returns at once, with or without the lock.
LEMMA GrantInv ==
  ASSUME Inv, NEW r \in Task, Free(r),
         \/ canread /\ readers' = readers + 1 /\ granted(r, "r") /\ UNCHANGED writer
         \/ canwrite /\ writer' = r /\ granted(r, "w") /\ UNCHANGED readers
  PROVE  Inv'
<1>1. Running(r) /\ call[r] = "none" /\ held[r] = "none"
  BY DEF Free, Idle
<1>2. /\ UNCHANGED <<schedvars, rwaiting, wwaiting, call>> /\ gone' = gone
      /\ \E m \in {"r", "w"} : held' = [held EXCEPT ![r] = m]
  BY DEF granted
<1>3. TypeOK /\ QueueOK /\ Listed /\ Placed /\ CountsExact /\ NoLostWakeup /\ HeldOK
  BY DEF Inv
<1>4. TypeOK'
  <2>1. readers' \in Nat /\ writer' \in Task \cup {nil}
    BY <1>3 DEF TypeOK
  <2>2. held' \in [Task -> {"r", "w", "none"}]
    BY <1>2, <1>3 DEF TypeOK
  <2> QED BY <1>2, <1>3, <2>1, <2>2 DEF TypeOK, SchedTypeOK, schedvars
<1>5. QueueOK' /\ Listed' /\ Placed'
  BY <1>2, <1>3 DEF QueueOK, Listed, Placed, Ended, Running, schedvars
<1>6. HeldOK'
  BY <1>1, <1>2, <1>3 DEF HeldOK, TypeOK
<1>7. CountsExact'
  <2>1. control' # "aborted"
    BY <1>2, <1>3 DEF CountsExact, schedvars
  <2>2. r \notin Readers /\ r \notin Writers
    BY <1>1 DEF Readers, Writers
  <2>3. CASE canread /\ readers' = readers + 1 /\ granted(r, "r") /\ UNCHANGED writer
    <3>1. Readers' = Readers \cup {r} /\ Writers' = Writers
      BY <1>1, <1>2, <1>3, <2>3 DEF Readers, Writers, granted, TypeOK
    <3>2. readers' = Cardinality(Readers')
      BY <1>3, <2>2, <2>3, <3>1, ReadersFacts, FS_AddElement DEF CountsExact
    <3> QED BY <1>3, <2>1, <2>3, <3>1, <3>2 DEF CountsExact, canread
  <2>4. CASE canwrite /\ writer' = r /\ granted(r, "w") /\ UNCHANGED readers
    <3>1. Readers' = Readers /\ Writers' = Writers \cup {r}
      BY <1>1, <1>2, <1>3, <2>4 DEF Readers, Writers, granted, TypeOK
    <3> QED BY <1>3, <2>1, <2>4, <3>1, TaskAssumption DEF CountsExact, canwrite
  <2> QED BY <2>3, <2>4
<1>8. NoLostWakeup'
  BY <1>2, <1>3, TaskAssumption DEF NoLostWakeup, TypeOK, canread, canwrite, granted
<1> QED BY <1>4, <1>5, <1>6, <1>7, <1>8 DEF Inv

\* A call that blocks: the caller is put on a list of the lock.
LEMMA SuspendInv ==
  ASSUME Inv, NEW r \in Task, Free(r),
         \/ /\ ~canread /\ rwaiting' = addtask(rwaiting, r)
            /\ suspend(r, "rlock") /\ UNCHANGED wwaiting
         \/ /\ ~canwrite /\ wwaiting' = addtask(wwaiting, r)
            /\ suspend(r, "wlock") /\ UNCHANGED rwaiting
  PROVE  Inv'
<1>1. Running(r) /\ call[r] = "none" /\ held[r] = "none"
  BY DEF Free, Idle
<1>2. /\ UNCHANGED <<taskrunqueue, taskrunning, ready, readers, writer, held, gone>>
      /\ control' = "sched"
      /\ \E c \in {"rlock", "wlock"} : call' = [call EXCEPT ![r] = c]
  BY DEF suspend, taskswitch
<1>3. TypeOK /\ QueueOK /\ Listed /\ Placed /\ CountsExact /\ NoLostWakeup /\ HeldOK
  BY DEF Inv
<1>4. /\ control = "task" /\ taskrunning = r /\ ~Ended
      /\ r \notin ToSet(taskrunqueue)
      /\ r \notin ToSet(rwaiting) /\ r \notin ToSet(wwaiting)
      /\ ToSet(rwaiting) \subseteq Task /\ ToSet(wwaiting) \subseteq Task
  BY <1>1, RunningFacts
<1>5. /\ rwaiting' \in Seq(Task) /\ wwaiting' \in Seq(Task)
      /\ IsInjective(rwaiting') /\ IsInjective(wwaiting')
      /\ \/ /\ ToSet(rwaiting') = ToSet(rwaiting) \cup {r} /\ rwaiting' # <<>>
            /\ UNCHANGED wwaiting /\ call' = [call EXCEPT ![r] = "rlock"] /\ ~canread
         \/ /\ ToSet(wwaiting') = ToSet(wwaiting) \cup {r} /\ wwaiting' # <<>>
            /\ UNCHANGED rwaiting /\ call' = [call EXCEPT ![r] = "wlock"] /\ ~canwrite
  <2>1. /\ rwaiting \in Seq(Task) /\ wwaiting \in Seq(Task)
        /\ IsInjective(rwaiting) /\ IsInjective(wwaiting)
    BY <1>3 DEF TypeOK, Listed
  <2>2. CASE /\ ~canread /\ rwaiting' = addtask(rwaiting, r)
             /\ suspend(r, "rlock") /\ UNCHANGED wwaiting
    <3>1. /\ addtask(rwaiting, r) \in Seq(Task) /\ addtask(rwaiting, r) # <<>>
          /\ ToSet(addtask(rwaiting, r)) = ToSet(rwaiting) \cup {r}
          /\ IsInjective(addtask(rwaiting, r))
      <4>1. rwaiting \in Seq(Task) /\ IsInjective(rwaiting) /\ r \notin ToSet(rwaiting)
        BY <1>4, <2>1
      <4> QED BY <4>1, AddTaskFacts
    <3> QED BY <2>1, <2>2, <3>1 DEF suspend
  <2>3. CASE /\ ~canwrite /\ wwaiting' = addtask(wwaiting, r)
             /\ suspend(r, "wlock") /\ UNCHANGED rwaiting
    <3>1. /\ addtask(wwaiting, r) \in Seq(Task) /\ addtask(wwaiting, r) # <<>>
          /\ ToSet(addtask(wwaiting, r)) = ToSet(wwaiting) \cup {r}
          /\ IsInjective(addtask(wwaiting, r))
      <4>1. wwaiting \in Seq(Task) /\ IsInjective(wwaiting) /\ r \notin ToSet(wwaiting)
        BY <1>4, <2>1
      <4> QED BY <4>1, AddTaskFacts
    <3> QED BY <2>1, <2>3, <3>1 DEF suspend
  <2> QED BY <2>2, <2>3
<1>6. TypeOK'
  BY <1>2, <1>3, <1>5 DEF TypeOK, SchedTypeOK
<1>7. QueueOK'
  BY <1>2, <1>3 DEF QueueOK
<1>8. Listed'
  BY <1>3, <1>4, <1>5 DEF Listed, TypeOK
<1>9. Placed'
  <2>1. ASSUME NEW t \in Task, call'[t] # "none"
        PROVE  t \in ToSet(rwaiting') \cup ToSet(wwaiting') <=> t \notin ToSet(taskrunqueue')
    <3>1. CASE t = r
      BY <1>2, <1>4, <1>5, <3>1
    <3>2. CASE t # r
      <4>1. call[t] # "none" /\ ~Running(t)
        BY <1>3, <1>4, <1>5, <2>1, <3>2 DEF TypeOK, Running
      <4> QED BY <1>2, <1>3, <1>4, <1>5, <3>2, <4>1 DEF Placed
    <3> QED BY <3>1, <3>2
  <2>2. \A t : ~Running(t)'
    BY <1>2 DEF Running
  <2> QED BY <2>1, <2>2 DEF Placed
<1>10. CountsExact'
  <2>1. Readers' = Readers /\ Writers' = Writers
    BY <1>1, <1>2, <1>3, <1>4, <1>5 DEF Readers, Writers, TypeOK
  <2> QED BY <1>2, <1>3, <2>1 DEF CountsExact
<1>11. NoLostWakeup'
  BY <1>2, <1>3, <1>5 DEF NoLostWakeup, TypeOK, canread, canwrite
<1>12. HeldOK'
  BY <1>1, <1>2, <1>3 DEF HeldOK, TypeOK
<1> QED BY <1>6, <1>7, <1>8, <1>9, <1>10, <1>11, <1>12 DEF Inv

\* A call that returns after its switch: the caller was counted already.
LEMMA ResumeInv ==
  ASSUME Inv, NEW r \in Task, resume(r)
  PROVE  Inv'
<1>1. /\ Running(r) /\ call[r] # "none"
      /\ held' = [held EXCEPT ![r] = IF call[r] = "rlock" THEN "r" ELSE "w"]
      /\ call' = [call EXCEPT ![r] = "none"]
      /\ UNCHANGED <<schedvars, lockvars, gone>>
  BY DEF resume
<1>2. TypeOK /\ QueueOK /\ Listed /\ Placed /\ CountsExact /\ NoLostWakeup /\ HeldOK
  BY DEF Inv
<1>3. r \notin ToSet(rwaiting) /\ r \notin ToSet(wwaiting)
      /\ ToSet(rwaiting) \subseteq Task /\ ToSet(wwaiting) \subseteq Task
  BY <1>1, RunningFacts
<1>4. call[r] \in {"rlock", "wlock"} /\ held[r] = "none"
  BY <1>1, <1>2 DEF TypeOK, HeldOK
<1>5. TypeOK'
  BY <1>1, <1>2, <1>4 DEF TypeOK, SchedTypeOK, schedvars, lockvars
<1>6. QueueOK' /\ NoLostWakeup'
  BY <1>1, <1>2 DEF QueueOK, NoLostWakeup, schedvars, lockvars
<1>7. Listed' /\ Placed'
  BY <1>1, <1>2, <1>3 DEF Listed, Placed, TypeOK, Ended, Running, schedvars, lockvars
<1>8. HeldOK'
  BY <1>1, <1>2 DEF HeldOK, TypeOK
<1>9. CountsExact'
  <2>1. Readers' = Readers /\ Writers' = Writers
    BY <1>1, <1>2, <1>3, <1>4 DEF Readers, Writers, TypeOK, lockvars
  <2> QED BY <1>1, <1>2, <2>1 DEF CountsExact, schedvars, lockvars
<1> QED BY <1>5, <1>6, <1>7, <1>8, <1>9 DEF Inv

-----------------------------------------------------------------------------

\* What unlocking has to establish.  The caller held the lock and holds it no
\* more; the tasks of G, all suspended in one call and taken off the lists,
\* are queued to run.
LEMMA ReleaseInv ==
  ASSUME Inv, NEW r \in Task, Idle(r),
         held' = [held EXCEPT ![r] = "none"],
         UNCHANGED <<taskrunning, control, call, gone>>,
         NEW G \in SUBSET Task,
         taskrunqueue' \in Seq(Task), ready' \in [Task -> BOOLEAN],
         ToSet(taskrunqueue') = ToSet(taskrunqueue) \cup G,
         IsInjective(taskrunqueue'),
         \A u \in ToSet(taskrunqueue') : ready'[u],
         readers' \in Nat, writer' \in Task \cup {nil},
         rwaiting' \in Seq(Task), wwaiting' \in Seq(Task),
         IsInjective(rwaiting'), IsInjective(wwaiting'),
         G \subseteq ToSet(rwaiting) \cup ToSet(wwaiting),
         ToSet(rwaiting') = ToSet(rwaiting) \ G,
         ToSet(wwaiting') = ToSet(wwaiting) \ G,
         readers' = Cardinality(Readers'), Writers' = {writer'} \ {nil},
         writer' # nil => readers' = 0,
         NoLostWakeup'
  PROVE  Inv'
<1>1. Running(r) /\ call[r] = "none"
  BY DEF Idle
<1>2. TypeOK /\ QueueOK /\ Listed /\ Placed /\ CountsExact /\ HeldOK
  BY DEF Inv
<1>3. /\ control = "task" /\ taskrunning = r /\ ~Ended
      /\ r \notin ToSet(taskrunqueue)
      /\ r \notin ToSet(rwaiting) /\ r \notin ToSet(wwaiting)
      /\ ToSet(rwaiting) \cap ToSet(taskrunqueue) = {}
      /\ ToSet(wwaiting) \cap ToSet(taskrunqueue) = {}
  BY <1>1, RunningFacts
<1>4. TypeOK'
  BY <1>2 DEF TypeOK, SchedTypeOK
<1>5. QueueOK'
  BY <1>3 DEF QueueOK
<1>6. Listed'
  BY <1>2 DEF Listed
<1>7. Placed'
  BY <1>2, <1>3 DEF Placed, Ended, Running
<1>8. HeldOK'
  BY <1>2 DEF HeldOK, TypeOK
<1>9. CountsExact'
  BY <1>2 DEF CountsExact
<1> QED BY <1>4, <1>5, <1>6, <1>7, <1>8, <1>9 DEF Inv

\* A reader leaves; the last one may admit a writer.
LEMMA RunlockInv ==
  ASSUME Inv, NEW r \in Task, runlock(r)
  PROVE  Inv'
<1>1. /\ Idle(r) /\ held[r] = "r" /\ Running(r) /\ call[r] = "none"
      /\ held' = [held EXCEPT ![r] = "none"] /\ readers' = readers - 1
      /\ UNCHANGED <<taskrunning, control, rwaiting, call, gone>>
  BY DEF runlock, Idle
<1>2. TypeOK /\ QueueOK /\ Listed /\ CountsExact /\ NoLostWakeup
  BY DEF Inv
<1>3. /\ ToSet(rwaiting) \cap ToSet(taskrunqueue) = {}
      /\ ToSet(wwaiting) \cap ToSet(taskrunqueue) = {}
      /\ ToSet(wwaiting) \subseteq Task
  BY <1>1, RunningFacts
<1>4. r \in Readers
  BY <1>1 DEF Readers
<1>5. readers \in Nat \ {0} /\ writer = nil /\ Writers = {}
  BY <1>2, <1>4, ReadersFacts DEF CountsExact, TypeOK
<1>6. Readers' = Readers \ {r}
  BY <1>1, <1>2 DEF Readers, TypeOK
<1>7. readers' \in Nat /\ readers' = Cardinality(Readers')
  <2>1. readers = Cardinality(Readers) /\ IsFiniteSet(Readers)
    BY <1>2, ReadersFacts DEF CountsExact
  <2>2. Cardinality(Readers \ {r}) = Cardinality(Readers) - 1
    BY <1>4, <2>1, FS_RemoveElement
  <2> QED BY <1>1, <1>5, <1>6, <2>1, <2>2
<1>8. CASE readers' = 0 /\ wwaiting # <<>>
  <2> DEFINE h == Head(wwaiting)
  <2>1. wwaiting' = deltask(wwaiting, h) /\ writer' = h /\ taskready(h)
    BY <1>8 DEF runlock, wakewriter
  <2>2. wwaiting \in Seq(Task) /\ IsInjective(wwaiting)
    BY <1>2 DEF TypeOK, Listed
  <2>3. /\ deltask(wwaiting, Head(wwaiting)) = Tail(wwaiting)
        /\ Tail(wwaiting) \in Seq(Task)
        /\ Head(wwaiting) \in Task /\ Head(wwaiting) \in ToSet(wwaiting)
        /\ IsInjective(Tail(wwaiting))
        /\ ToSet(Tail(wwaiting)) = ToSet(wwaiting) \ {Head(wwaiting)}
    BY <1>8, <2>2, DelHeadFacts, Zenon
  <2>4. /\ h \in Task /\ h \in ToSet(wwaiting) /\ call[h] = "wlock"
        /\ wwaiting' \in Seq(Task) /\ IsInjective(wwaiting')
        /\ ToSet(wwaiting') = ToSet(wwaiting) \ {h}
    BY <1>2, <2>1, <2>3 DEF Listed
  <2> HIDE DEF h
  <2>5. /\ taskrunqueue' \in Seq(Task) /\ ready' \in [Task -> BOOLEAN]
        /\ ToSet(taskrunqueue') = ToSet(taskrunqueue) \cup {h}
        /\ IsInjective(taskrunqueue')
        /\ \A u \in ToSet(taskrunqueue') : ready'[u]
    <3>1. SchedTypeOK /\ QueueOK /\ h \notin ToSet(taskrunqueue)
      BY <1>2, <1>3, <2>4 DEF TypeOK
    <3> QED BY <2>1, <2>4, <3>1, ReadyQueue, Zenon
  <2>6. Writers' = {h}
    BY <1>1, <1>2, <1>5, <2>4 DEF Writers, TypeOK
  <2>7. ToSet(rwaiting') = ToSet(rwaiting) \ {h}
    BY <1>1, <1>2, <2>4 DEF Listed
  <2>8. NoLostWakeup' /\ writer' \in Task /\ writer' # nil
    BY <2>1, <2>4, TaskAssumption DEF NoLostWakeup
  <2>9. /\ rwaiting' \in Seq(Task) /\ IsInjective(rwaiting')
        /\ {h} \in SUBSET Task /\ {h} \subseteq ToSet(rwaiting) \cup ToSet(wwaiting)
    BY <1>1, <1>2, <2>4 DEF TypeOK, Listed
  <2>10. Writers' = {writer'} \ {nil}
    BY <2>1, <2>6, <2>8
  <2> HIDE DEF Inv
  <2> QED BY <1>1, <1>7, <1>8, <2>4, <2>5, <2>7, <2>8, <2>9, <2>10, ReleaseInv
<1>9. CASE ~(readers' = 0 /\ wwaiting # <<>>)
  <2>1. UNCHANGED <<taskrunqueue, ready, writer, wwaiting>>
    BY <1>9 DEF runlock, wakewriter
  <2>2. Writers' = {writer'} \ {nil}
    BY <1>1, <1>2, <1>5, <2>1 DEF Writers, TypeOK
  <2>3. NoLostWakeup'
    <3>1. wwaiting # <<>> => readers' > 0
      BY <1>7, <1>9
    <3>2. rwaiting # <<>> => wwaiting # <<>>
      BY <1>2, <1>5 DEF NoLostWakeup
    <3>3. rwaiting' = rwaiting /\ wwaiting' = wwaiting
      BY <1>1, <2>1
    <3> QED BY <3>1, <3>2, <3>3 DEF NoLostWakeup
  <2>4. /\ taskrunqueue' \in Seq(Task) /\ ready' \in [Task -> BOOLEAN]
        /\ IsInjective(taskrunqueue')
        /\ writer' \in Task \cup {nil} /\ writer' = nil
    BY <1>2, <1>5, <2>1 DEF TypeOK, SchedTypeOK, QueueOK
  <2>5. \A u \in ToSet(taskrunqueue') : ready'[u]
    BY <1>2, <2>1, ToSetFacts DEF TypeOK, SchedTypeOK, QueueOK
  <2>6. /\ rwaiting' \in Seq(Task) /\ wwaiting' \in Seq(Task)
        /\ IsInjective(rwaiting') /\ IsInjective(wwaiting')
    BY <1>1, <1>2, <2>1 DEF TypeOK, Listed
  <2>7. /\ {} \in SUBSET Task /\ {} \subseteq ToSet(rwaiting) \cup ToSet(wwaiting)
        /\ ToSet(taskrunqueue') = ToSet(taskrunqueue) \cup {}
        /\ ToSet(rwaiting') = ToSet(rwaiting) \ {}
        /\ ToSet(wwaiting') = ToSet(wwaiting) \ {}
    BY <1>1, <2>1
  <2> QED BY <1>1, <1>7, <2>2, <2>3, <2>4, <2>5, <2>6, <2>7, ReleaseInv
<1> QED BY <1>8, <1>9

\* A writer leaves: it passes both checks of wunlock, and admits all waiting
\* readers or, if there are none, the first waiting writer.
LEMMA WunlockInv ==
  ASSUME Inv, NEW r \in Task, wunlock(r)
  PROVE  Inv'
<1>1. /\ Idle(r) /\ held[r] = "w" /\ Running(r) /\ call[r] = "none"
      /\ held' = [held EXCEPT ![r] = "none"]
      /\ UNCHANGED <<taskrunning, call, gone>>
  BY DEF wunlock, Idle
<1>2. TypeOK /\ QueueOK /\ Listed /\ CountsExact /\ NoLostWakeup
  BY DEF Inv
<1>3. /\ ToSet(rwaiting) \cap ToSet(taskrunqueue) = {}
      /\ ToSet(wwaiting) \cap ToSet(taskrunqueue) = {}
      /\ ToSet(rwaiting) \subseteq Task /\ ToSet(wwaiting) \subseteq Task
  BY <1>1, RunningFacts
<1>4. Writers = {r} /\ writer = r /\ writer # nil
  <2>1. r \in Writers
    BY <1>1 DEF Writers
  <2> QED BY <1>2, <2>1, TaskAssumption DEF CountsExact
<1>5. readers = 0 /\ Readers = {}
  BY <1>2, <1>4, ReadersFacts DEF CountsExact
<1>6. admit /\ UNCHANGED control
  BY <1>4, <1>5 DEF wunlock
<1>7. /\ rwaiting \in Seq(Task) /\ IsInjective(rwaiting) /\ Len(rwaiting) \in Nat
      /\ wwaiting \in Seq(Task) /\ IsInjective(wwaiting)
      /\ SchedTypeOK /\ QueueOK
  BY <1>2 DEF TypeOK, Listed
<1>8. rwaiting' = <<>> /\ rwaiting' \in Seq(Task)
      /\ IsInjective(rwaiting') /\ ToSet(rwaiting') = {}
  BY <1>6 DEF admit, ToSet, IsInjective
<1>9. ToSet(rwaiting) \cap ToSet(wwaiting) = {}
  BY <1>2 DEF Listed
<1>10. Readers' = { t \in Task : call[t] = "rlock" /\ t \in ToSet(rwaiting) }
  <2>1. \A t \in Task : held[t] # "r"
    BY <1>5 DEF Readers
  <2>2. \A t \in Task : call[t] = "rlock" => t \in ToSet(rwaiting)
    BY <1>5 DEF Readers
  <2> QED BY <1>1, <1>2, <1>8, <2>1, <2>2 DEF Readers, TypeOK
<1>11. Readers' = ToSet(rwaiting)
  BY <1>2, <1>3, <1>10 DEF Listed
<1>12. readers' = Len(rwaiting) /\ readers' \in Nat /\ readers' = Cardinality(Readers')
  <2>1. readers' = Len(rwaiting)
    BY <1>5, <1>6, <1>7 DEF admit
  <2>2. Cardinality(ToSet(rwaiting)) = Len(rwaiting)
    BY <1>7, InjectiveCard
  <2> QED BY <1>7, <1>11, <2>1, <2>2
<1>13. \A t \in Task : held'[t] # "w" /\ (call[t] = "wlock" => t \in ToSet(wwaiting))
  BY <1>1, <1>2, <1>4 DEF Writers, TypeOK
<1>14. CASE rwaiting = <<>> /\ wwaiting # <<>>
  <2> DEFINE h == Head(wwaiting)
  <2>1. /\ deltask(wwaiting, Head(wwaiting)) = Tail(wwaiting)
        /\ Tail(wwaiting) \in Seq(Task)
        /\ Head(wwaiting) \in Task /\ Head(wwaiting) \in ToSet(wwaiting)
        /\ IsInjective(Tail(wwaiting))
        /\ ToSet(Tail(wwaiting)) = ToSet(wwaiting) \ {Head(wwaiting)}
    BY <1>7, <1>14, DelHeadFacts, Zenon
  <2>2. nextwriter = h /\ h \in Task /\ h # nil
    BY <1>14, <2>1, TaskAssumption DEF nextwriter
  <2>3. writer' = h /\ wwaiting' = deltask(wwaiting, h) /\ taskreadyeach(<<h>>)
    BY <1>6, <2>2 DEF admit
  <2>4. /\ h \in ToSet(wwaiting) /\ call[h] = "wlock"
        /\ wwaiting' \in Seq(Task) /\ IsInjective(wwaiting')
        /\ ToSet(wwaiting') = ToSet(wwaiting) \ {h}
    BY <1>2, <2>1, <2>3 DEF Listed
  <2> HIDE DEF h
  <2>5. <<h>> \in Seq(Task) /\ ToSet(<<h>>) = {h} /\ IsInjective(<<h>>)
    BY <2>2 DEF ToSet, IsInjective
  <2>6. /\ taskrunqueue' \in Seq(Task) /\ ready' \in [Task -> BOOLEAN]
        /\ ToSet(taskrunqueue') = ToSet(taskrunqueue) \cup {h}
        /\ IsInjective(taskrunqueue')
        /\ \A u \in ToSet(taskrunqueue') : ready'[u]
    <3>1. ToSet(<<h>>) \cap ToSet(taskrunqueue) = {}
      BY <1>3, <2>4, <2>5
    <3>2. /\ taskrunqueue' \in Seq(Task) /\ ready' \in [Task -> BOOLEAN]
          /\ ToSet(taskrunqueue') = ToSet(taskrunqueue) \cup ToSet(<<h>>)
          /\ IsInjective(taskrunqueue')
          /\ \A u \in ToSet(taskrunqueue') : ready'[u]
      BY <1>7, <2>3, <2>5, <3>1, ReadyEachQueue, Zenon
    <3> QED BY <2>5, <3>2
  <2>7. Writers' = {writer'} \ {nil} /\ writer' \in Task \cup {nil} /\ readers' = 0
    <3>1. Writers' = {h}
      BY <1>1, <1>13, <2>2, <2>4 DEF Writers
    <3> QED BY <1>12, <1>14, <2>2, <2>3, <3>1
  <2>8. NoLostWakeup'
    BY <2>2, <2>3 DEF NoLostWakeup
  <2>9. /\ {h} \in SUBSET Task /\ {h} \subseteq ToSet(rwaiting) \cup ToSet(wwaiting)
        /\ ToSet(rwaiting') = ToSet(rwaiting) \ {h}
    BY <1>6, <1>8, <1>9, <1>14, <2>2, <2>4
  <2> QED BY <1>1, <1>6, <1>8, <1>12, <2>4, <2>6, <2>7, <2>8, <2>9, ReleaseInv
<1>15. CASE ~(rwaiting = <<>> /\ wwaiting # <<>>)
  <2>1. nextwriter = nil
    BY <1>15 DEF nextwriter
  <2>2. writer' = nil /\ wwaiting' = wwaiting /\ taskreadyeach(rwaiting)
    BY <1>6, <2>1 DEF admit
  <2>3. /\ taskrunqueue' \in Seq(Task) /\ ready' \in [Task -> BOOLEAN]
        /\ ToSet(taskrunqueue') = ToSet(taskrunqueue) \cup ToSet(rwaiting)
        /\ IsInjective(taskrunqueue')
        /\ \A u \in ToSet(taskrunqueue') : ready'[u]
    BY <1>3, <1>7, <2>2, ReadyEachQueue, Zenon
  <2>4. Writers' = {writer'} \ {nil} /\ writer' \in Task \cup {nil}
    <3>1. Writers' = {}
      BY <1>1, <1>13, <2>2 DEF Writers
    <3> QED BY <2>2, <3>1
  <2>5. NoLostWakeup'
    <3>1. wwaiting # <<>> => Len(rwaiting) > 0
      BY <1>7, <1>15, EmptySeq
    <3> QED BY <1>8, <1>12, <2>2, <3>1 DEF NoLostWakeup
  <2>6. /\ ToSet(rwaiting) \in SUBSET Task
        /\ ToSet(rwaiting) \subseteq ToSet(rwaiting) \cup ToSet(wwaiting)
        /\ ToSet(rwaiting') = ToSet(rwaiting) \ ToSet(rwaiting)
        /\ ToSet(wwaiting') = ToSet(wwaiting) \ ToSet(rwaiting)
        /\ wwaiting' \in Seq(Task) /\ IsInjective(wwaiting')
    BY <1>3, <1>7, <1>8, <1>9, <2>2
  <2> QED BY <1>1, <1>6, <1>8, <1>12, <2>2, <2>3, <2>4, <2>5, <2>6, ReleaseInv
<1> QED BY <1>14, <1>15

-----------------------------------------------------------------------------

\* Steps of the scheduler and of clients that do not touch the lock: all that
\* is left to show is what is said of the queue.
LEMMA LockUnchanged ==
  ASSUME Inv, UNCHANGED <<lockvars, call, held>>, gone' \in SUBSET Task,
         SchedTypeOK', QueueOK', Placed', control' # "aborted"
  PROVE  Inv'
<1>1. TypeOK /\ Listed /\ CountsExact /\ NoLostWakeup /\ HeldOK
  BY DEF Inv
<1>2. TypeOK'
  BY <1>1 DEF TypeOK, lockvars
<1>3. Listed' /\ NoLostWakeup' /\ HeldOK'
  BY <1>1 DEF Listed, NoLostWakeup, HeldOK, lockvars
<1>4. CountsExact'
  <2>1. Readers' = Readers /\ Writers' = Writers
    BY DEF Readers, Writers, lockvars
  <2> QED BY <1>1, <2>1 DEF CountsExact, lockvars
<1> QED BY <1>2, <1>3, <1>4 DEF Inv

LEMMA ClientInv ==
  ASSUME Inv, NEW r \in Task, taskyield(r) \/ taskexit(r)
  PROVE  Inv'
<1>1. /\ Running(r) /\ call[r] = "none" /\ control' = "sched"
      /\ UNCHANGED <<taskrunning, lockvars, call, held>>
  BY DEF taskyield, taskexit, Free, Idle, yieldcpu, taskswitch, clientvars
<1>2. TypeOK /\ SchedTypeOK /\ QueueOK /\ Placed /\ CountsExact
  BY DEF Inv, TypeOK
<1>3. control = "task" /\ taskrunning = r /\ ~Ended /\ r \notin ToSet(taskrunqueue)
  BY <1>1, RunningFacts
<1>4. gone' \in SUBSET Task
  BY <1>2 DEF taskyield, taskexit, clientvars, TypeOK
<1>5. /\ taskrunqueue' \in Seq(Task) /\ ready' \in [Task -> BOOLEAN]
      /\ IsInjective(taskrunqueue')
      /\ \A u \in ToSet(taskrunqueue') : ready'[u]
      /\ ToSet(taskrunqueue') \in {ToSet(taskrunqueue), ToSet(taskrunqueue) \cup {r}}
  <2>1. CASE taskyield(r)
    <3>1. taskready(r)
      BY <2>1 DEF taskyield, yieldcpu
    <3> QED BY <1>2, <1>3, <3>1, ReadyQueue
  <2>2. CASE taskexit(r)
    BY <1>2, <2>2, ToSetFacts DEF taskexit, SchedTypeOK, QueueOK
  <2> QED BY <2>1, <2>2
<1>6. SchedTypeOK' /\ QueueOK'
  BY <1>1, <1>2, <1>5 DEF SchedTypeOK, QueueOK
<1>7. Placed'
  <2>1. \A t \in Task : call[t] # "none" => t # r /\ ~Running(t)
    BY <1>1, <1>3 DEF Running
  <2>2. \A t : ~Running(t)'
    BY <1>1 DEF Running
  <2> QED BY <1>1, <1>2, <1>3, <1>5, <2>1, <2>2 DEF Placed, lockvars
<1> QED BY <1>1, <1>4, <1>6, <1>7, LockUnchanged

LEMMA SchedInv ==
  ASSUME Inv, taskscheduler
  PROVE  Inv'
<1>1. UNCHANGED <<lockvars, call, held>> /\ gone' = gone /\ control = "sched"
  BY DEF taskscheduler, clientvars, runnext, norunnable
<1>2. TypeOK /\ SchedTypeOK /\ QueueOK /\ Placed
  BY DEF Inv, TypeOK
<1>3. gone' \in SUBSET Task
  BY <1>1, <1>2 DEF TypeOK
<1>4. CASE runnext
  <2>1. PICK t \in Task : dispatch(t)
    BY <1>4 DEF runnext
  <2>2. taskrunning' = t /\ control' = "task"
    BY <2>1 DEF dispatch
  <2>3. /\ taskrunqueue' \in Seq(Task) /\ ready' \in [Task -> BOOLEAN]
        /\ t \in ToSet(taskrunqueue)
        /\ ToSet(taskrunqueue') = ToSet(taskrunqueue) \ {t}
        /\ IsInjective(taskrunqueue')
        /\ \A u \in ToSet(taskrunqueue') : ready'[u]
    BY <1>2, <2>1, DispatchQueue
  <2>4. SchedTypeOK' /\ QueueOK'
    BY <2>2, <2>3 DEF SchedTypeOK, QueueOK
  <2>5. Placed'
    BY <1>1, <1>2, <2>2, <2>3 DEF Placed, Running, Ended, lockvars
  <2> QED BY <1>1, <1>3, <2>2, <2>4, <2>5, LockUnchanged
<1>5. CASE norunnable
  <2>1. control' = "exited" /\ UNCHANGED <<taskrunqueue, taskrunning, ready>>
    BY <1>5 DEF norunnable
  <2>2. SchedTypeOK' /\ QueueOK' /\ Placed'
    BY <1>2, <2>1 DEF SchedTypeOK, QueueOK, Placed, Ended
  <2> QED BY <1>1, <1>3, <2>1, <2>2, LockUnchanged
<1> QED BY <1>4, <1>5 DEF taskscheduler

\* Steps that change nothing.
LEMMA StutterInv ==
  ASSUME Inv, UNCHANGED vars
  PROVE  Inv'
<1>1. UNCHANGED <<taskrunqueue, taskrunning, ready, control, lockvars, call, held, gone>>
  BY DEF vars, schedvars, clientvars
<1>2. SchedTypeOK' /\ QueueOK' /\ Placed' /\ control' # "aborted" /\ gone' \in SUBSET Task
  BY <1>1 DEF Inv, TypeOK, CountsExact, SchedTypeOK, QueueOK, Placed, Running, Ended, lockvars
<1> QED BY <1>1, <1>2, LockUnchanged

\* No step of the program breaks the invariant.
LEMMA NextInv ==
  ASSUME Inv, [Next]_vars
  PROVE  Inv'
<1>1. ASSUME NEW r \in Task, NEW block \in BOOLEAN, rlock(r, block) PROVE Inv'
  BY <1>1, GrantInv, SuspendInv, StutterInv DEF rlock
<1>2. ASSUME NEW r \in Task, NEW block \in BOOLEAN, wlock(r, block) PROVE Inv'
  BY <1>2, GrantInv, SuspendInv, StutterInv DEF wlock
<1>3. ASSUME NEW r \in Task, Step(r) PROVE Inv'
  BY <1>1, <1>2, <1>3, ResumeInv, RunlockInv, WunlockInv, ClientInv DEF Step
<1> QED BY <1>3, SchedInv, StutterInv DEF Next, Terminated

\* The inductive invariant holds of every reachable state.
THEOREM Invariance == Spec => []Inv
<1>1. Init => Inv
  BY InitInv
<1>2. Inv /\ [Next]_vars => Inv'
  BY NextInv
<1> QED BY <1>1, <1>2, PTL DEF Spec

\* l->readers and l->writer always count the tasks that were granted the lock,
\* and wunlock never aborts.
THEOREM CountsCorrect == Spec => []CountsExact
<1>1. Inv => CountsExact
  BY DEF Inv
<1> QED BY <1>1, Invariance, PTL

\* A task suspended in rlock or wlock is on that call's list, or has been
\* granted the lock and is queued to run.
THEOREM WaitersCorrect == Spec => []WaitersOK
<1>1. Inv => WaitersOK
  BY InvWaiters
<1> QED BY <1>1, Invariance, PTL

\* A task waits only while somebody is inside who will wake it, or while a
\* writer waits before it.
THEOREM WakeupCorrect == Spec => []NoLostWakeup
<1>1. Inv => NoLostWakeup
  BY DEF Inv
<1> QED BY <1>1, Invariance, PTL

\* While a writer holds the lock nobody else does.
THEOREM ExclusionCorrect == Spec => []RWExclusion
<1>1. ASSUME Inv PROVE RWExclusion
  <2> SUFFICES ASSUME NEW t \in Task, NEW u \in Task, held[t] = "w", u # t
               PROVE  held[u] = "none"
    BY DEF RWExclusion
  <2>1. TypeOK /\ CountsExact
    BY <1>1 DEF Inv
  <2>2. t \in Writers
    BY DEF Writers
  <2>3. writer = t /\ writer # nil /\ u \notin Writers /\ readers = 0
    BY <2>1, <2>2, TaskAssumption DEF CountsExact
  <2>4. u \notin Readers
    BY <2>1, <2>3, ReadersFacts DEF CountsExact
  <2> QED BY <2>1, <2>3, <2>4 DEF Readers, Writers, TypeOK
<1>2. Inv => RWExclusion
  BY <1>1
<1> QED BY <1>2, Invariance, PTL

=============================================================================
