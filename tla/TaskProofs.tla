----------------------------- MODULE TaskProofs -----------------------------
(***************************************************************************)
(* The safety of Task for any set of task addresses, any growth of         *)
(* alltask[] and any width of the switch counter.                          *)
(***************************************************************************)
EXTENDS Task, SchedProofs

\* The inductive invariant.  None of its parts is inductive alone: delist
\* needs the exiting task's slot (SlotsOK) and that the task is in the table
\* (QueuedAlive); the counts need that entries are distinct.
Inv == TypeOK /\ SlotsOK /\ CapacityOK /\ CountOK /\ QueuedAlive /\ NoTaskLost

\* The arithmetic of enroll: a table of n entries in a block of c slots has
\* room for one more unless n is a multiple of CHUNK, and then realloc adds
\* CHUNK slots.
LEMMA ChunkFacts ==
  ASSUME NEW n \in Nat, NEW c \in Nat, n <= c, c % CHUNK = 0
  PROVE  /\ n % CHUNK # 0 => n + 1 <= c
         /\ n % CHUNK = 0 => (n + CHUNK) % CHUNK = 0 /\ n + 1 <= n + CHUNK
  BY LifeAssumption

\* Overwriting entry k of a list without duplicates with the last entry and
\* dropping the last entry removes exactly the k-th element.
LEMMA SwapOutFacts ==
  ASSUME NEW S, NEW tab \in Seq(S), NEW n \in Nat, n = Len(tab),
         NEW k \in 1 .. n,
         NEW new \in Seq(S), Len(new) = n - 1,
         \A j \in 1 .. n - 1 : new[j] = (IF j = k THEN tab[n] ELSE tab[j]),
         IsInjective(tab)
  PROVE  /\ ToSet(new) = ToSet(tab) \ {tab[k]}
         /\ IsInjective(new)
<1>1. DOMAIN tab = 1 .. n /\ DOMAIN new = 1 .. n - 1 /\ n \in 1 .. n
  BY LenProperties
<1>2. \A i, j \in 1 .. n : tab[i] = tab[j] => i = j
  BY <1>1 DEF IsInjective
<1>3. \A j \in 1 .. n - 1 : j = k => new[j] = tab[n] /\ n # k
  BY <1>1
<1>4. \A j \in 1 .. n - 1 : j # k => new[j] = tab[j] /\ j \in 1 .. n /\ j # n
  BY <1>1
<1>5. ASSUME NEW x \in ToSet(new) PROVE x \in ToSet(tab) \ {tab[k]}
  <2>1. PICK j \in 1 .. n - 1 : x = new[j]
    BY <1>1 DEF ToSet
  <2>2. PICK i \in 1 .. n : x = tab[i] /\ i # k
    BY <1>1, <1>3, <1>4, <2>1
  <2> QED BY <1>1, <1>2, <2>2 DEF ToSet
<1>6. ASSUME NEW x \in ToSet(tab), x # tab[k] PROVE x \in ToSet(new)
  <2>1. PICK i \in 1 .. n : x = tab[i]
    BY <1>1 DEF ToSet
  <2>2. i # k
    BY <1>6, <2>1
  <2>3. PICK j \in 1 .. n - 1 : x = new[j]
    <3>1. CASE i = n
      <4>1. k \in 1 .. n - 1
        BY <2>2, <3>1
      <4> QED BY <1>3, <2>1, <3>1, <4>1
    <3>2. CASE i # n
      <4>1. i \in 1 .. n - 1
        BY <3>2
      <4> QED BY <1>4, <2>1, <2>2, <4>1
    <3> QED BY <3>1, <3>2
  <2> QED BY <1>1, <2>3 DEF ToSet
<1>7. ASSUME NEW i \in 1 .. n - 1, NEW j \in 1 .. n - 1, new[i] = new[j]
      PROVE  i = j
  <2>1. CASE i = k /\ j # k
    <3>1. tab[n] = tab[j] /\ j \in 1 .. n /\ j # n
      BY <1>3, <1>4, <1>7, <2>1
    <3> QED BY <1>1, <1>2, <3>1
  <2>2. CASE i # k /\ j = k
    <3>1. tab[n] = tab[i] /\ i \in 1 .. n /\ i # n
      BY <1>3, <1>4, <1>7, <2>2
    <3> QED BY <1>1, <1>2, <3>1
  <2>3. CASE i # k /\ j # k
    <3>1. tab[i] = tab[j] /\ i \in 1 .. n /\ j \in 1 .. n
      BY <1>4, <1>7, <2>3
    <3> QED BY <1>2, <3>1
  <2> QED BY <2>1, <2>2, <2>3
<1> QED BY <1>1, <1>5, <1>6, <1>7 DEF IsInjective

\* delist on a table whose tasks know their slots: exactly t leaves, and the
\* tasks that stay still know their slots.
LEMMA DelistFacts ==
  ASSUME TypeOK, SlotsOK, NEW t \in Live, delist(t)
  PROVE  /\ alltask' \in Seq(Task) /\ alltaskslot' \in [Task -> Nat]
         /\ Len(alltask') = Len(alltask) - 1 /\ Len(alltask) \in Nat
         /\ ToSet(alltask') = Live \ {t}
         /\ SlotsOK'
<1> DEFINE n == Len(alltask)
           k == alltaskslot[t] + 1
           last == alltask[n]
           mid == [alltask EXCEPT ![k] = last]
<1>1. /\ n \in Nat /\ n = Len(alltask) /\ DOMAIN alltask = 1 .. n
      /\ \A i \in 1 .. n : alltask[i] \in Task
      /\ alltask \in Seq(Task) /\ alltaskslot \in [Task -> Nat]
  BY LenProperties, ElementOfSeq DEF TypeOK
<1>2. IsInjective(alltask) /\ \A i \in 1 .. n : alltaskslot[alltask[i]] = i - 1
  BY DEF SlotsOK
<1>3. /\ k \in 1 .. n /\ alltask[k] = t /\ alltaskslot[t] = k - 1
      /\ n \in 1 .. n /\ last \in Task /\ last = alltask[n]
  <2>1. PICK i \in 1 .. n : alltask[i] = t
    BY <1>1 DEF Live, ToSet
  <2> QED BY <1>1, <1>2, <2>1
<1>4. /\ alltask' = Front(mid)
      /\ alltaskslot' = [alltaskslot EXCEPT ![last] = k - 1]
  BY <1>3 DEF delist, freedslot
<1>5. /\ mid \in Seq(Task) /\ Len(mid) = n
      /\ \A j \in 1 .. n : mid[j] = IF j = k THEN last ELSE alltask[j]
  BY <1>1, <1>3, ExceptSeq
<1> HIDE DEF n, k, last, mid
<1>6. /\ alltask' \in Seq(Task) /\ Len(alltask') = n - 1
      /\ \A j \in 1 .. n - 1 : alltask'[j] = (IF j = k THEN last ELSE alltask[j])
  <2>1. mid # <<>>
    BY <1>3, <1>5
  <2>2. /\ Front(mid) \in Seq(Task) /\ Len(Front(mid)) = n - 1
        /\ \A j \in 1 .. n - 1 : Front(mid)[j] = mid[j]
    BY <1>5, <2>1, FrontFacts
  <2>3. \A j \in 1 .. n - 1 : j \in 1 .. n
    BY <1>1
  <2> QED BY <1>4, <1>5, <2>2, <2>3
<1>7. ToSet(alltask') = Live \ {t} /\ IsInjective(alltask')
  <2>1. \A j \in 1 .. n - 1 :
           alltask'[j] = (IF j = k THEN alltask[n] ELSE alltask[j])
    BY <1>3, <1>6
  <2>2. ToSet(alltask') = ToSet(alltask) \ {alltask[k]} /\ IsInjective(alltask')
    <3>1. /\ alltask \in Seq(Task) /\ n \in Nat /\ n = Len(alltask) /\ k \in 1 .. n
          /\ alltask' \in Seq(Task) /\ Len(alltask') = n - 1 /\ IsInjective(alltask)
      BY <1>1, <1>2, <1>3, <1>6
    <3> QED BY <2>1, <3>1, SwapOutFacts, ZenonT(30)
  <2> QED BY <1>3, <2>2 DEF Live
<1>8. ASSUME NEW j \in 1 .. n - 1
      PROVE  alltaskslot'[alltask'[j]] = j - 1
  <2>1. CASE j = k
    BY <1>1, <1>3, <1>4, <1>6, <2>1
  <2>2. CASE j # k
    <3>1. alltask'[j] = alltask[j] /\ j \in 1 .. n /\ j # n
      BY <1>1, <1>6, <2>2
    <3>2. alltask[j] # last
      BY <1>1, <1>2, <1>3, <3>1 DEF IsInjective
    <3> QED BY <1>1, <1>2, <1>3, <1>4, <3>1, <3>2
  <2> QED BY <2>1, <2>2
<1>9. alltaskslot' \in [Task -> Nat]
  BY <1>1, <1>3, <1>4
<1> QED BY <1>1, <1>6, <1>7, <1>8, <1>9 DEF SlotsOK

-----------------------------------------------------------------------------

\* What taskready does to the queue, when t is not on it.
LEMMA ReadyFacts ==
  ASSUME TypeOK, QueueOK, NEW t \in Task, t \notin ToSet(taskrunqueue), taskready(t)
  PROVE  /\ taskrunqueue' \in Seq(Task)
         /\ ready' \in [Task -> BOOLEAN]
         /\ ToSet(taskrunqueue') = ToSet(taskrunqueue) \cup {t}
         /\ IsInjective(taskrunqueue')
         /\ \A u \in ToSet(taskrunqueue') : ready'[u]
  BY ReadyQueue DEF TypeOK

\* What dispatch does to the queue.
LEMMA DispatchFacts ==
  ASSUME TypeOK, QueueOK, NEW t \in Task, dispatch(t)
  PROVE  /\ taskrunqueue' \in Seq(Task)
         /\ ready' \in [Task -> BOOLEAN]
         /\ t \in ToSet(taskrunqueue)
         /\ ToSet(taskrunqueue') = ToSet(taskrunqueue) \ {t}
         /\ IsInjective(taskrunqueue')
         /\ \A u \in ToSet(taskrunqueue') : ready'[u]
  BY DispatchQueue DEF TypeOK

\* The user tasks are finitely many.
LEMMA UsersFinite ==
  ASSUME TypeOK
  PROVE  IsFiniteSet(Users) /\ Live \subseteq Task
<1>1. Live \subseteq Task
  BY ToSetFacts DEF TypeOK, Live
<1>2. Users \in SUBSET Task
  BY <1>1 DEF Users
<1> QED BY <1>1, <1>2, TaskAssumption, FS_Subset

\* The first task, created by main, makes the invariant true.
LEMMA InitInv == Init => Inv
<1> SUFFICES ASSUME Init PROVE Inv
  OBVIOUS
<1>1. PICK t0 \in Task :
        /\ alltask = <<t0>> /\ taskrunqueue = <<t0>>
        /\ ready = [t \in Task |-> t = t0]
  BY DEF Init
<1>2. ToSet(<<t0>>) = {t0} /\ IsInjective(<<t0>>)
  BY DEF ToSet, IsInjective
<1>3. TypeOK
  <2>1. ready \in [Task -> BOOLEAN]
    BY <1>1, Zenon
  <2>2. yield \in [Task -> [n : 0 .. NSWITCH - 1, ahead : SUBSET Task,
                            ran : SUBSET Task]]
    BY LifeAssumption DEF Init, NoYield
  <2> QED BY <1>1, <2>1, <2>2, LifeAssumption DEF Init, TypeOK, SchedTypeOK
<1>4. SlotsOK /\ CapacityOK
  BY <1>1, <1>2, LifeAssumption DEF Init, SlotsOK, CapacityOK
<1>5. CountOK
  <2>1. Users = {t0}
    BY <1>1, <1>2 DEF Users, Live, Init
  <2> QED BY <2>1, FS_Singleton DEF CountOK, Init
<1>6. QueuedAlive /\ NoTaskLost
  BY <1>1, <1>2 DEF Init, QueuedAlive, NoTaskLost, QueueOK, Live
<1> QED BY <1>3, <1>4, <1>5, <1>6 DEF Inv

\* Steps that leave the table and the counts alone keep what is said of them.
LEMMA TableUnchanged ==
  ASSUME Inv, UNCHANGED <<alltask, alltaskslot, alltaskcap, system, taskcount>>
  PROVE  SlotsOK' /\ CapacityOK' /\ CountOK'
  BY DEF Inv, SlotsOK, CapacityOK, CountOK, Users, Live

\* taskcreate keeps the invariant: the new task takes the next slot, which
\* exists, and is counted and queued.
LEMMA CreateInv ==
  ASSUME Inv, NEW r \in Task, NEW t \in Task, taskcreate(r, t)
  PROVE  Inv'
<1> USE DEF Inv
<1>1. /\ Running(r) /\ pc[r] = "run" /\ t \notin Live
      /\ exiting' = [exiting EXCEPT ![t] = FALSE]
      /\ system' = [system EXCEPT ![t] = FALSE]
      /\ pc' = [pc EXCEPT ![t] = "run"]
      /\ taskcount' = taskcount + 1
      /\ alltask' = addtask(alltask, t)
      /\ alltaskslot' = [alltaskslot EXCEPT ![t] = Len(alltask)]
      /\ UNCHANGED <<taskrunning, control, tasknswitch, taskexitval, status, yield>>
  BY DEF taskcreate, taskalloc, enroll, tablefull, addtask
<1>2. /\ alltask \in Seq(Task) /\ Len(alltask) \in Nat /\ Live \subseteq Task
      /\ alltask' \in Seq(Task) /\ Len(alltask') = Len(alltask) + 1
      /\ \A i \in 1 .. Len(alltask) : alltask'[i] = alltask[i] /\ alltask[i] \in Live
      /\ alltask'[Len(alltask) + 1] = t
  <2>1. alltask \in Seq(Task) /\ Live \subseteq Task
    BY UsersFinite DEF TypeOK
  <2>2. Len(alltask) \in Nat /\ DOMAIN alltask = 1 .. Len(alltask)
    BY <2>1, LenProperties
  <2>3. /\ alltask' \in Seq(Task) /\ Len(alltask') = Len(alltask) + 1
        /\ \A i \in 1 .. Len(alltask) : alltask'[i] = alltask[i]
        /\ alltask'[Len(alltask) + 1] = t
    BY <1>1, <2>1, AppendProperties DEF addtask
  <2>4. \A i \in 1 .. Len(alltask) : alltask[i] \in Live
    BY <2>2, Zenon DEF Live, ToSet
  <2> QED BY <2>1, <2>2, <2>3, <2>4
<1>3. Live' = Live \cup {t} /\ IsInjective(alltask')
  <2>1. alltask \in Seq(Task) /\ IsInjective(alltask) /\ t \notin ToSet(alltask)
    BY <1>1, <1>2 DEF Live, SlotsOK
  <2>2. /\ ToSet(addtask(alltask, t)) = ToSet(alltask) \cup {t}
        /\ IsInjective(addtask(alltask, t))
    BY <2>1, AddNewTask
  <2> QED BY <1>1, <2>2 DEF Live
<1>4. /\ t \notin ToSet(taskrunqueue)
      /\ taskrunqueue' \in Seq(Task)
      /\ ready' \in [Task -> BOOLEAN]
      /\ ToSet(taskrunqueue') = ToSet(taskrunqueue) \cup {t}
      /\ IsInjective(taskrunqueue')
      /\ \A u \in ToSet(taskrunqueue') : ready'[u]
  <2>1. taskready(t) /\ QueueOK /\ t \notin ToSet(taskrunqueue)
    BY <1>1 DEF taskcreate, QueuedAlive
  <2> QED BY <2>1, ReadyFacts
<1>5. /\ alltaskcap' \in Nat
      /\ CapacityOK'
  <2>1. Len(alltask) <= alltaskcap /\ alltaskcap % CHUNK = 0 /\ alltaskcap \in Nat
    BY DEF CapacityOK, TypeOK
  <2>2. alltaskcap' = IF Len(alltask) % CHUNK = 0 THEN Len(alltask) + CHUNK
                                                  ELSE alltaskcap
    BY DEF taskcreate, enroll, tablefull
  <2>3. CASE Len(alltask) % CHUNK = 0
    BY <1>2, <2>1, <2>2, <2>3, ChunkFacts, LifeAssumption DEF CapacityOK
  <2>4. CASE Len(alltask) % CHUNK # 0
    BY <1>2, <2>1, <2>2, <2>4, ChunkFacts DEF CapacityOK
  <2> QED BY <2>3, <2>4
<1>6. TypeOK'
  <2>1. exiting' \in [Task -> BOOLEAN] /\ system' \in [Task -> BOOLEAN]
    BY <1>1, Zenon DEF TypeOK
  <2>2. /\ alltaskslot' \in [Task -> Nat]
        /\ pc' \in [Task -> {"run", "yield", "parked"}]
        /\ taskcount' \in Int
    BY <1>1, <1>2 DEF TypeOK
  <2> QED BY <1>1, <1>2, <1>4, <1>5, <2>1, <2>2 DEF TypeOK, SchedTypeOK
<1>7. SlotsOK'
  <2>1. ASSUME NEW i \in 1 .. Len(alltask)
        PROVE  alltaskslot'[alltask'[i]] = i - 1
    <3>1. alltask'[i] = alltask[i] /\ alltask[i] \in Task /\ alltask[i] # t
      BY <1>1, <1>2
    <3>2. alltaskslot[alltask[i]] = i - 1 /\ alltaskslot \in [Task -> Nat]
      BY DEF SlotsOK, TypeOK
    <3> QED BY <1>1, <3>1, <3>2
  <2>2. alltaskslot'[alltask'[Len(alltask) + 1]] = Len(alltask)
    BY <1>1, <1>2 DEF TypeOK
  <2>3. ASSUME NEW i \in 1 .. Len(alltask')
        PROVE  alltaskslot'[alltask'[i]] = i - 1
    <3>1. i \in 1 .. Len(alltask) \/ i = Len(alltask) + 1
      BY <1>2
    <3>2. CASE i \in 1 .. Len(alltask)
      BY <2>1, <3>2
    <3>3. CASE i = Len(alltask) + 1
      BY <1>2, <2>2, <3>3
    <3> QED BY <3>1, <3>2, <3>3
  <2> QED BY <1>3, <2>3 DEF SlotsOK
<1>8. CountOK'
  <2>1. Users' = Users \cup {t} /\ t \notin Users
    BY <1>1, <1>2, <1>3 DEF Users, TypeOK
  <2>2. IsFiniteSet(Users) /\ taskcount = Cardinality(Users)
    BY UsersFinite DEF CountOK
  <2>3. Cardinality(Users') = Cardinality(Users) + 1
    BY <2>1, <2>2, FS_AddElement
  <2> QED BY <1>1, <2>2, <2>3 DEF CountOK
<1>9. QueuedAlive'
  <2>1. taskrunning = r /\ r \in Live /\ r # t /\ r \notin ToSet(taskrunqueue)
    BY <1>1, TaskAssumption DEF QueuedAlive, QueueOK, Running
  <2> QED BY <1>1, <1>2, <1>3, <1>4, <2>1 DEF QueuedAlive, QueueOK, TypeOK
<1>10. NoTaskLost'
  BY <1>1, <1>2, <1>3, <1>4 DEF NoTaskLost, TypeOK, Running, Ended
<1> QED BY <1>5, <1>6, <1>7, <1>8, <1>9, <1>10

\* The scheduler's free() keeps the invariant: the exiting task, and no other,
\* leaves the table, and the count if it was counted.
LEMMA ReturnInv ==
  ASSUME Inv, schedreturn
  PROVE  Inv'
<1> USE DEF Inv
<1> DEFINE t == taskrunning
<1>1. /\ control = "sched" /\ t \in Live /\ t \in Task /\ taskrunning' = nil
      /\ UNCHANGED <<taskrunqueue, ready, control, alltaskcap, exiting, system,
                     tasknswitch, taskexitval, status, pc, yield>>
  BY UsersFinite DEF schedreturn, uncounted, QueuedAlive
<1>2. CASE ~exiting[t]
  <2>1. UNCHANGED <<taskcount, alltask, alltaskslot>>
    BY <1>2 DEF schedreturn, uncounted
  <2>2. SlotsOK' /\ CapacityOK' /\ CountOK'
    BY <1>1, <2>1, TableUnchanged
  <2>3. TypeOK'
    BY <1>1, <2>1 DEF TypeOK, SchedTypeOK
  <2>4. QueuedAlive' /\ NoTaskLost'
    BY <1>1, <1>2, <2>1 DEF QueuedAlive, NoTaskLost, QueueOK, Live, Ended
  <2> QED BY <2>2, <2>3, <2>4
<1>3. CASE exiting[t]
  <2>1. /\ taskcount' = IF system[t] THEN taskcount ELSE taskcount - 1
        /\ delist(t)
    BY <1>3 DEF schedreturn, uncounted
  <2>2. /\ alltask' \in Seq(Task) /\ alltaskslot' \in [Task -> Nat]
        /\ Len(alltask') = Len(alltask) - 1 /\ Len(alltask) \in Nat
        /\ Live' = Live \ {t}
        /\ SlotsOK'
    BY <1>1, <2>1, DelistFacts DEF Live
  <2>3. TypeOK'
    <3>1. taskcount' \in Int
      <4>1. taskcount \in Int
        BY Zenon DEF TypeOK
      <4> QED BY <2>1, <4>1
    <3>2. taskrunning' \in Task \cup {nil}
      BY <1>1
    <3> QED BY <1>1, <2>2, <3>1, <3>2, Zenon DEF TypeOK, SchedTypeOK
  <2>4. CapacityOK'
    BY <1>1, <2>2 DEF CapacityOK, TypeOK
  <2>5. CountOK'
    <3>1. Users' = Users \ {t} /\ (t \in Users <=> ~system[t])
      BY <1>1, <2>2 DEF Users
    <3>2. IsFiniteSet(Users) /\ taskcount = Cardinality(Users)
      BY UsersFinite DEF CountOK
    <3>3. Cardinality(Users') = IF t \in Users THEN Cardinality(Users) - 1
                                              ELSE Cardinality(Users)
      BY <3>1, <3>2, FS_RemoveElement
    <3> QED BY <2>1, <3>1, <3>2, <3>3 DEF CountOK
  <2>6. QueuedAlive' /\ NoTaskLost'
    BY <1>1, <1>3, <2>2 DEF QueuedAlive, NoTaskLost, QueueOK, Ended
  <2> QED BY <1>1, <2>2, <2>3, <2>4, <2>5, <2>6
<1> QED BY <1>2, <1>3

\* tasksystem keeps the invariant: the caller is uncounted once.
LEMMA SystemInv ==
  ASSUME Inv, NEW r \in Task, tasksystem(r)
  PROVE  Inv'
<1> USE DEF Inv
<1>1. /\ Running(r) /\ ~system[r]
      /\ system' = [system EXCEPT ![r] = TRUE]
      /\ taskcount' = taskcount - 1
      /\ UNCHANGED <<schedvars, alltask, alltaskslot, alltaskcap, exiting,
                     tasknswitch, taskexitval, status, pc, yield>>
  BY DEF tasksystem, markable
<1>2. TypeOK'
  <2>1. system' \in [Task -> BOOLEAN]
    BY <1>1, Zenon DEF TypeOK
  <2> QED BY <1>1, <2>1 DEF TypeOK, SchedTypeOK, schedvars
<1>3. CountOK'
  <2>1. r \in Live /\ Live' = Live /\ Live \subseteq Task
    BY <1>1, TaskAssumption, UsersFinite DEF QueuedAlive, Running, Live
  <2>2. Users' = Users \ {r} /\ r \in Users
    BY <1>1, <2>1 DEF Users, TypeOK
  <2>3. IsFiniteSet(Users) /\ taskcount = Cardinality(Users)
    BY UsersFinite DEF CountOK
  <2>4. Cardinality(Users') = Cardinality(Users) - 1
    BY <2>2, <2>3, FS_RemoveElement
  <2> QED BY <1>1, <2>3, <2>4 DEF CountOK
<1>4. SlotsOK' /\ CapacityOK' /\ QueuedAlive' /\ NoTaskLost'
  BY <1>1 DEF SlotsOK, CapacityOK, QueuedAlive, NoTaskLost, QueueOK, Live,
              Ended, schedvars
<1> QED BY <1>2, <1>3, <1>4

\* The calls of a running task that touch neither the table nor the counts.
LEMMA ClientInv ==
  ASSUME Inv, NEW r \in Task,
         \/ taskyield(r) \/ taskyieldreturn(r) \/ Park(r) \/ NoMemory(r)
         \/ \E t \in Task : Wake(r, t)
         \/ \E val \in ExitVals : taskexit(r, val) \/ taskexitall(r, val)
  PROVE  Inv'
<1> USE DEF Inv
<1>1. SlotsOK' /\ CapacityOK' /\ CountOK'
  <2>1. UNCHANGED <<alltask, alltaskslot, alltaskcap, system, taskcount>>
    BY DEF taskyield, taskyieldreturn, Park, NoMemory, Wake, taskexit,
           taskexitall, lifevars
  <2> QED BY <2>1, TableUnchanged
<1>2. /\ taskrunning = r /\ control = "task" /\ r \in Live
      /\ r \notin ToSet(taskrunqueue) /\ Live \subseteq Task
      /\ \A t \in Live : ~exiting[t]
  BY TaskAssumption, UsersFinite
     DEF QueuedAlive, QueueOK, Running, taskyield, taskyieldreturn, Park,
         NoMemory, Wake, taskexit, taskexitall
<1>3. CASE taskyield(r)
  <2>1. /\ taskrunqueue' \in Seq(Task) /\ ready' \in [Task -> BOOLEAN]
        /\ ToSet(taskrunqueue') = ToSet(taskrunqueue) \cup {r}
        /\ IsInjective(taskrunqueue')
        /\ \A u \in ToSet(taskrunqueue') : ready'[u]
    BY <1>2, <1>3, ReadyFacts DEF taskyield, QueuedAlive
  <2>2. /\ control' = "sched" /\ pc' = [pc EXCEPT ![r] = "yield"]
        /\ UNCHANGED <<taskrunning, lifevars, taskcount, tasknswitch,
                       taskexitval, status>>
    BY <1>3 DEF taskyield, taskswitch
  <2>3. TypeOK'
    <3>1. ToSet(taskrunqueue) \subseteq Task
      BY ToSetFacts DEF TypeOK, SchedTypeOK
    <3>2. yield' \in [Task -> [n : 0 .. NSWITCH - 1, ahead : SUBSET Task,
                                ran : SUBSET Task]]
      BY <1>3, <3>1 DEF TypeOK, taskyield
    <3> QED BY <2>1, <2>2, <3>2 DEF TypeOK, SchedTypeOK, lifevars
  <2>4. QueuedAlive' /\ NoTaskLost'
    BY <1>2, <2>1, <2>2
       DEF QueuedAlive, QueueOK, NoTaskLost, Live, lifevars, TypeOK, Ended
  <2> QED BY <1>1, <2>3, <2>4
<1>4. CASE taskyieldreturn(r)
  <2>1. /\ pc[r] = "yield" /\ pc' = [pc EXCEPT ![r] = "run"]
        /\ UNCHANGED <<schedvars, lifevars, taskcount, tasknswitch,
                       taskexitval, status>>
    BY <1>4 DEF taskyieldreturn
  <2>2. yield' \in [Task -> [n : 0 .. NSWITCH - 1, ahead : SUBSET Task,
                              ran : SUBSET Task]]
    BY <1>4, LifeAssumption DEF TypeOK, taskyieldreturn, NoYield
  <2>3. TypeOK'
    BY <2>1, <2>2 DEF TypeOK, SchedTypeOK, lifevars, schedvars
  <2>4. QueuedAlive' /\ NoTaskLost'
    BY <1>2, <2>1 DEF QueuedAlive, QueueOK, NoTaskLost, Live, lifevars,
                      schedvars, TypeOK, Ended
  <2> QED BY <1>1, <2>3, <2>4
<1>5. CASE Park(r)
  <2>1. /\ control' = "sched" /\ pc' = [pc EXCEPT ![r] = "parked"]
        /\ UNCHANGED <<taskrunqueue, taskrunning, ready, lifevars, taskcount,
                       tasknswitch, taskexitval, status, yield>>
    BY <1>5 DEF Park, taskswitch
  <2>2. TypeOK'
    BY <2>1 DEF TypeOK, SchedTypeOK, lifevars
  <2>3. QueuedAlive' /\ NoTaskLost'
    BY <1>2, <2>1 DEF QueuedAlive, QueueOK, NoTaskLost, Live, lifevars,
                      TypeOK, Ended
  <2> QED BY <1>1, <2>2, <2>3
<1>6. CASE NoMemory(r)
  <2>1. /\ control' = "aborted"
        /\ UNCHANGED <<taskrunqueue, taskrunning, ready, lifevars, taskcount,
                       tasknswitch, taskexitval, status, pc, yield>>
    BY <1>6 DEF NoMemory
  <2>2. TypeOK' /\ QueuedAlive' /\ NoTaskLost'
    BY <1>2, <2>1 DEF TypeOK, SchedTypeOK, QueuedAlive, QueueOK, NoTaskLost,
                      Live, lifevars, Ended
  <2> QED BY <1>1, <2>2
<1>7. CASE \E t \in Task : Wake(r, t)
  <2>1. PICK t \in Task : Wake(r, t)
    BY <1>7
  <2>2. /\ t \in Live /\ pc[t] = "parked" /\ t \notin ToSet(taskrunqueue)
        /\ t # r /\ pc' = [pc EXCEPT ![t] = "run"]
        /\ UNCHANGED <<taskrunning, control, lifevars, taskcount, tasknswitch,
                       taskexitval, status, yield>>
    BY <2>1 DEF Wake, QueuedAlive
  <2>3. /\ taskrunqueue' \in Seq(Task) /\ ready' \in [Task -> BOOLEAN]
        /\ ToSet(taskrunqueue') = ToSet(taskrunqueue) \cup {t}
        /\ IsInjective(taskrunqueue')
        /\ \A u \in ToSet(taskrunqueue') : ready'[u]
    BY <2>1, <2>2, ReadyFacts DEF Wake, QueuedAlive
  <2>4. TypeOK'
    BY <2>2, <2>3 DEF TypeOK, SchedTypeOK, lifevars
  <2>5. QueuedAlive' /\ NoTaskLost'
    BY <1>2, <2>2, <2>3 DEF QueuedAlive, QueueOK, NoTaskLost, Live, lifevars,
                            TypeOK, Ended
  <2> QED BY <1>1, <2>4, <2>5
<1>8. CASE \E val \in ExitVals : taskexit(r, val)
  <2>1. PICK val \in ExitVals : taskexit(r, val)
    BY <1>8
  <2>2. /\ taskexitval' = val /\ exiting' = [exiting EXCEPT ![r] = TRUE]
        /\ control' = "sched"
        /\ UNCHANGED <<taskrunqueue, taskrunning, ready, alltask, alltaskslot,
                       alltaskcap, system, taskcount, tasknswitch, status, pc,
                       yield>>
    BY <2>1 DEF taskexit, taskswitch
  <2>3. TypeOK'
    <3>1. exiting' \in [Task -> BOOLEAN]
      BY <2>2, Zenon DEF TypeOK
    <3> QED BY <2>2, <3>1 DEF TypeOK, SchedTypeOK
  <2>4. QueuedAlive' /\ NoTaskLost'
    BY <1>2, <2>2 DEF QueuedAlive, QueueOK, NoTaskLost, Live, TypeOK, Ended
  <2> QED BY <1>1, <2>3, <2>4
<1>9. CASE \E val \in ExitVals : taskexitall(r, val)
  <2>1. PICK val \in ExitVals : taskexitall(r, val)
    BY <1>9
  <2>2. TypeOK' /\ QueuedAlive' /\ NoTaskLost'
    BY <1>2, <2>1 DEF taskexitall, TypeOK, SchedTypeOK, QueuedAlive, QueueOK,
                      NoTaskLost, Live, lifevars, Ended
  <2> QED BY <1>1, <2>2
<1> QED BY <1>3, <1>4, <1>5, <1>6, <1>7, <1>8, <1>9

\* The scheduler's other steps: dispatching the head, or ending the process.
LEMMA SchedInv ==
  ASSUME Inv, schedrun \/ schedexit \/ schedstall
  PROVE  Inv'
<1> USE DEF Inv
<1>1. SlotsOK' /\ CapacityOK' /\ CountOK'
  <2>1. UNCHANGED <<alltask, alltaskslot, alltaskcap, system, taskcount>>
    BY DEF schedrun, schedexit, schedstall, lifevars
  <2> QED BY <2>1, TableUnchanged
<1>2. CASE schedrun
  <2>1. PICK t \in Task :
          /\ dispatch(t)
          /\ yield' = [u \in Task |->
                         IF pc[u] = "yield" /\ u # t
                         THEN [yield[u] EXCEPT !.ran = @ \cup {t}] ELSE yield[u]]
    BY <1>2 DEF schedrun
  <2>2. /\ control = "sched" /\ taskrunning = nil
        /\ control' = "task" /\ taskrunning' = t
        /\ tasknswitch' = (tasknswitch + 1) % NSWITCH
        /\ UNCHANGED <<lifevars, taskcount, taskexitval, status, pc>>
    BY <1>2, <2>1 DEF schedrun, dispatch
  <2>3. /\ taskrunqueue' \in Seq(Task) /\ ready' \in [Task -> BOOLEAN]
        /\ t \in ToSet(taskrunqueue)
        /\ ToSet(taskrunqueue') = ToSet(taskrunqueue) \ {t}
        /\ IsInjective(taskrunqueue')
        /\ \A u \in ToSet(taskrunqueue') : ready'[u]
    BY <2>1, DispatchFacts DEF QueuedAlive
  <2>4. TypeOK'
    <3>1. yield' \in [Task -> [n : 0 .. NSWITCH - 1, ahead : SUBSET Task,
                                ran : SUBSET Task]]
      <4> DEFINE Y == [n : 0 .. NSWITCH - 1, ahead : SUBSET Task, ran : SUBSET Task]
      <4>1. \A y \in Y : [y EXCEPT !.ran = @ \cup {t}] \in Y
        OBVIOUS
      <4>2. yield \in [Task -> Y]
        BY DEF TypeOK
      <4> HIDE DEF Y
      <4>3. yield' \in [Task -> Y]
        BY <2>1, <4>1, <4>2
      <4> QED BY <4>3 DEF Y
    <3>2. tasknswitch' \in 0 .. NSWITCH - 1
      BY <2>2, LifeAssumption DEF TypeOK
    <3> QED BY <2>2, <2>3, <3>1, <3>2 DEF TypeOK, SchedTypeOK, lifevars
  <2>5. QueuedAlive' /\ NoTaskLost'
    <3>1. t \in Live /\ nil \notin Live /\ \A u \in Live : ~exiting[u]
      BY <2>2, <2>3, UsersFinite, TaskAssumption DEF QueuedAlive
    <3> QED BY <2>2, <2>3, <3>1
               DEF QueuedAlive, QueueOK, NoTaskLost, Live, lifevars, Ended
  <2> QED BY <1>1, <2>4, <2>5
<1>3. CASE schedexit \/ schedstall
  <2>1. /\ control = "sched" /\ taskrunning = nil /\ control' = "exited"
        /\ status' \in ExitVals
        /\ UNCHANGED <<taskrunqueue, taskrunning, ready, lifevars, taskcount,
                       tasknswitch, taskexitval, pc, yield>>
    BY <1>3, LifeAssumption DEF schedexit, schedstall, TypeOK
  <2>2. TypeOK' /\ QueuedAlive' /\ NoTaskLost'
    <3>1. \A t \in Live : ~exiting[t]
      BY <2>1, UsersFinite, TaskAssumption DEF QueuedAlive
    <3> QED BY <2>1, <3>1 DEF TypeOK, SchedTypeOK, QueuedAlive, QueueOK,
                              NoTaskLost, Live, lifevars, Ended
  <2> QED BY <1>1, <2>2
<1> QED BY <1>2, <1>3

\* Every step keeps the invariant.
LEMMA NextInv == Inv /\ [Next]_vars => Inv'
<1> SUFFICES ASSUME Inv, [Next]_vars PROVE Inv'
  OBVIOUS
<1>1. CASE taskscheduler
  BY <1>1, ReturnInv, SchedInv DEF taskscheduler
<1>2. CASE \E r \in Task : Client(r)
  <2>1. PICK r \in Task : Client(r)
    BY <1>2
  <2>2. CASE \E t \in Task : taskcreate(r, t)
    BY <2>2, CreateInv
  <2>3. CASE tasksystem(r)
    BY <2>3, SystemInv
  <2>4. CASE ~(tasksystem(r) \/ \E t \in Task : taskcreate(r, t))
    BY <2>1, <2>4, ClientInv DEF Client
  <2> QED BY <2>2, <2>3, <2>4
<1>3. CASE Terminated \/ UNCHANGED vars
  <2>1. UNCHANGED vars
    BY <1>3 DEF Terminated
  <2> QED BY <2>1 DEF vars, schedvars, lifevars, Inv, TypeOK, SchedTypeOK,
                      SlotsOK, CapacityOK, CountOK, Users, QueuedAlive, QueueOK,
                      NoTaskLost, Live, Ended
<1> QED BY <1>1, <1>2, <1>3 DEF Next

\* Task.tla's table, counts and queue agree in every reachable state: the
\* conjunction from which the theorems below are read off.
THEOREM Invariance == Spec => []Inv
<1>1. Init => Inv
  BY InitInv
<1>2. Inv /\ [Next]_vars => Inv'
  BY NextInv
<1> QED BY <1>1, <1>2, PTL DEF Spec

\* The variables always have their types: in particular no slot and no
\* table length ever goes negative in the scheduler's removal.
THEOREM TypeCorrect == Spec => []TypeOK
  BY Invariance, PTL DEF Inv

\* alltask[] and alltaskslot agree for any number of tasks.
THEOREM SlotsCorrect == Spec => []SlotsOK
  BY Invariance, PTL DEF Inv

\* taskcreate never stores an entry behind the block that realloc returned,
\* for any number of tasks, any CHUNK and any order of creations and exits.
THEOREM CapacityCorrect == Spec => []CapacityOK
  BY Invariance, PTL DEF Inv

\* taskcount is exactly the number of user tasks that exist.
THEOREM CountCorrect == Spec => []CountOK
  BY Invariance, PTL DEF Inv

\* The run queue holds each task at most once, and only tasks that exist and
\* are not exiting.
THEOREM QueueCorrect == Spec => []QueuedAlive
  BY Invariance, PTL DEF Inv

\* A task that exists is always queued, parked, running or about to be freed.
THEOREM NoneLost == Spec => []NoTaskLost
  BY Invariance, PTL DEF Inv

\* taskscheduler ends the process under a user task only when every task is
\* parked, and then with status 1.
THEOREM EndCorrect == Spec => EndsOnlyWhenDone
<1> DEFINE A == control = "sched" /\ control' = "exited" /\ Users # {} =>
                  status' = 1 /\ \A t \in Live : pc[t] = "parked"
<1>1. Inv /\ [Next]_vars => [A]_vars
  <2> SUFFICES ASSUME Inv, Next, control = "sched", control' = "exited",
                      Users # {}
               PROVE  status' = 1 /\ \A t \in Live : pc[t] = "parked"
    OBVIOUS
  <2>1. ~schedexit
    <3>1. IsFiniteSet(Users)
      BY UsersFinite DEF Inv
    <3>2. Cardinality(Users) # 0
      BY <3>1, FS_EmptySet
    <3> QED BY <3>2 DEF Inv, CountOK, schedexit
  <2>2. schedstall
    BY <2>1 DEF Next, taskscheduler, schedreturn, schedrun, dispatch, Client,
                Running, taskcreate, Wake, NoMemory, tasksystem, taskyield,
                taskyieldreturn, taskexit, taskexitall, Park, Terminated, Ended
  <2>3. ToSet(taskrunqueue) = {}
    BY <2>2 DEF schedstall, ToSet
  <2>4. \A t \in Live : pc[t] = "parked"
    <3>1. taskrunning = nil /\ Live \subseteq Task
      BY <2>2, UsersFinite DEF schedstall, Inv
    <3> QED BY <2>3, <3>1, TaskAssumption DEF Inv, NoTaskLost, Ended
  <2> QED BY <2>2, <2>4 DEF schedstall
<1> QED BY <1>1, Invariance, PTL DEF Spec, EndsOnlyWhenDone

-----------------------------------------------------------------------------
(***************************************************************************)
(* taskyield's count.                                                      *)
(***************************************************************************)

\* What taskyield counts on while it waits.  Of the tasks that were ready at
\* the call, the ones that have not run are in front of the caller (the queue
\* is first in, first out), tasknswitch has counted the others, and who runs
\* in the meantime is one of them: so nobody was added behind a caller that
\* nobody has overtaken.
Waiting(t) ==
  /\ t \in ToSet(taskrunqueue) \/ Running(t)
  /\ control = "task" /\ taskrunning # t => taskrunning \in yield[t].ran
  /\ t \in ToSet(taskrunqueue) =>
       /\ yield[t].ran \cup Before(taskrunqueue, t) = yield[t].ahead
       /\ yield[t].ran \cap Before(taskrunqueue, t) = {}
       /\ (tasknswitch - yield[t].n) % NSWITCH = Cardinality(yield[t].ran)
       /\ control = "sched" /\ yield[t].ran = {} => taskrunqueue[Len(taskrunqueue)] = t

YieldOK == YieldExact /\ \A t \in Task : pc[t] = "yield" => Waiting(t)

\* A dispatch in a counter of width NSWITCH.
LEMMA SwitchCount ==
  ASSUME NEW s \in 0 .. NSWITCH - 1, NEW n \in 0 .. NSWITCH - 1, NEW k \in Nat,
         (s - n) % NSWITCH = k
  PROVE  /\ (((s + 1) % NSWITCH) - n - 1) % NSWITCH = k
         /\ k + 1 < NSWITCH => (((s + 1) % NSWITCH) - n) % NSWITCH = k + 1
<1> DEFINE N == NSWITCH
           s1 == (s + 1) % N
<1>1. N \in Nat /\ N > 0
  BY LifeAssumption
<1>2. s1 = IF s + 1 = N THEN 0 ELSE s + 1
  BY <1>1
<1>3. k = IF s >= n THEN s - n ELSE s - n + N
  BY <1>1
<1> HIDE DEF N, s1
<1>4. s \in 0 .. N - 1 /\ n \in 0 .. N - 1
  BY DEF N
<1>5. (s1 - n - 1) % N = k
  BY <1>1, <1>2, <1>3, <1>4
<1>6. k + 1 < N => (s1 - n) % N = k + 1
  BY <1>1, <1>2, <1>3, <1>4
<1> QED BY <1>5, <1>6 DEF N, s1

\* The types behind Waiting.
LEMMA YieldTypes ==
  ASSUME Inv, NEW u \in Task
  PROVE  /\ taskrunqueue \in Seq(Task) /\ IsInjective(taskrunqueue)
         /\ ToSet(taskrunqueue) \subseteq Task
         /\ yield[u].n \in 0 .. NSWITCH - 1 /\ tasknswitch \in 0 .. NSWITCH - 1
         /\ yield[u].ran \subseteq Task /\ IsFiniteSet(yield[u].ran)
         /\ Cardinality(yield[u].ran) \in Nat
<1>1. /\ taskrunqueue \in Seq(Task) /\ IsInjective(taskrunqueue)
      /\ yield[u] \in [n : 0 .. NSWITCH - 1, ahead : SUBSET Task, ran : SUBSET Task]
      /\ tasknswitch \in 0 .. NSWITCH - 1
  BY DEF Inv, TypeOK, SchedTypeOK, QueuedAlive, QueueOK
<1>2. ToSet(taskrunqueue) \subseteq Task
  BY <1>1, ToSetFacts
<1>3. /\ yield[u].n \in 0 .. NSWITCH - 1 /\ yield[u].ran \subseteq Task
  BY <1>1
<1>4. IsFiniteSet(yield[u].ran)
  BY <1>3, TaskAssumption, FS_Subset
<1>5. Cardinality(yield[u].ran) \in Nat
  BY <1>4, FS_CardinalityType
<1> QED BY <1>1, <1>2, <1>3, <1>4, <1>5

\* A call of the running task r changes nothing for a task in taskyield, even
\* if it makes another task x ready.
LEMMA CallWaits ==
  ASSUME Inv, YieldOK, NEW r \in Task, Running(r), pc[r] = "run",
         UNCHANGED <<taskrunning, tasknswitch>>,
         \/ taskrunqueue' = taskrunqueue
         \/ \E x \in Task \ ToSet(taskrunqueue) : taskrunqueue' = addtask(taskrunqueue, x),
         NEW u \in Task, pc[u] = "yield", yield'[u] = yield[u]
  PROVE  Waiting(u)'
<1>1. /\ u # r /\ Waiting(u) /\ control = "task" /\ taskrunning = r
      /\ u \in ToSet(taskrunqueue) /\ r \in yield[u].ran
  BY DEF YieldOK, Waiting, Running
<1>2. taskrunqueue \in Seq(Task)
  BY YieldTypes
<1>3. u \in ToSet(taskrunqueue') /\ Before(taskrunqueue', u) = Before(taskrunqueue, u)
  <2>1. CASE taskrunqueue' = taskrunqueue
    BY <1>1, <2>1
  <2>2. ASSUME NEW x \in Task \ ToSet(taskrunqueue), taskrunqueue' = addtask(taskrunqueue, x)
        PROVE u \in ToSet(taskrunqueue') /\ Before(taskrunqueue', u) = Before(taskrunqueue, u)
    <3>1. Before(addtask(taskrunqueue, x), u) = Before(taskrunqueue, u)
      BY <1>1, <1>2, <2>2, BeforeAdd
    <3>2. x \in Task
      OBVIOUS
    <3>3. ToSet(addtask(taskrunqueue, x)) = ToSet(taskrunqueue) \cup {x}
      BY <1>2, <3>2, AddTaskFacts
    <3> QED BY <1>1, <2>2, <3>1, <3>3
  <2> QED BY <2>1, <2>2
<1> QED BY <1>1, <1>3 DEF Waiting

\* taskyield itself: the caller is behind all who are ready.
LEMMA YieldWaits ==
  ASSUME Inv, YieldOK, NEW r \in Task, taskyield(r)
  PROVE  YieldOK'
<1>1. /\ Running(r) /\ pc[r] = "run" /\ control' = "sched"
      /\ taskrunqueue' = addtask(taskrunqueue, r) /\ r \notin ToSet(taskrunqueue)
      /\ UNCHANGED <<taskrunning, tasknswitch>>
      /\ pc' = [pc EXCEPT ![r] = "yield"]
      /\ yield' = [yield EXCEPT ![r] =
                    [n |-> tasknswitch, ahead |-> ToSet(taskrunqueue), ran |-> {}]]
  BY DEF taskyield, taskready, taskswitch, Inv, QueuedAlive, QueueOK, Running
<1>2. pc \in [Task -> {"run", "yield", "parked"}] /\ DOMAIN yield = Task
  BY DEF Inv, TypeOK
<1>3. Waiting(r)'
  <2>1. taskrunqueue \in Seq(Task) /\ tasknswitch \in 0 .. NSWITCH - 1
    BY YieldTypes
  <2>2. /\ yield'[r].n = tasknswitch /\ yield'[r].ran = {}
        /\ yield'[r].ahead = ToSet(taskrunqueue)
    BY <1>1, <1>2
  <2>3. /\ Before(taskrunqueue', r) = ToSet(taskrunqueue)
        /\ taskrunqueue'[Len(taskrunqueue')] = r
    BY <1>1, <2>1, BeforeAdd
  <2>4. r \in ToSet(taskrunqueue')
    <3>1. ToSet(addtask(taskrunqueue, r)) = ToSet(taskrunqueue) \cup {r}
      BY <2>1, AddTaskFacts
    <3> QED BY <1>1, <3>1
  <2>5. (tasknswitch' - yield'[r].n) % NSWITCH = Cardinality(yield'[r].ran)
    <3>1. tasknswitch - tasknswitch = 0 /\ 0 % NSWITCH = 0
      BY <2>1, LifeAssumption
    <3> QED BY <1>1, <2>2, <3>1, FS_EmptySet
  <2> QED BY <1>1, <2>2, <2>3, <2>4, <2>5 DEF Waiting
<1>4. ASSUME NEW u \in Task, pc'[u] = "yield", u # r PROVE Waiting(u)'
  <2>1. pc[u] = "yield" /\ yield'[u] = yield[u]
    BY <1>1, <1>2, <1>4
  <2> QED BY <1>1, <2>1, CallWaits
<1>5. YieldExact'
  BY <1>1 DEF YieldExact, Running
<1> QED BY <1>3, <1>4, <1>5 DEF YieldOK

\* The other calls.
LEMMA ClientWaits ==
  ASSUME Inv, YieldOK, NEW r \in Task, Client(r)
  PROVE  YieldOK'
<1>1. pc \in [Task -> {"run", "yield", "parked"}]
  BY DEF Inv, TypeOK
<1>2. CASE taskyield(r)
  BY <1>2, YieldWaits
<1>3. CASE taskyieldreturn(r)
  <2>1. /\ UNCHANGED <<taskrunqueue, taskrunning, control, tasknswitch>> /\ Running(r)
        /\ pc' = [pc EXCEPT ![r] = "run"]
        /\ yield' = [yield EXCEPT ![r] = NoYield] /\ DOMAIN yield = Task
    BY <1>3 DEF taskyieldreturn, schedvars, Inv, TypeOK
  <2>2. \A u \in Task : pc'[u] = "yield" =>
          u # r /\ pc[u] = "yield" /\ yield'[u] = yield[u] /\ Waiting(u)
    BY <1>1, <2>1 DEF YieldOK
  <2>3. \A u \in Task : pc'[u] = "yield" => Waiting(u)'
    BY <2>1, <2>2 DEF Waiting, Running
  <2>4. YieldExact'
    BY <2>1, <2>2 DEF YieldExact, Running
  <2> QED BY <2>3, <2>4 DEF YieldOK
<1>4. CASE ~taskyield(r) /\ ~taskyieldreturn(r)
  <2>1. /\ Running(r) /\ pc[r] = "run"
        /\ UNCHANGED <<taskrunning, tasknswitch, yield>>
        /\ \A u \in Task : pc'[u] = "yield" => pc[u] = "yield"
    BY <1>1, <1>4 DEF Client, taskcreate, taskalloc, Wake, NoMemory, tasksystem, taskexit,
                      taskexitall, Park, schedvars
  <2>2. \/ taskrunqueue' = taskrunqueue
        \/ \E x \in Task \ ToSet(taskrunqueue) : taskrunqueue' = addtask(taskrunqueue, x)
    BY <1>4 DEF Client, taskcreate, taskalloc, taskready, Wake, NoMemory, tasksystem,
                taskexit, taskexitall, Park, schedvars, Inv, QueuedAlive
  <2>3. \A u \in Task : pc'[u] = "yield" => Waiting(u)'
    BY <2>1, <2>2, CallWaits
  <2>4. YieldExact'
    BY <2>1 DEF YieldExact, Running
  <2> QED BY <2>3, <2>4 DEF YieldOK
<1> QED BY <1>2, <1>3, <1>4

\* A dispatch: the head of the queue was in front of everybody else.
LEMMA RunWaits ==
  ASSUME Inv, YieldOK, schedrun
  PROVE  YieldOK'
<1>1. PICK t \in Task :
        /\ dispatch(t)
        /\ yield' = [u \in Task |->
                       IF pc[u] = "yield" /\ u # t
                       THEN [yield[u] EXCEPT !.ran = @ \cup {t}] ELSE yield[u]]
  BY DEF schedrun
<1>2. /\ control = "sched" /\ control' = "task" /\ taskrunning' = t /\ pc' = pc
      /\ tasknswitch' = (tasknswitch + 1) % NSWITCH
      /\ taskrunqueue # <<>> /\ t = Head(taskrunqueue)
      /\ taskrunqueue' = deltask(taskrunqueue, t)
  BY <1>1 DEF schedrun, dispatch
<1>3. /\ taskrunqueue \in Seq(Task) /\ IsInjective(taskrunqueue)
      /\ tasknswitch \in 0 .. NSWITCH - 1
  BY YieldTypes
<1>4. /\ taskrunqueue' = Tail(taskrunqueue) /\ t \in ToSet(taskrunqueue)
      /\ ToSet(taskrunqueue') = ToSet(taskrunqueue) \ {t}
  BY <1>2, <1>3, DelHeadFacts
<1>5. \A u \in Task : pc[u] = "yield" =>
        /\ u \in ToSet(taskrunqueue)
        /\ yield[u].ran \cup Before(taskrunqueue, u) = yield[u].ahead
        /\ yield[u].ran \cap Before(taskrunqueue, u) = {}
        /\ (tasknswitch - yield[u].n) % NSWITCH = Cardinality(yield[u].ran)
        /\ yield[u].ran = {} => taskrunqueue[Len(taskrunqueue)] = u
  BY <1>2 DEF YieldOK, Waiting, Running
<1>6. ASSUME pc[t] = "yield"
      PROVE  /\ yieldvalue(t)' = Cardinality(yield[t].ran) /\ yield'[t] = yield[t]
             /\ yield[t].ran = yield[t].ahead
             /\ yieldvalue(t)' = 0 => taskrunqueue' = <<>>
  <2> DEFINE k == Cardinality(yield[t].ran)
             n == yield[t].n
             s == tasknswitch
  <2>1. yield'[t] = yield[t]
    BY <1>1
  <2>2. Before(taskrunqueue, t) = {} /\ (taskrunqueue[Len(taskrunqueue)] = t => taskrunqueue' = <<>>)
    BY <1>2, <1>3, <1>4, BeforeTail
  <2>3. n \in 0 .. NSWITCH - 1 /\ k \in Nat /\ s \in 0 .. NSWITCH - 1 /\ (s - n) % NSWITCH = k
    BY <1>3, <1>5, <1>6, YieldTypes
  <2>4. yieldvalue(t)' = (((s + 1) % NSWITCH) - n - 1) % NSWITCH
    BY <1>2, <2>1 DEF yieldvalue
  <2>5. k = 0 => yield[t].ran = {}
    BY YieldTypes, FS_EmptySet
  <2> HIDE DEF s, n, k
  <2>6. (((s + 1) % NSWITCH) - n - 1) % NSWITCH = k
    BY <2>3, SwitchCount
  <2>7. yieldvalue(t)' = k
    BY <2>4, <2>6
  <2> QED BY <1>5, <1>6, <2>1, <2>2, <2>5, <2>7 DEF k
<1>7. ASSUME NEW u \in Task, pc[u] = "yield", u # t PROVE Waiting(u)'
  <2> DEFINE R == yield[u].ran
             k == Cardinality(R)
             n == yield[u].n
             s == tasknswitch
  <2>1. /\ yield'[u].ran = R \cup {t} /\ yield'[u].n = n /\ yield'[u].ahead = yield[u].ahead
    <3>1. yield[u] \in [n : 0 .. NSWITCH - 1, ahead : SUBSET Task, ran : SUBSET Task]
      BY DEF Inv, TypeOK
    <3>2. yield'[u] = [yield[u] EXCEPT !.ran = @ \cup {t}]
      BY <1>1, <1>7
    <3> QED BY <3>1, <3>2
  <2>2. u \in ToSet(taskrunqueue') /\ u \in ToSet(taskrunqueue)
    BY <1>4, <1>5, <1>7
  <2>3. /\ t \in Before(taskrunqueue, u)
        /\ Before(taskrunqueue', u) = Before(taskrunqueue, u) \ {t}
    BY <1>2, <1>3, <1>4, <1>7, <2>2, BeforeTail
  <2>4. /\ yield'[u].ran \cup Before(taskrunqueue', u) = yield'[u].ahead
        /\ yield'[u].ran \cap Before(taskrunqueue', u) = {} /\ t \notin R
    BY <1>5, <1>7, <2>1, <2>3
  <2>5. /\ n \in 0 .. NSWITCH - 1 /\ k \in Nat /\ s \in 0 .. NSWITCH - 1
        /\ (s - n) % NSWITCH = k /\ IsFiniteSet(R) /\ R \subseteq Task
    BY <1>3, <1>5, <1>7, YieldTypes
  <2>6. Cardinality(R \cup {t}) = k + 1 /\ k + 1 < NSWITCH
    <3>1. Cardinality(R \cup {t}) = k + 1
      BY <2>4, <2>5, FS_AddElement
    <3>2. R \cup {t} \in SUBSET Task
      BY <2>5
    <3>3. /\ Cardinality(R \cup {t}) <= Cardinality(Task)
          /\ Cardinality(Task) \in Nat
      BY <3>2, TaskAssumption, FS_Subset, FS_CardinalityType
    <3> QED BY <2>5, <3>1, <3>3, LifeAssumption
  <2> HIDE DEF s, n, k, R
  <2>7. (((s + 1) % NSWITCH) - n) % NSWITCH = k + 1
    BY <2>5, <2>6, SwitchCount
  <2>8. (tasknswitch' - yield'[u].n) % NSWITCH = Cardinality(yield'[u].ran)
    BY <1>2, <2>1, <2>6, <2>7 DEF s
  <2> QED BY <1>2, <2>1, <2>2, <2>4, <2>8 DEF Waiting
<1>8. pc[t] = "yield" => Waiting(t)'
  BY <1>2, <1>4 DEF Waiting, Running
<1>9. YieldExact'
  BY <1>2, <1>6 DEF YieldExact, Running
<1> QED BY <1>2, <1>7, <1>8, <1>9 DEF YieldOK

LEMMA NextWaits == Inv /\ YieldOK /\ [Next]_vars => YieldOK'
<1> SUFFICES ASSUME Inv, YieldOK, [Next]_vars PROVE YieldOK'
  OBVIOUS
<1>1. CASE \E r \in Task : Client(r)
  BY <1>1, ClientWaits
<1>2. CASE schedrun
  BY <1>2, RunWaits
<1>3. CASE schedreturn \/ schedexit \/ schedstall
  <2>1. /\ control = "sched" /\ control' \in {"sched", "exited"}
        /\ UNCHANGED <<taskrunqueue, tasknswitch, pc, yield>>
    BY <1>3 DEF schedreturn, schedexit, schedstall
  <2>2. \A u \in Task : pc[u] = "yield" => Waiting(u)'
    BY <2>1 DEF YieldOK, Waiting, Running
  <2>3. YieldExact'
    BY <2>1 DEF YieldExact, Running
  <2> QED BY <2>1, <2>2, <2>3 DEF YieldOK
<1>4. CASE Terminated \/ UNCHANGED vars
  <2>1. UNCHANGED <<taskrunqueue, taskrunning, control, tasknswitch, pc, yield>>
    BY <1>4 DEF Terminated, vars, schedvars
  <2> QED BY <2>1 DEF YieldOK, YieldExact, Waiting, Running, yieldvalue
<1> QED BY <1>1, <1>2, <1>3, <1>4 DEF Next, taskscheduler

\* taskyield returns the number of the tasks that ran, these are exactly the
\* tasks that were ready at the call, and 0 means that nobody is ready: for any
\* number of tasks below the width of tasknswitch, over any number of its
\* overflows.
THEOREM YieldCorrect == Spec => []YieldExact
<1>1. Init => YieldOK
  BY DEF Init, YieldOK, YieldExact
<1>2. Inv /\ YieldOK /\ [Next]_vars => YieldOK'
  BY NextWaits
<1>3. YieldOK => YieldExact
  BY DEF YieldOK
<1> QED BY <1>1, <1>2, <1>3, Invariance, PTL DEF Spec

=============================================================================
