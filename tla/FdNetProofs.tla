----------------------------- MODULE FdNetProofs ------------------------------
(***************************************************************************)
(* The safety of fd.c for any clients, descriptors, delays and limits, and *)
(* on top of it that of net.c: what parseip makes of a name, whatever is   *)
(* in the uninitialised addr[], and the life of the descriptors that       *)
(* netannounce, netaccept and netdial open.                                *)
(***************************************************************************)
EXTENDS Net, SchedProofs, WellFoundedInduction

-----------------------------------------------------------------------------
(***************************************************************************)
(* fd.c.                                                                   *)
(***************************************************************************)


\* The I/O calls, those of net.c included.
Ios == [fd : Fd \cup {nil}, rw : {"r", "w", "e", nil},
        call : Calls \cup {nil, "netaccept", "netdial"}, left : 0 .. 2]

FdTypeOK ==
  /\ SchedTypeOK
  /\ startedfdtask \in BOOLEAN
  /\ sleeping \in Seq(Client)
  /\ sleepingcounted \in 0 .. Cardinality(Client)
  /\ alarmtime \in [Task -> 0 .. MaxNow]
  /\ taskcount \in 0 .. Cardinality(Task) + 1
  /\ system \in SUBSET Task /\ gone \in SUBSET Client
  /\ pc \in [Task -> {"run", "io", "fdwait", "delay", "start", "yield", "poll"}]
  /\ \A t \in Client : pc[t] \in {"run", "io", "fdwait", "delay"}
  /\ pc[fdt] \in {"start", "yield", "poll"}
  /\ io \in [Task -> Ios]
  /\ \A t \in Client : pc[t] \in {"io", "fdwait"} => io[t].fd \in Fd
  /\ ran \in 0 .. Cardinality(Client)
  /\ timeout \in Nat \cup {nil}
  /\ reg \in [Fd -> Registration \cup {nil}]
  /\ avail \in [Fd -> SUBSET {"in", "out", "hup"}]
  /\ now \in 0 .. MaxNow

\* Task t is neither queued nor running.
Off(t) == t \notin ToSet(taskrunqueue) /\ ~Running(t)

\* The list l is in the order of a.
Sorted(l, a) == \A i, j \in DOMAIN l : i < j => a[l[i]] <= a[l[j]]

\* The list of sleepers is sorted, its tasks are inside taskdelay, and a task
\* that has left it while still inside was due.
SleepOK ==
  /\ IsInjective(sleeping)
  /\ Sorted(sleeping, alarmtime)
  /\ \A t \in ToSet(sleeping) : pc[t] = "delay" /\ Off(t)
  /\ \A t \in Client : pc[t] = "delay" /\ t \notin ToSet(sleeping) => now >= alarmtime[t]

\* Who has exited is nowhere; who has not can be found.
LifeOK ==
  /\ \A t \in gone : pc[t] = "run" /\ Off(t)
  /\ control = "task" => taskrunning \in Task
  /\ ~Ended => \A t \in Client \ gone :
       Off(t) => t \in ToSet(sleeping) \/ pc[t] = "fdwait"

\* The call of task t has put its descriptor into the epoll set.
Registers(t) == pc[t] = "fdwait" /\ addedmask(io[t].rw) # {}

\* The epoll set is what the tasks inside fdwait have put there.
RegOK ==
  ~Ended =>
    /\ \A f \in Fd : reg[f] # nil => Registers(reg[f].ptr) /\ io[reg[f].ptr].fd = f
    /\ \A t \in Client : Registers(t) =>
         io[t].fd \in Fd /\ reg[io[t].fd] # nil /\ reg[io[t].fd].ptr = t

\* fdtask exists from the first wait on.
StartOK ==
  /\ ~startedfdtask => /\ Off(fdt) /\ pc[fdt] = "start" /\ sleeping = <<>>
                       /\ \A t \in Client : pc[t] \in {"run", "io"}
  /\ startedfdtask /\ ~Ended => ~Off(fdt)
  /\ fdt \in system <=> pc[fdt] # "start"

\* fdtask's taskyield counts the tasks in front of it; nobody is added behind
\* it before one of them has run.
YieldOK ==
  pc[fdt] = "yield" =>
    /\ fdt \in ToSet(taskrunqueue) =>
         /\ ran + Cardinality(Before(taskrunqueue, fdt)) <= Cardinality(Client)
         /\ control = "task" => ran > 0
         /\ control = "sched" /\ ran = 0 => taskrunqueue[Len(taskrunqueue)] = fdt
    /\ Running(fdt) /\ ran = 0 => taskrunqueue = <<>>

\* While fdtask is in epoll_wait, nobody can run, and the wait is over when the
\* first sleeper is due.
PollOK ==
  pc[fdt] = "poll" =>
    /\ taskrunqueue = <<>> /\ taskrunning = fdt /\ control # "sched"
    /\ sleeping # <<>> => /\ timeout \in Nat
                          /\ timeout <= alarmtime[Head(sleeping)] \/ timeout <= now

Counts ==
  ~Ended =>
    /\ sleepingcounted = Cardinality(ToSet(sleeping) \ system)
    /\ taskcount = Cardinality(Users) + (IF sleepingcounted > 0 THEN 1 ELSE 0)

\* The inductive invariant.  Every part but the first names something that
\* another needs: the poll is harmless because fdtask's taskyield counts right
\* (YieldOK) and the list is sorted (SleepOK); the tasks an event readies can
\* be readied because of RegOK and LifeOK; ending is right because of Counts
\* and, when the queue is empty, StartOK.
Inv ==
  /\ FdTypeOK /\ QueueOK /\ SleepOK /\ LifeOK /\ RegOK /\ StartOK /\ YieldOK /\ PollOK /\ Counts

-----------------------------------------------------------------------------
(***************************************************************************)
(* Facts about sorted lists.                                               *)
(***************************************************************************)

\* The least member of a set of natural numbers.
LEMMA MinFacts ==
  ASSUME NEW T \in SUBSET Nat, T # {}
  PROVE  Min(T) \in T /\ \A y \in T : Min(T) <= y
<1> DEFINE R == OpToRel(<, Nat)
<1>1. IsWellFoundedOn(R, Nat)
  BY NatLessThanWellFounded
<1>2. \A x, y \in Nat : y < x => <<y, x>> \in R
  BY DEF OpToRel
<1> HIDE DEF R
<1>3. PICK x \in T : \A y \in T : ~(<<y, x>> \in R)
  BY <1>1, WFMin
<1>4. ASSUME NEW y \in T PROVE x <= y
  <2>1. x \in Nat /\ y \in Nat
    OBVIOUS
  <2>2. ~(y < x)
    BY <1>2, <1>3, <2>1
  <2> QED BY <2>1, <2>2
<1> QED BY <1>4 DEF Min

\* The sleeper t goes to its place: everybody in front is due before it, nobody
\* behind it is.
LEMMA DelayPlace ==
  ASSUME NEW S, NEW l \in Seq(S), NEW t \in S, NEW a, \A x \in S : a[x] \in Nat, Sorted(l, a)
  PROVE  \E p \in 1 .. Len(l) + 1 :
           /\ delaytask(l, t, a) \in Seq(S)
           /\ Len(delaytask(l, t, a)) = Len(l) + 1
           /\ \A i \in 1 .. p - 1 : delaytask(l, t, a)[i] = l[i] /\ a[l[i]] < a[t]
           /\ delaytask(l, t, a)[p] = t
           /\ \A i \in p + 1 .. Len(l) + 1 :
                delaytask(l, t, a)[i] = l[i - 1] /\ a[l[i - 1]] >= a[t]
<1> DEFINE later == { i \in 1 .. Len(l) : a[l[i]] >= a[t] }
           p == IF later = {} THEN Len(l) + 1 ELSE Min(later)
           n == p - 1
           d == SubSeq(l, 1, n)
           e == SubSeq(l, n + 1, Len(l))
<1>1. /\ Len(l) \in Nat /\ DOMAIN l = 1 .. Len(l)
      /\ \A i \in 1 .. Len(l) : l[i] \in S /\ a[l[i]] \in Nat
      /\ a[t] \in Nat
  BY LenProperties
<1>2. later \in SUBSET Nat
  BY <1>1
<1>3. later # {} => Min(later) \in later /\ \A y \in later : Min(later) <= y
  <2> HIDE DEF later
  <2> QED BY <1>2, MinFacts
<1>4. /\ p \in 1 .. Len(l) + 1
      /\ \A i \in 1 .. p - 1 : a[l[i]] < a[t]
      /\ \A i \in p .. Len(l) : a[l[i]] >= a[t]
  <2>1. CASE later = {}
    BY <1>1, <2>1
  <2>2. CASE later # {}
    <3> DEFINE m == Min(later)
    <3>1. m \in 1 .. Len(l) /\ a[l[m]] >= a[t] /\ \A y \in later : m <= y
      BY <1>3, <2>2
    <3>2. p = m
      BY <2>2
    <3> HIDE DEF m, p
    <3>3. ASSUME NEW i \in 1 .. m - 1 PROVE a[l[i]] < a[t]
      <4>1. i \in 1 .. Len(l) /\ ~(m <= i)
        BY <1>1, <3>1
      <4>2. i \notin later
        BY <3>1, <4>1
      <4> QED BY <1>1, <4>1, <4>2
    <3>4. ASSUME NEW i \in m .. Len(l) PROVE a[l[i]] >= a[t]
      <4>1. i \in 1 .. Len(l) /\ (i = m \/ m < i)
        BY <1>1, <3>1
      <4>2. a[l[m]] <= a[l[i]]
        BY <1>1, <3>1, <4>1 DEF Sorted
      <4> QED BY <1>1, <3>1, <4>1, <4>2
    <3> QED BY <1>1, <3>1, <3>2, <3>3, <3>4
  <2> QED BY <2>1, <2>2
<1>5. delaytask(l, t, a) = (d \o <<t>>) \o e
  <2>1. n + 1 = p
    BY <1>1, <1>4
  <2>2. delaytask(l, t, a) = InsertAt(l, p, t)
    BY DEF delaytask
  <2> HIDE DEF p
  <2> QED BY <2>1, <2>2 DEF InsertAt
<1> HIDE DEF p
<1>6. n \in 0 .. Len(l) /\ p = n + 1
  BY <1>1, <1>4
<1> HIDE DEF n
<1>7. /\ d \in Seq(S) /\ e \in Seq(S)
      /\ Len(d) = n /\ \A i \in 1 .. n : d[i] = l[i]
      /\ Len(e) = Len(l) - n /\ \A i \in 1 .. Len(l) - n : e[i] = l[n + i]
  BY <1>6, CutFacts
<1> HIDE DEF d, e
<1>8. <<t>> \in Seq(S) /\ Len(<<t>>) = 1 /\ <<t>>[1] = t
  OBVIOUS
<1>9. /\ d \o <<t>> \in Seq(S) /\ Len(d \o <<t>>) = n + 1
      /\ \A i \in 1 .. n + 1 : (d \o <<t>>)[i] = IF i <= n THEN l[i] ELSE t
  BY <1>6, <1>7, <1>8, ConcatProperties
<1> DEFINE c == d \o <<t>>
           w == c \o e
<1>10. c \in Seq(S) /\ Len(c) = n + 1
  BY <1>9
<1>11. \A i \in 1 .. n + 1 : c[i] = IF i <= n THEN l[i] ELSE t
  BY <1>9
<1>12. delaytask(l, t, a) = w
  BY <1>5
<1> HIDE DEF c
<1>13. /\ w \in Seq(S) /\ Len(w) = Len(c) + Len(e)
       /\ \A i \in 1 .. Len(c) + Len(e) : w[i] = IF i <= Len(c) THEN c[i] ELSE e[i - Len(c)]
  <2>1. c \in Seq(S) /\ e \in Seq(S)
    BY <1>7, <1>10
  <2> QED BY <2>1, ConcatProperties
<1> HIDE DEF w, later
<1>14. /\ Len(w) = Len(l) + 1
        /\ \A i \in 1 .. Len(l) + 1 : w[i] = IF i <= n + 1 THEN c[i] ELSE e[i - (n + 1)]
  <2>1. Len(c) + Len(e) = Len(l) + 1
    BY <1>1, <1>6, <1>7, <1>10
  <2> QED BY <1>10, <1>13, <2>1
<1>15. ASSUME NEW i \in 1 .. p - 1 PROVE w[i] = l[i]
  <2>1. i \in 1 .. Len(l) + 1 /\ i <= n + 1 /\ i \in 1 .. n + 1 /\ i <= n
    BY <1>1, <1>6
  <2> QED BY <1>11, <1>14, <2>1
<1>16. w[p] = t
  <2>1. p \in 1 .. Len(l) + 1 /\ p <= n + 1 /\ p \in 1 .. n + 1 /\ ~(p <= n)
    BY <1>1, <1>6
  <2> QED BY <1>11, <1>14, <2>1
<1>17. ASSUME NEW i \in p + 1 .. Len(l) + 1 PROVE w[i] = l[i - 1] /\ i - 1 \in p .. Len(l)
  <2>1. /\ i \in 1 .. Len(l) + 1 /\ ~(i <= n + 1) /\ i - (n + 1) \in 1 .. Len(l) - n
        /\ n + (i - (n + 1)) = i - 1 /\ i - 1 \in p .. Len(l)
    BY <1>1, <1>6
  <2> QED BY <1>7, <1>14, <2>1
<1>18. \A i \in p + 1 .. Len(l) + 1 : w[i] = l[i - 1] /\ a[l[i - 1]] >= a[t]
  BY <1>4, <1>17
<1> QED BY <1>4, <1>12, <1>13, <1>14, <1>15, <1>16, <1>18

LEMMA DelayFacts ==
  ASSUME NEW S, NEW l \in Seq(S), NEW t \in S, NEW a, \A x \in S : a[x] \in Nat, Sorted(l, a),
         IsInjective(l), t \notin ToSet(l)
  PROVE  /\ delaytask(l, t, a) \in Seq(S)
         /\ delaytask(l, t, a) # <<>>
         /\ ToSet(delaytask(l, t, a)) = ToSet(l) \cup {t}
         /\ IsInjective(delaytask(l, t, a))
         /\ Sorted(delaytask(l, t, a), a)
<1> DEFINE w == delaytask(l, t, a)
           k == Len(l)
<1>1. PICK p \in 1 .. k + 1 :
           /\ w \in Seq(S) /\ Len(w) = k + 1
           /\ \A i \in 1 .. p - 1 : w[i] = l[i] /\ a[l[i]] < a[t]
           /\ w[p] = t
           /\ \A i \in p + 1 .. k + 1 : w[i] = l[i - 1] /\ a[l[i - 1]] >= a[t]
  BY DelayPlace
<1>2. /\ k \in Nat /\ DOMAIN l = 1 .. k /\ \A i \in 1 .. k : l[i] \in S /\ a[l[i]] \in Nat
      /\ a[t] \in Nat
  BY LenProperties
<1> HIDE DEF w
<1>3. DOMAIN w = 1 .. k + 1
  BY <1>1, LenProperties
<1> HIDE DEF k
<1>4. \A i \in 1 .. k : t # l[i]
  BY <1>2 DEF ToSet
<1>5. w # <<>>
  BY <1>1, <1>2
<1>6. ToSet(w) = ToSet(l) \cup {t}
  <2>1. ASSUME NEW i \in 1 .. k + 1 PROVE w[i] \in ToSet(l) \cup {t}
    <3>1. CASE i < p
      <4>1. i \in 1 .. p - 1 /\ i \in 1 .. k
        BY <1>2, <3>1
      <4> QED BY <1>1, <1>2, <4>1 DEF ToSet
    <3>2. CASE i = p
      BY <1>1, <3>2
    <3>3. CASE i > p
      <4>1. i \in p + 1 .. k + 1 /\ i - 1 \in 1 .. k
        BY <1>2, <3>3
      <4> QED BY <1>1, <1>2, <4>1 DEF ToSet
    <3> QED BY <1>2, <3>1, <3>2, <3>3
  <2>2. ASSUME NEW i \in 1 .. k PROVE \E j \in 1 .. k + 1 : w[j] = l[i]
    <3>1. CASE i < p
      BY <1>1, <1>2, <3>1
    <3>2. CASE ~(i < p)
      <4>1. i + 1 \in p + 1 .. k + 1 /\ i + 1 \in 1 .. k + 1 /\ (i + 1) - 1 = i
        BY <1>2, <3>2
      <4>2. w[i + 1] = l[i]
        BY <1>1, <4>1
      <4> QED BY <4>1, <4>2
    <3> QED BY <3>1, <3>2
  <2>3. ToSet(w) = { w[i] : i \in 1 .. k + 1 } /\ ToSet(l) = { l[i] : i \in 1 .. k }
    BY <1>2, <1>3 DEF ToSet
  <2>4. t \in ToSet(w)
    BY <1>1, <2>3
  <2> QED BY <2>1, <2>2, <2>3, <2>4
<1>7. ASSUME NEW i \in 1 .. k + 1, NEW j \in 1 .. k + 1, i < j
      PROVE  w[i] # w[j] /\ a[w[i]] <= a[w[j]]
  <2>1. \A m, q \in 1 .. k : m < q => l[m] # l[q] /\ a[l[m]] <= a[l[q]]
    <3>1. ASSUME NEW m \in 1 .. k, NEW q \in 1 .. k, m < q
          PROVE  l[m] # l[q] /\ a[l[m]] <= a[l[q]]
      <4>1. m \in DOMAIN l /\ q \in DOMAIN l /\ m # q
        BY <1>2, <3>1
      <4>2. l[m] # l[q]
        BY <4>1 DEF IsInjective
      <4>3. a[l[m]] <= a[l[q]]
        BY <3>1, <4>1 DEF Sorted
      <4> QED BY <4>2, <4>3
    <3> QED BY <3>1
  <2>2. CASE j < p
    <3>1. i \in 1 .. p - 1 /\ j \in 1 .. p - 1 /\ i \in 1 .. k /\ j \in 1 .. k
      BY <1>2, <1>7, <2>2
    <3>2. w[i] = l[i] /\ w[j] = l[j]
      BY <1>1, <3>1
    <3> QED BY <1>7, <2>1, <3>1, <3>2
  <2>3. CASE j = p
    <3>1. i \in 1 .. p - 1 /\ i \in 1 .. k
      BY <1>2, <1>7, <2>3
    <3> QED BY <1>1, <1>2, <1>4, <2>3, <3>1
  <2>4. CASE j > p
    <3>1. j \in p + 1 .. k + 1 /\ j - 1 \in 1 .. k
      BY <1>2, <2>4
    <3>2. w[j] = l[j - 1] /\ a[l[j - 1]] >= a[t] /\ a[l[j - 1]] \in Nat
      BY <1>1, <1>2, <3>1
    <3>3. CASE i < p
      <4>1. i \in 1 .. p - 1 /\ i \in 1 .. k /\ i < j - 1
        BY <1>2, <2>4, <3>3
      <4>2. w[i] = l[i]
        BY <1>1, <4>1
      <4> QED BY <2>1, <3>1, <3>2, <4>1, <4>2
    <3>4. CASE i = p
      BY <1>1, <1>2, <1>4, <3>1, <3>2, <3>4
    <3>5. CASE i > p
      <4>1. i \in p + 1 .. k + 1 /\ i - 1 \in 1 .. k /\ i - 1 < j - 1
        BY <1>2, <1>7, <3>5
      <4>2. w[i] = l[i - 1]
        BY <1>1, <4>1
      <4> QED BY <2>1, <3>1, <3>2, <4>1, <4>2
    <3> QED BY <1>2, <3>3, <3>4, <3>5
  <2> QED BY <1>2, <2>2, <2>3, <2>4
<1>8. IsInjective(w)
  BY <1>2, <1>3, <1>7 DEF IsInjective
<1>9. Sorted(w, a)
  BY <1>3, <1>7 DEF Sorted
<1> QED BY <1>1, <1>5, <1>6, <1>8, <1>9 DEF w

-----------------------------------------------------------------------------
(***************************************************************************)
(* Facts about the state.                                                  *)
(***************************************************************************)

LEMMA ClientFacts ==
  /\ Client \subseteq Task /\ IsFiniteSet(Client) /\ IsFiniteSet(Task)
  /\ Cardinality(Client) \in Nat /\ Cardinality(Task) = Cardinality(Client) + 1
  /\ fdt \in Task /\ fdt \notin Client /\ Task = Client \cup {fdt}
<1>1. fdt \in Task /\ Client = Task \ {fdt}
  BY FdAssumption DEF Client
<1>2. /\ IsFiniteSet(Client) /\ Cardinality(Client) = Cardinality(Task) - 1
      /\ Cardinality(Task) \in Nat
  BY <1>1, TaskAssumption, FS_RemoveElement, FS_CardinalityType
<1>3. Cardinality(Client) \in Nat
  BY <1>2, FS_CardinalityType
<1> QED BY <1>1, <1>2, <1>3, TaskAssumption

\* The counts are within the bounds of their types.
LEMMA CountBounds ==
  ASSUME NEW s \in SUBSET Client, NEW y \in SUBSET Task, NEW u \in SUBSET Task
  PROVE  /\ IsFiniteSet(s \ y) /\ Cardinality(s \ y) \in 0 .. Cardinality(Client)
         /\ IsFiniteSet(u) /\ Cardinality(u) \in 0 .. Cardinality(Task)
<1>1. s \ y \in SUBSET Client
  OBVIOUS
<1>2. /\ IsFiniteSet(s \ y) /\ Cardinality(s \ y) <= Cardinality(Client)
      /\ IsFiniteSet(u) /\ Cardinality(u) <= Cardinality(Task)
  BY <1>1, ClientFacts, FS_Subset
<1>3. Cardinality(s \ y) \in Nat /\ Cardinality(u) \in Nat
  BY <1>2, FS_CardinalityType
<1> QED BY <1>2, <1>3, ClientFacts

\* A client that has the CPU is nowhere else, and fdtask is not in epoll_wait.
LEMMA RunningFacts ==
  ASSUME Inv, NEW r \in Client, Running(r)
  PROVE  /\ r \in Task /\ r # fdt /\ control = "task" /\ taskrunning = r /\ ~Ended
         /\ r \notin ToSet(taskrunqueue) /\ r \notin ToSet(sleeping) /\ r \notin gone
         /\ pc[r] \in {"run", "io", "fdwait", "delay"}
         /\ pc[fdt] \in {"start", "yield"}
         /\ pc[fdt] = "yield" => fdt \in ToSet(taskrunqueue) /\ ran > 0
<1>1. r \in Task /\ r # fdt /\ control = "task" /\ taskrunning = r /\ ~Ended
  BY ClientFacts DEF Running, Ended
<1>2. /\ FdTypeOK /\ QueueOK /\ SleepOK /\ LifeOK /\ StartOK /\ YieldOK /\ PollOK
  BY DEF Inv
<1>3. r \notin ToSet(taskrunqueue) /\ r \notin ToSet(sleeping) /\ r \notin gone
  BY <1>1, <1>2 DEF QueueOK, SleepOK, LifeOK, Off
<1>4. pc[r] \in {"run", "io", "fdwait", "delay"} /\ pc[fdt] \in {"start", "yield"}
  BY <1>1, <1>2 DEF FdTypeOK, PollOK
<1>5. ASSUME pc[fdt] = "yield" PROVE fdt \in ToSet(taskrunqueue) /\ ran > 0
  <2>1. startedfdtask
    BY <1>2, <1>5 DEF StartOK
  <2>2. fdt \in ToSet(taskrunqueue)
    BY <1>1, <1>2, <2>1 DEF StartOK, Off, Running
  <2> QED BY <1>1, <1>2, <1>5, <2>2 DEF YieldOK
<1> QED BY <1>1, <1>3, <1>4, <1>5

\* taskmain's clients are all ready.
LEMMA InitInv == Init => Inv
<1> SUFFICES ASSUME Init PROVE Inv
  OBVIOUS
<1>1. /\ taskrunqueue \in Seq(Client) /\ IsInjective(taskrunqueue)
      /\ ToSet(taskrunqueue) = Client
  BY ClientFacts, InitQueue DEF Init
<1>2. taskrunqueue \in Seq(Task)
  BY <1>1, ClientFacts, SeqMonotonic
<1>3. ready \in [Task -> BOOLEAN] /\ \A t \in Client : ready[t]
  BY ClientFacts, Zenon DEF Init
<1>4. /\ \A t \in Client : pc[t] = "run" /\ io[t] = NoIo
      /\ pc[fdt] = "start" /\ sleeping = <<>> /\ gone = {} /\ system = {}
      /\ control = "sched" /\ taskrunning = nil /\ ~startedfdtask /\ ~Ended
      /\ \A f \in Fd : reg[f] = nil
  BY ClientFacts DEF Init, Ended
<1>5. ToSet(<<>>) = {} /\ IsInjective(<<>>)
  BY DEF ToSet, IsInjective
<1>6. FdTypeOK
  <2>1. SchedTypeOK
    BY <1>2, <1>3, <1>4 DEF SchedTypeOK
  <2>2. pc \in [Task -> {"run", "io", "fdwait", "delay", "start", "yield", "poll"}]
    BY DEF Init
  <2>3. io \in [Task -> Ios]
    BY DEF Init, Ios, NoIo
  <2>4. alarmtime \in [Task -> 0 .. MaxNow] /\ now \in 0 .. MaxNow
    BY FdAssumption DEF Init
  <2>5. /\ reg \in [Fd -> Registration \cup {nil}]
        /\ avail \in [Fd -> SUBSET {"in", "out", "hup"}]
    BY DEF Init
  <2>6. /\ sleepingcounted \in 0 .. Cardinality(Client) /\ ran \in 0 .. Cardinality(Client)
        /\ taskcount \in 0 .. Cardinality(Task) + 1
    <3>1. sleepingcounted = 0 /\ ran = 0 /\ taskcount = Cardinality(Client)
      BY DEF Init
    <3> QED BY <3>1, ClientFacts
  <2>7. timeout \in Nat \cup {nil} /\ startedfdtask \in BOOLEAN /\ sleeping \in Seq(Client)
    <3>1. startedfdtask \in BOOLEAN
      BY Zenon DEF Init
    <3>2. timeout = nil /\ sleeping = <<>>
      BY DEF Init
    <3> QED BY <3>1, <3>2, Zenon, EmptySeq
  <2> QED BY <1>4, <2>1, <2>2, <2>3, <2>4, <2>5, <2>6, <2>7 DEF FdTypeOK
<1>7. QueueOK
  BY <1>1, <1>3, <1>4 DEF QueueOK
<1>8. Off(fdt) /\ \A t \in Client : ~Off(t)
  BY <1>1, <1>4, ClientFacts DEF Off, Running
<1>9. SleepOK /\ LifeOK
  BY <1>4, <1>5, <1>8 DEF SleepOK, LifeOK, Sorted
<1>10. RegOK
  BY <1>4 DEF RegOK, Registers
<1>11. StartOK /\ YieldOK /\ PollOK
  BY <1>4, <1>8 DEF StartOK, YieldOK, PollOK
<1>12. Counts
  <2>1. Users = Client
    BY <1>4, ClientFacts DEF Users
  <2>2. ToSet(sleeping) \ system = {}
    BY <1>4, <1>5
  <2>3. sleepingcounted = 0 /\ taskcount = Cardinality(Client)
    BY DEF Init
  <2>4. Cardinality(ToSet(sleeping) \ system) = 0 /\ Cardinality(Users) \in Nat
    BY <2>1, <2>2, ClientFacts, FS_EmptySet
  <2> QED BY <2>1, <2>3, <2>4 DEF Counts
<1> QED BY <1>6, <1>7, <1>9, <1>10, <1>11, <1>12 DEF Inv

-----------------------------------------------------------------------------
(***************************************************************************)
(* Steps of the clients.                                                   *)
(***************************************************************************)

\* What the other tasks see of a call of r: r, or fdtask for the first time, is
\* made ready, if anybody.
Call(r) ==
  /\ taskrunning' = taskrunning /\ ran' = ran /\ now' = now
  /\ control' \in {"task", "sched", "exited", "aborted"}
  /\ \/ taskrunqueue' = taskrunqueue /\ ready' = ready
     \/ \E x \in {r, fdt} \ ToSet(taskrunqueue) : taskready(x)
  /\ control' = "task" => taskrunqueue' = taskrunqueue /\ ready' = ready
  /\ \A t \in Task : t # r => pc'[t] = pc[t] /\ io'[t] = io[t]

LEMMA CallFacts ==
  ASSUME Inv, NEW r \in Client, Running(r), Call(r)
  PROVE  /\ SchedTypeOK' /\ QueueOK' /\ YieldOK' /\ PollOK'
         /\ ToSet(taskrunqueue) \subseteq ToSet(taskrunqueue')
         /\ ToSet(taskrunqueue') \subseteq ToSet(taskrunqueue) \cup {r, fdt}
         /\ \A t \in Client : t # r => (Off(t)' <=> Off(t))
         /\ fdt \in ToSet(taskrunqueue) => ~Off(fdt)'
<1>1. /\ r \in Task /\ r # fdt /\ control = "task" /\ taskrunning = r
      /\ r \notin ToSet(taskrunqueue)
      /\ pc[fdt] \in {"start", "yield"} /\ fdt \in Task
      /\ pc[fdt] = "yield" => fdt \in ToSet(taskrunqueue) /\ ran > 0
  BY RunningFacts, ClientFacts
<1>2. FdTypeOK /\ SchedTypeOK /\ QueueOK /\ YieldOK
  BY DEF Inv, FdTypeOK
<1>3. pc'[fdt] = pc[fdt] /\ ran' = ran /\ taskrunning' = taskrunning
  BY <1>1 DEF Call
<1>4. CASE taskrunqueue' = taskrunqueue /\ ready' = ready
  <2>1. SchedTypeOK' /\ QueueOK'
    BY <1>1, <1>2, <1>4 DEF Call, SchedTypeOK, QueueOK
  <2>2. YieldOK' /\ PollOK'
    <3>1. ran \in 0 .. Cardinality(Client) /\ Cardinality(Client) \in Nat
      BY <1>2, ClientFacts DEF FdTypeOK
    <3> QED BY <1>1, <1>2, <1>3, <1>4, <3>1 DEF YieldOK, PollOK, Running
  <2> QED BY <1>1, <1>3, <1>4, <2>1, <2>2 DEF Off, Running
<1>5. ASSUME NEW x \in {r, fdt} \ ToSet(taskrunqueue), taskready(x), control' # "task"
      PROVE  /\ SchedTypeOK' /\ QueueOK' /\ YieldOK' /\ PollOK'
             /\ ToSet(taskrunqueue) \subseteq ToSet(taskrunqueue')
             /\ ToSet(taskrunqueue') \subseteq ToSet(taskrunqueue) \cup {r, fdt}
             /\ \A t \in Client : t # r => (Off(t)' <=> Off(t))
             /\ fdt \in ToSet(taskrunqueue) => ~Off(fdt)'
  <2>1. x \in Task /\ x \notin ToSet(taskrunqueue) /\ taskrunqueue \in Seq(Task)
    BY <1>1, <1>2, <1>5 DEF SchedTypeOK
  <2>2. /\ taskrunqueue' \in Seq(Task)
        /\ ready' \in [Task -> BOOLEAN]
        /\ ToSet(taskrunqueue') = ToSet(taskrunqueue) \cup {x}
        /\ IsInjective(taskrunqueue')
        /\ \A u \in ToSet(taskrunqueue') : ready'[u]
    BY <1>2, <1>5, <2>1, ReadyQueue
  <2>3. SchedTypeOK' /\ QueueOK'
    BY <1>2, <1>5, <2>2 DEF Call, SchedTypeOK, QueueOK
  <2>4. \A t \in ToSet(taskrunqueue) : Before(taskrunqueue', t) = Before(taskrunqueue, t)
    <3>1. taskrunqueue' = addtask(taskrunqueue, x)
      BY <1>5 DEF taskready
    <3> QED BY <2>1, <3>1, BeforeAdd
  <2>5. YieldOK' /\ PollOK'
    <3>1. ran \in 0 .. Cardinality(Client) /\ Cardinality(Client) \in Nat
      BY <1>2, ClientFacts DEF FdTypeOK
    <3> QED BY <1>1, <1>2, <1>3, <1>5, <2>4, <3>1 DEF YieldOK, PollOK, Running
  <2>6. \A t \in Client : t # r => t \in Task /\ t # fdt
    BY ClientFacts
  <2> QED BY <1>1, <1>3, <1>5, <2>1, <2>2, <2>3, <2>5, <2>6 DEF Off, Running
<1> QED BY <1>4, <1>5 DEF Call

\* The sleepers and the exited tasks do not notice a call.
LEMMA CallLife ==
  ASSUME Inv, NEW r \in Client, Running(r), Call(r), UNCHANGED <<sleeping, alarmtime, gone>>,
         pc'[r] # "delay" \/ pc'[r] = pc[r],
         ~Ended' => ~Off(r)' \/ pc'[r] = "fdwait"
  PROVE  SleepOK' /\ LifeOK'
<1>1. /\ r \in Task /\ r # fdt /\ control = "task" /\ taskrunning = r /\ ~Ended
      /\ r \notin ToSet(taskrunqueue) /\ r \notin ToSet(sleeping) /\ r \notin gone
  BY RunningFacts
<1>2. /\ \A t \in Client : t # r => (Off(t)' <=> Off(t)) /\ pc'[t] = pc[t]
      /\ taskrunning' = taskrunning /\ now' = now
  BY CallFacts, ClientFacts DEF Call
<1>3. SleepOK /\ LifeOK /\ gone \subseteq Client /\ ToSet(sleeping) \subseteq Client
  BY ToSetFacts DEF Inv, FdTypeOK
<1>4. SleepOK'
  <2>1. \A t \in ToSet(sleeping) : pc'[t] = "delay" /\ Off(t)'
    BY <1>1, <1>2, <1>3 DEF SleepOK
  <2>2. \A t \in Client : pc'[t] = "delay" /\ t \notin ToSet(sleeping) => now >= alarmtime[t]
    BY <1>1, <1>2, <1>3 DEF SleepOK
  <2> QED BY <1>2, <1>3, <2>1, <2>2 DEF SleepOK
<1>5. LifeOK'
  <2>1. \A t \in gone : pc'[t] = "run" /\ Off(t)'
    BY <1>1, <1>2, <1>3 DEF LifeOK
  <2>2. ~Ended' => \A t \in Client \ gone :
          Off(t)' => t \in ToSet(sleeping) \/ pc'[t] = "fdwait"
    BY <1>1, <1>2, <1>3 DEF LifeOK
  <2> QED BY <1>1, <1>2, <2>1, <2>2 DEF LifeOK
<1> QED BY <1>4, <1>5

\* A call that neither starts nor ends a wait for a descriptor.
LEMMA CallReg ==
  ASSUME Inv, NEW r \in Client, Running(r), Call(r), reg' = reg,
         ~Registers(r), ~Registers(r)'
  PROVE  RegOK'
<1>1. ~Ended /\ RegOK
  BY RunningFacts DEF Inv
<1>2. \A t \in Client : t # r => pc'[t] = pc[t] /\ io'[t] = io[t]
  BY ClientFacts DEF Call
<1>3. \A t \in Client : Registers(t)' <=> Registers(t)
  BY <1>2 DEF Registers
<1>4. \A f \in Fd : reg[f] # nil => reg[f].ptr \in Client
  BY DEF Inv, FdTypeOK, Registration
<1> QED BY <1>1, <1>2, <1>3, <1>4 DEF RegOK

\* A call that does not need fdtask.
LEMMA CallStart ==
  ASSUME Inv, NEW r \in Client, Running(r), Call(r),
         UNCHANGED <<startedfdtask, sleeping>>,
         fdt \in system' <=> fdt \in system,
         ~startedfdtask => pc'[r] \in {"run", "io"} /\ fdt \notin ToSet(taskrunqueue')
  PROVE  StartOK'
<1>1. /\ r # fdt /\ control = "task" /\ taskrunning = r /\ fdt \in Task /\ ~Ended
  BY RunningFacts, ClientFacts
<1>2. /\ \A t \in Client : t # r => pc'[t] = pc[t]
      /\ pc'[fdt] = pc[fdt] /\ taskrunning' = taskrunning
  BY <1>1, ClientFacts DEF Call
<1>3. StartOK
  BY DEF Inv
<1>4. fdt \in ToSet(taskrunqueue) => ~Off(fdt)'
  BY CallFacts
<1>5. ~startedfdtask => Off(fdt)'
  BY <1>1, <1>2 DEF Off, Running
<1>6. startedfdtask => ~Off(fdt)'
  BY <1>1, <1>3, <1>4 DEF StartOK, Off, Running
<1> QED BY <1>1, <1>2, <1>3, <1>5, <1>6 DEF StartOK

\* A step that leaves alone what the counts are about.
LEMMA SameCounts ==
  ASSUME Inv, UNCHANGED <<sleeping, sleepingcounted, system, gone, taskcount, startedfdtask>>,
         Ended => Ended'
  PROVE  Counts'
<1>1. Users' = Users
  BY DEF Users
<1> QED BY <1>1 DEF Inv, Counts

\* A call that only changes where its task is and what it does to descriptors.
LEMMA QuietInv ==
  ASSUME Inv, NEW r \in Client, Running(r), pc[r] # "fdwait",
         UNCHANGED <<schedvars, sleepvars, lifevars, pollvars, reg, now>>,
         NEW p \in {"run", "io"}, pc' = [pc EXCEPT ![r] = p],
         NEW o \in Ios, io' = [io EXCEPT ![r] = o], p = "io" => o.fd \in Fd,
         avail' \in [Fd -> SUBSET {"in", "out", "hup"}]
  PROVE  Inv'
<1>1. /\ UNCHANGED <<taskrunqueue, taskrunning, ready, control>>
      /\ UNCHANGED <<sleeping, sleepingcounted, alarmtime, taskcount, system, gone>>
      /\ UNCHANGED <<startedfdtask, ran, timeout, reg, now>>
  BY DEF schedvars, sleepvars, lifevars, pollvars
<1>2. /\ r \in Task /\ r # fdt /\ control = "task" /\ taskrunning = r /\ ~Ended
      /\ Client \subseteq Task /\ fdt \in Task /\ FdTypeOK
  BY RunningFacts, ClientFacts DEF Inv
<1>3. /\ pc' \in [Task -> {"run", "io", "fdwait", "delay", "start", "yield", "poll"}]
      /\ io' \in [Task -> Ios] /\ pc'[r] = p
      /\ \A t \in Task : t # r => pc'[t] = pc[t] /\ io'[t] = io[t]
  BY <1>2 DEF FdTypeOK
<1>4. Call(r)
  BY <1>1, <1>2, <1>3 DEF Call
<1>5. SchedTypeOK' /\ QueueOK' /\ YieldOK' /\ PollOK'
  BY <1>4, CallFacts
<1>6. ~Off(r)' /\ ~Ended'
  BY <1>1, <1>2 DEF Off, Running, Ended
<1>7. SleepOK' /\ LifeOK'
  BY <1>1, <1>3, <1>4, <1>6, CallLife
<1>8. RegOK'
  <2>1. ~Registers(r) /\ ~Registers(r)'
    BY <1>3 DEF Registers
  <2> QED BY <1>1, <1>4, <2>1, CallReg
<1>9. StartOK'
  <2>1. ~startedfdtask => fdt \notin ToSet(taskrunqueue')
    BY <1>1 DEF Inv, StartOK, Off
  <2> QED BY <1>1, <1>3, <1>4, <2>1, CallStart
<1>10. Counts'
  BY <1>1, <1>2, SameCounts
<1>11. FdTypeOK'
  <2>1. /\ \A t \in Client : pc'[t] \in {"run", "io", "fdwait", "delay"}
        /\ pc'[fdt] \in {"start", "yield", "poll"}
    BY <1>2, <1>3 DEF FdTypeOK
  <2>2. \A t \in Client : pc'[t] \in {"io", "fdwait"} => io'[t].fd \in Fd
    <3>1. io'[r] = o
      BY <1>2 DEF FdTypeOK
    <3>2. ASSUME NEW t \in Client, pc'[t] \in {"io", "fdwait"} PROVE io'[t].fd \in Fd
      BY <1>2, <1>3, <3>1, <3>2 DEF FdTypeOK
    <3> QED BY <3>2
  <2> QED BY <1>1, <1>2, <1>3, <1>5, <2>1, <2>2 DEF FdTypeOK
<1> QED BY <1>5, <1>7, <1>8, <1>9, <1>10, <1>11 DEF Inv

LEMMA QuietCalls ==
  ASSUME Inv, NEW r \in Client,
         iocall(r) \/ doread(r) \/ dowrite(r) \/ taskdelayresume(r)
  PROVE  Inv'
<1>1. /\ io \in [Task -> Ios] /\ r \in Task /\ NoIo \in Ios /\ io[r] \in Ios
      /\ avail \in [Fd -> SUBSET {"in", "out", "hup"}]
      /\ pc \in [Task -> {"run", "io", "fdwait", "delay", "start", "yield", "poll"}]
  BY ClientFacts DEF Inv, FdTypeOK, Ios, NoIo
<1>2. ASSUME iocall(r) PROVE Inv'
  <2>1. PICK u \in Uses[r] :
          /\ u[2] \in {"fdread", "fdwrite"}
          /\ pc' = [pc EXCEPT ![r] = "io"]
          /\ io' = [io EXCEPT ![r] = [fd |-> u[1], rw |-> rwof(u[2]), call |-> u[2],
                                      left |-> IF u[2] = "fdwrite" THEN 2 ELSE 0]]
    BY <1>2 DEF iocall
  <2>2. [fd |-> u[1], rw |-> rwof(u[2]), call |-> u[2],
         left |-> IF u[2] = "fdwrite" THEN 2 ELSE 0] \in Ios
    <3>1. u[1] \in Fd /\ u[2] \in Calls
      BY <1>1, FdAssumption
    <3>2. rwof(u[2]) \in {"r", "w", "e", nil}
      BY DEF rwof
    <3>3. (IF u[2] = "fdwrite" THEN 2 ELSE 0) \in 0 .. 2
      OBVIOUS
    <3> QED BY <3>1, <3>2, <3>3 DEF Ios
  <2>3. /\ Running(r) /\ pc[r] # "fdwait" /\ avail' = avail
        /\ UNCHANGED <<schedvars, sleepvars, lifevars, pollvars, reg, now>>
    BY <1>2 DEF iocall, Idle, kernelvars
  <2>4. u[1] \in Fd
    BY <1>1, FdAssumption
  <2> QED BY <1>1, <2>1, <2>2, <2>3, <2>4, QuietInv
<1>3. ASSUME NEW o, used(o) PROVE avail' \in [Fd -> SUBSET {"in", "out", "hup"}]
  <2>1. PICK a : /\ a \in {avail[o.fd], avail[o.fd] \ wanted(o.rw)}
                 /\ avail' = [avail EXCEPT ![o.fd] = a]
    BY <1>3 DEF used
  <2>2. CASE o.fd \in Fd
    <3>1. avail[o.fd] \in SUBSET {"in", "out", "hup"}
      BY <1>1, <2>2
    <3>2. a \in SUBSET {"in", "out", "hup"}
      BY <2>1, <3>1
    <3> QED BY <1>1, <2>1, <2>2, <3>2
  <2>3. CASE o.fd \notin Fd
    BY <1>1, <2>1, <2>3
  <2> QED BY <2>2, <2>3
<1>4. ASSUME doread(r) PROVE Inv'
  <2>1. /\ Running(r) /\ pc[r] # "fdwait" /\ used(io[r])
        /\ pc' = [pc EXCEPT ![r] = "run"] /\ io' = [io EXCEPT ![r] = NoIo]
        /\ UNCHANGED <<schedvars, sleepvars, lifevars, pollvars, reg, now>>
    BY <1>4 DEF doread, ioreturn
  <2>2. avail' \in [Fd -> SUBSET {"in", "out", "hup"}]
    BY <1>3, <2>1
  <2> QED BY <1>1, <2>1, <2>2, QuietInv
<1>5. ASSUME dowrite(r) PROVE Inv'
  <2>1. /\ Running(r) /\ pc[r] = "io" /\ used(io[r])
        /\ UNCHANGED <<schedvars, sleepvars, lifevars, pollvars, reg, now>>
    BY <1>5 DEF dowrite
  <2>2. avail' \in [Fd -> SUBSET {"in", "out", "hup"}]
    BY <1>3, <2>1
  <2>3. CASE ioreturn(r)
    BY <1>1, <2>1, <2>2, <2>3, QuietInv DEF ioreturn
  <2>4. ASSUME NEW m \in 1 .. io[r].left - 1,
               io' = [io EXCEPT ![r].left = @ - m], UNCHANGED pc
        PROVE Inv'
    <3> DEFINE o == [io[r] EXCEPT !.left = @ - m]
    <3>1. o \in Ios
      <4>1. io[r].left \in 0 .. 2 /\ io[r].left - m \in 0 .. 2
        BY <1>1 DEF Ios
      <4> QED BY <1>1, <4>1 DEF Ios
    <3>2. io' = [io EXCEPT ![r] = o]
      BY <2>4
    <3>3. pc' = [pc EXCEPT ![r] = "io"]
      BY <1>1, <2>1, <2>4
    <3>4. o.fd \in Fd
      BY <1>1, <2>1 DEF Inv, FdTypeOK
    <3> HIDE DEF o
    <3> QED BY <2>1, <2>2, <3>1, <3>2, <3>3, <3>4, QuietInv
  <2> QED BY <1>5, <2>3, <2>4 DEF dowrite
<1>6. ASSUME taskdelayresume(r) PROVE Inv'
  <2>1. /\ Running(r) /\ pc[r] # "fdwait" /\ avail' = avail /\ io' = io
        /\ pc' = [pc EXCEPT ![r] = "run"]
        /\ UNCHANGED <<schedvars, sleepvars, lifevars, pollvars, reg, now>>
    BY <1>6 DEF taskdelayresume, kernelvars
  <2>2. io' = [io EXCEPT ![r] = io[r]]
    BY <1>1, <2>1
  <2> QED BY <1>1, <2>1, <2>2, QuietInv
<1> QED BY <1>2, <1>4, <1>5, <1>6

\* Counts that are right are within the bounds of their types.
LEMMA CountTypes ==
  ASSUME NEW s \in SUBSET Client, NEW y \in SUBSET Task, NEW u \in SUBSET Task,
         NEW sc, NEW tc, sc = Cardinality(s \ y),
         tc = Cardinality(u) + (IF sc > 0 THEN 1 ELSE 0)
  PROVE  sc \in 0 .. Cardinality(Client) /\ tc \in 0 .. Cardinality(Task) + 1
<1>1. /\ Cardinality(s \ y) \in 0 .. Cardinality(Client)
      /\ Cardinality(u) \in 0 .. Cardinality(Task)
  BY CountBounds
<1> QED BY <1>1, ClientFacts

LEMMA YieldInv ==
  ASSUME Inv, NEW r \in Client, taskyield(r)
  PROVE  Inv'
<1>1. /\ Running(r) /\ pc[r] = "run" /\ taskready(r) /\ control' = "sched"
      /\ UNCHANGED <<taskrunning, sleeping, sleepingcounted, alarmtime, taskcount, system, gone>>
      /\ UNCHANGED <<startedfdtask, ran, timeout, pc, io, reg, avail, now>>
  BY DEF taskyield, Idle, yieldcpu, taskswitch, sleepvars, lifevars, pollvars, kernelvars
<1>2. /\ r \in Task /\ r # fdt /\ r \notin ToSet(taskrunqueue) /\ ~Ended /\ FdTypeOK
  BY <1>1, RunningFacts DEF Inv
<1>3. Call(r)
  BY <1>1, <1>2 DEF Call
<1>4. /\ SchedTypeOK' /\ QueueOK' /\ YieldOK' /\ PollOK'
      /\ ToSet(taskrunqueue') = ToSet(taskrunqueue) \cup {r}
  <2>1. SchedTypeOK /\ QueueOK
    BY DEF Inv, FdTypeOK
  <2> QED BY <1>1, <1>2, <1>3, <2>1, CallFacts, ReadyQueue
<1>5. ~Off(r)' /\ ~Ended'
  BY <1>1, <1>4 DEF Off, Ended
<1>6. SleepOK' /\ LifeOK'
  BY <1>1, <1>3, <1>5, CallLife
<1>7. RegOK'
  <2>1. ~Registers(r) /\ ~Registers(r)'
    BY <1>1 DEF Registers
  <2> QED BY <1>1, <1>3, <2>1, CallReg
<1>8. StartOK'
  <2>1. ~startedfdtask => fdt \notin ToSet(taskrunqueue')
    BY <1>2, <1>4 DEF Inv, StartOK, Off
  <2> QED BY <1>1, <1>3, <2>1, CallStart
<1>9. Counts'
  BY <1>1, <1>2, SameCounts
<1>10. FdTypeOK'
  BY <1>1, <1>2, <1>4 DEF FdTypeOK
<1> QED BY <1>4, <1>6, <1>7, <1>8, <1>9, <1>10 DEF Inv

LEMMA SystemInv ==
  ASSUME Inv, NEW r \in Client, tasksystem(r)
  PROVE  Inv'
<1>1. /\ Running(r) /\ pc[r] = "run" /\ r \notin system
      /\ system' = system \cup {r} /\ taskcount' = taskcount - 1
      /\ UNCHANGED <<taskrunqueue, taskrunning, ready, control>>
      /\ UNCHANGED <<sleeping, sleepingcounted, alarmtime, gone>>
      /\ UNCHANGED <<startedfdtask, ran, timeout, pc, io, reg, avail, now>>
  BY DEF tasksystem, Idle, schedvars, sleepvars, pollvars, kernelvars
<1>2. /\ r \in Task /\ r # fdt /\ r \notin ToSet(sleeping) /\ r \notin gone /\ ~Ended
      /\ control = "task" /\ taskrunning = r /\ FdTypeOK
  BY <1>1, RunningFacts DEF Inv
<1>3. Call(r)
  BY <1>1, <1>2 DEF Call
<1>4. SchedTypeOK' /\ QueueOK' /\ YieldOK' /\ PollOK'
  BY <1>1, <1>3, CallFacts
<1>5. ~Off(r)' /\ ~Ended'
  BY <1>1, <1>2 DEF Off, Ended, Running
<1>6. SleepOK' /\ LifeOK'
  BY <1>1, <1>3, <1>5, CallLife
<1>7. RegOK'
  <2>1. ~Registers(r) /\ ~Registers(r)'
    BY <1>1 DEF Registers
  <2> QED BY <1>1, <1>3, <2>1, CallReg
<1>8. StartOK'
  <2>1. ~startedfdtask => fdt \notin ToSet(taskrunqueue')
    BY <1>1 DEF Inv, StartOK, Off
  <2> QED BY <1>1, <1>2, <1>3, <2>1, CallStart
<1>9. /\ sleepingcounted' = Cardinality(ToSet(sleeping') \ system')
      /\ taskcount' = Cardinality(Users') + (IF sleepingcounted' > 0 THEN 1 ELSE 0)
  <2>1. ToSet(sleeping') \ system' = ToSet(sleeping) \ system
    BY <1>1, <1>2
  <2>2. Users' = Users \ {r} /\ r \in Users /\ Users \in SUBSET Task
    BY <1>1, <1>2 DEF Users
  <2>3. IsFiniteSet(Users) /\ Cardinality(Users) \in Nat
    BY <2>2, TaskAssumption, FS_Subset, FS_CardinalityType
  <2>4. Cardinality(Users') = Cardinality(Users) - 1
    BY <2>2, <2>3, FS_RemoveElement
  <2>5. /\ sleepingcounted = Cardinality(ToSet(sleeping) \ system)
        /\ taskcount = Cardinality(Users) + (IF sleepingcounted > 0 THEN 1 ELSE 0)
    BY <1>2 DEF Inv, Counts
  <2>6. CASE sleepingcounted > 0
    <3>1. taskcount = Cardinality(Users) + 1
      BY <2>5, <2>6
    <3> QED BY <1>1, <2>1, <2>3, <2>4, <2>5, <2>6, <3>1
  <2>7. CASE ~(sleepingcounted > 0)
    <3>1. taskcount = Cardinality(Users) /\ taskcount' = Cardinality(Users') + 0
      BY <1>1, <2>3, <2>4, <2>5, <2>7
    <3>2. ~(sleepingcounted' > 0) /\ sleepingcounted' = Cardinality(ToSet(sleeping') \ system')
      BY <1>1, <2>1, <2>5, <2>7
    <3> QED BY <3>1, <3>2
  <2> QED BY <2>6, <2>7
<1>10. FdTypeOK'
  <2>1. ToSet(sleeping') \in SUBSET Client /\ system' \in SUBSET Task /\ Users' \in SUBSET Task
    BY <1>1, <1>2, ToSetFacts DEF FdTypeOK, Users
  <2>2. /\ sleepingcounted' \in 0 .. Cardinality(Client)
        /\ taskcount' \in 0 .. Cardinality(Task) + 1
    BY <1>9, <2>1, CountTypes
  <2> QED BY <1>1, <1>2, <1>4, <2>1, <2>2 DEF FdTypeOK
<1> QED BY <1>4, <1>6, <1>7, <1>8, <1>9, <1>10 DEF Inv, Counts

LEMMA ExitInv ==
  ASSUME Inv, NEW r \in Client, taskexit(r)
  PROVE  Inv'
<1>1. /\ Running(r) /\ pc[r] = "run" /\ control' = "sched"
      /\ gone' = gone \cup {r}
      /\ taskcount' = IF r \in system THEN taskcount ELSE taskcount - 1
      /\ UNCHANGED <<taskrunqueue, taskrunning, ready>>
      /\ UNCHANGED <<sleeping, sleepingcounted, alarmtime, system>>
      /\ UNCHANGED <<startedfdtask, ran, timeout, pc, io, reg, avail, now>>
  BY DEF taskexit, Idle, taskswitch, sleepvars, pollvars, kernelvars
<1>2. /\ r \in Task /\ r # fdt /\ r \notin ToSet(sleeping) /\ r \notin gone /\ ~Ended
      /\ r \notin ToSet(taskrunqueue) /\ control = "task" /\ taskrunning = r /\ FdTypeOK
  BY <1>1, RunningFacts DEF Inv
<1>3. Call(r)
  BY <1>1, <1>2 DEF Call
<1>4. /\ SchedTypeOK' /\ QueueOK' /\ YieldOK' /\ PollOK'
      /\ \A t \in Client : t # r => (Off(t)' <=> Off(t))
  BY <1>1, <1>3, CallFacts
<1>5. Off(r)' /\ ~Ended' /\ ToSet(sleeping) \subseteq Client /\ gone \subseteq Client
  BY <1>1, <1>2, ToSetFacts DEF Off, Ended, Running, FdTypeOK
<1>6. SleepOK'
  BY <1>1, <1>2, <1>4, <1>5 DEF Inv, SleepOK
<1>7. LifeOK'
  BY <1>1, <1>2, <1>4, <1>5 DEF Inv, LifeOK
<1>8. RegOK'
  <2>1. ~Registers(r) /\ ~Registers(r)'
    BY <1>1 DEF Registers
  <2> QED BY <1>1, <1>3, <2>1, CallReg
<1>9. StartOK'
  <2>1. ~startedfdtask => fdt \notin ToSet(taskrunqueue')
    BY <1>1 DEF Inv, StartOK, Off
  <2> QED BY <1>1, <1>2, <1>3, <2>1, CallStart
<1>10. /\ sleepingcounted' = Cardinality(ToSet(sleeping') \ system')
       /\ taskcount' = Cardinality(Users') + (IF sleepingcounted' > 0 THEN 1 ELSE 0)
  <2>1. Users' = Users \ {r} /\ (r \in Users <=> r \notin system) /\ Users \in SUBSET Task
    BY <1>1, <1>2 DEF Users
  <2>2. IsFiniteSet(Users) /\ Cardinality(Users) \in Nat
    BY <2>1, TaskAssumption, FS_Subset, FS_CardinalityType
  <2>3. Cardinality(Users') = IF r \in Users THEN Cardinality(Users) - 1 ELSE Cardinality(Users)
    BY <2>1, <2>2, FS_RemoveElement
  <2>4. /\ sleepingcounted = Cardinality(ToSet(sleeping) \ system)
        /\ taskcount = Cardinality(Users) + (IF sleepingcounted > 0 THEN 1 ELSE 0)
    BY <1>2 DEF Inv, Counts
  <2> QED BY <1>1, <2>1, <2>2, <2>3, <2>4
<1>11. FdTypeOK'
  <2>1. ToSet(sleeping') \in SUBSET Client /\ system' \in SUBSET Task /\ Users' \in SUBSET Task
    BY <1>1, <1>2, <1>5 DEF FdTypeOK, Users
  <2>2. /\ sleepingcounted' \in 0 .. Cardinality(Client)
        /\ taskcount' \in 0 .. Cardinality(Task) + 1
    BY <1>10, <2>1, CountTypes
  <2> QED BY <1>1, <1>2, <1>4, <2>1, <2>2 DEF FdTypeOK
<1> QED BY <1>4, <1>6, <1>7, <1>8, <1>9, <1>10, <1>11 DEF Inv, Counts

LEMMA PrepareFailedInv ==
  ASSUME Inv, NEW r \in Client, prepare_failed(r)
  PROVE  Inv'
<1>1. /\ Running(r) /\ pc[r] \in {"run", "io"} /\ control' \in {"exited", "aborted"}
      /\ startedfdtask' = TRUE
      /\ UNCHANGED <<taskrunqueue, taskrunning, ready>>
      /\ UNCHANGED <<sleeping, sleepingcounted, alarmtime, taskcount, system, gone>>
      /\ UNCHANGED <<ran, timeout, pc, io, reg, avail, now>>
  BY DEF prepare_failed, sleepvars, lifevars, kernelvars
<1>2. r \in Task /\ r # fdt /\ FdTypeOK
  BY <1>1, RunningFacts DEF Inv
<1>3. Call(r)
  BY <1>1, <1>2 DEF Call
<1>4. SchedTypeOK' /\ QueueOK' /\ YieldOK' /\ PollOK'
  BY <1>1, <1>3, CallFacts
<1>5. Ended'
  BY <1>1 DEF Ended
<1>6. SleepOK' /\ LifeOK'
  BY <1>1, <1>3, <1>5, CallLife
<1>7. RegOK' /\ Counts'
  BY <1>5 DEF RegOK, Counts
<1>8. StartOK'
  BY <1>1, <1>5 DEF Inv, StartOK
<1>9. FdTypeOK'
  <2>1. startedfdtask' \in BOOLEAN
    BY <1>1, Zenon
  <2> QED BY <1>1, <1>2, <1>4, <2>1 DEF FdTypeOK
<1> QED BY <1>4, <1>6, <1>7, <1>8, <1>9 DEF Inv

\* The end of a wait finds its descriptor in the epoll set and takes it out.
LEMMA WaitEnds ==
  ASSUME Inv, NEW r \in Client, fdwaitresume(r)
  PROVE  Inv'
<1>1. /\ Running(r) /\ pc[r] = "fdwait"
      /\ UNCHANGED <<taskrunqueue, taskrunning, ready>>
      /\ UNCHANGED <<sleeping, sleepingcounted, alarmtime, taskcount, system, gone>>
      /\ UNCHANGED <<startedfdtask, ran, timeout, avail, now>>
  BY DEF fdwaitresume, sleepvars, lifevars, pollvars
<1>2. /\ r \in Task /\ r # fdt /\ control = "task" /\ taskrunning = r /\ ~Ended
      /\ Client \subseteq Task /\ fdt \in Task /\ FdTypeOK /\ RegOK
  BY <1>1, RunningFacts, ClientFacts DEF Inv
<1>3. /\ io \in [Task -> Ios] /\ NoIo \in Ios /\ io[r].fd \in Fd
      /\ pc \in [Task -> {"run", "io", "fdwait", "delay", "start", "yield", "poll"}]
      /\ reg \in [Fd -> Registration \cup {nil}]
  BY <1>1, <1>2 DEF FdTypeOK, Ios, NoIo
<1>4. /\ pc' \in [Task -> {"run", "io", "fdwait", "delay", "start", "yield", "poll"}]
      /\ io' \in [Task -> Ios] /\ pc'[r] \in {"run", "io"}
      /\ pc'[r] = "io" => io'[r].fd \in Fd
      /\ \A t \in Task : t # r => pc'[t] = pc[t] /\ io'[t] = io[t]
  BY <1>2, <1>3 DEF fdwaitresume
<1>5. Registers(r) => reg[io[r].fd] # nil /\ reg[io[r].fd].ptr = r
  BY <1>2 DEF RegOK
<1>6. /\ control' = "task"
      /\ reg' = IF Registers(r) THEN [reg EXCEPT ![io[r].fd] = nil] ELSE reg
  BY <1>1, <1>2, <1>5 DEF fdwaitresume, unregister, Registers
<1>7. Call(r)
  BY <1>1, <1>2, <1>4, <1>6 DEF Call
<1>8. SchedTypeOK' /\ QueueOK' /\ YieldOK' /\ PollOK'
  BY <1>1, <1>7, CallFacts
<1>9. ~Off(r)' /\ ~Ended'
  BY <1>1, <1>2, <1>6 DEF Off, Running, Ended
<1>10. SleepOK' /\ LifeOK'
  BY <1>1, <1>4, <1>7, <1>9, CallLife
<1>11. RegOK'
  <2>1. ~Registers(r)'
    BY <1>4 DEF Registers
  <2>2. CASE ~Registers(r)
    BY <1>1, <1>6, <1>7, <2>1, <2>2, CallReg
  <2>3. CASE Registers(r)
    <3>1. reg'[io[r].fd] = nil /\ \A f \in Fd : f # io[r].fd => reg'[f] = reg[f]
      BY <1>3, <1>6, <2>3
    <3>2. \A t \in Client : t # r => (Registers(t)' <=> Registers(t)) /\ io'[t] = io[t]
      BY <1>2, <1>4 DEF Registers
    <3>3. \A f \in Fd : reg[f] # nil => reg[f].ptr \in Client
      BY <1>3 DEF Registration
    <3>4. ASSUME NEW f \in Fd, reg'[f] # nil
          PROVE  (Registers(reg[f].ptr) /\ io[reg[f].ptr].fd = f)'
      <4>1. f # io[r].fd /\ reg'[f] = reg[f] /\ reg[f] # nil
        BY <3>1, <3>4
      <4>2. Registers(reg[f].ptr) /\ io[reg[f].ptr].fd = f
        BY <1>2, <4>1 DEF RegOK
      <4>3. reg[f].ptr # r /\ reg[f].ptr \in Client
        BY <3>3, <4>1, <4>2
      <4> DEFINE t == reg[f].ptr
      <4>4. Registers(t) /\ io[t].fd = f /\ t \in Client /\ t # r
        BY <4>2, <4>3
      <4>5. reg'[f].ptr = t
        BY <4>1
      <4> HIDE DEF t
      <4>6. pc'[t] = "fdwait" /\ addedmask(io'[t].rw) # {} /\ io'[t].fd = f
        BY <1>2, <1>4, <4>4 DEF Registers
      <4> QED BY <4>5, <4>6 DEF Registers
    <3>5. ASSUME NEW t \in Client, Registers(t)'
          PROVE  io'[t].fd \in Fd /\ reg'[io'[t].fd] # nil /\ reg'[io'[t].fd].ptr = t
      <4>1. t # r
        BY <2>1, <3>5
      <4>2. Registers(t) /\ io'[t] = io[t]
        BY <3>2, <3>5, <4>1
      <4>3. io[t].fd \in Fd /\ reg[io[t].fd] # nil /\ reg[io[t].fd].ptr = t
        BY <1>2, <4>2 DEF RegOK
      <4>4. io[t].fd # io[r].fd
        BY <1>5, <2>3, <4>1, <4>3
      <4> QED BY <3>1, <4>2, <4>3, <4>4
    <3> QED BY <3>4, <3>5 DEF RegOK
  <2> QED BY <2>2, <2>3
<1>12. StartOK'
  <2>1. ~startedfdtask => fdt \notin ToSet(taskrunqueue')
    BY <1>1 DEF Inv, StartOK, Off
  <2> QED BY <1>1, <1>4, <1>7, <2>1, CallStart
<1>13. Counts'
  BY <1>1, <1>2, SameCounts
<1>14. FdTypeOK'
  <2>1. /\ \A t \in Client : pc'[t] \in {"run", "io", "fdwait", "delay"}
        /\ pc'[fdt] \in {"start", "yield", "poll"}
    BY <1>2, <1>4 DEF FdTypeOK
  <2>2. \A t \in Client : pc'[t] \in {"io", "fdwait"} => io'[t].fd \in Fd
    <3>1. ASSUME NEW t \in Client, pc'[t] \in {"io", "fdwait"} PROVE io'[t].fd \in Fd
      BY <1>2, <1>4, <3>1 DEF FdTypeOK
    <3> QED BY <3>1
  <2>3. reg' \in [Fd -> Registration \cup {nil}]
    BY <1>3, <1>6
  <2> QED BY <1>1, <1>2, <1>4, <1>8, <2>1, <2>2, <2>3 DEF FdTypeOK
<1> QED BY <1>8, <1>10, <1>11, <1>12, <1>13, <1>14 DEF Inv

\* From the first wait on fdtask is a ready user task.
LEMMA PrepareFacts ==
  ASSUME Inv, NEW r \in Client, Running(r), prepare_fdtask, UNCHANGED <<system, gone>>
  PROVE  /\ startedfdtask' = TRUE /\ ran' = ran /\ timeout' = timeout
         /\ \/ taskrunqueue' = taskrunqueue /\ ready' = ready
            \/ \E x \in {r, fdt} \ ToSet(taskrunqueue) : taskready(x)
         /\ fdt \in ToSet(taskrunqueue') /\ r \notin ToSet(taskrunqueue')
         /\ Users \in SUBSET Task /\ Users' \in SUBSET Task
         /\ Cardinality(Users) \in Nat /\ Cardinality(Users') = Cardinality(Users) + created
<1>1. /\ r \in Task /\ r # fdt /\ control = "task" /\ taskrunning = r /\ ~Ended
      /\ r \notin ToSet(taskrunqueue) /\ fdt \in Task /\ fdt \notin Client
  BY RunningFacts, ClientFacts
<1>2. StartOK /\ SchedTypeOK /\ QueueOK /\ gone \in SUBSET Client /\ startedfdtask \in BOOLEAN
  BY DEF Inv, FdTypeOK
<1>3. startedfdtask' = TRUE /\ ran' = ran /\ timeout' = timeout
  BY DEF prepare_fdtask
<1>4. /\ Users \in SUBSET Task /\ Users' \in SUBSET Task
      /\ Cardinality(Users) \in Nat /\ IsFiniteSet(Users)
  <2>1. Users \in SUBSET Task /\ Users' \in SUBSET Task
    BY DEF Users
  <2> QED BY <2>1, TaskAssumption, FS_Subset, FS_CardinalityType
<1>5. CASE startedfdtask
  <2>1. fdt \in ToSet(taskrunqueue)
    BY <1>1, <1>2, <1>5 DEF StartOK, Off, Running
  <2>2. taskrunqueue' = taskrunqueue /\ ready' = ready
    BY <1>5 DEF prepare_fdtask
  <2>3. Users' = Users /\ created = 0
    BY <1>3, <1>5 DEF Users, created
  <2> QED BY <1>1, <1>3, <1>4, <2>1, <2>2, <2>3
<1>6. CASE ~startedfdtask
  <2>1. fdt \notin ToSet(taskrunqueue) /\ pc[fdt] = "start" /\ fdt \notin system
    BY <1>2, <1>6 DEF StartOK, Off
  <2>2. taskready(fdt)
    BY <1>6 DEF prepare_fdtask
  <2>3. ToSet(taskrunqueue') = ToSet(taskrunqueue) \cup {fdt}
    BY <1>1, <1>2, <2>1, <2>2, ReadyQueue
  <2>4. created = 1 /\ Users' = Users \cup {fdt} /\ fdt \notin Users
    BY <1>1, <1>2, <1>3, <1>6, <2>1 DEF Users, created
  <2>5. Cardinality(Users') = Cardinality(Users) + 1
    BY <1>4, <2>4, FS_AddElement
  <2> QED BY <1>1, <1>3, <1>4, <2>1, <2>2, <2>3, <2>4, <2>5
<1> QED BY <1>5, <1>6

\* fdwait registers a free descriptor, or ends the process.
LEMMA FdwaitInv ==
  ASSUME Inv, NEW r \in Client, Running(r), pc[r] \in {"run", "io"},
         NEW o \in Ios, o.fd \in Fd, fdwait(r, o)
  PROVE  Inv'
<1>1. /\ prepare_fdtask /\ taskcount' = taskcount + created
      /\ io' = [io EXCEPT ![r] = o] /\ pc' = [pc EXCEPT ![r] = "fdwait"]
      /\ UNCHANGED <<taskrunning, sleeping, sleepingcounted, alarmtime, system, gone, avail, now>>
  BY DEF fdwait, sleepvars
<1>2. /\ r \in Task /\ r # fdt /\ control = "task" /\ taskrunning = r /\ ~Ended
      /\ Client \subseteq Task /\ fdt \in Task /\ FdTypeOK /\ RegOK
  BY RunningFacts, ClientFacts DEF Inv
<1>3. \/ control' = "exited" /\ reg' = reg
      \/ control' = "sched" /\ addedmask(o.rw) = {} /\ reg' = reg
      \/ /\ control' = "sched" /\ addedmask(o.rw) # {} /\ reg[o.fd] = nil
         /\ reg' = [reg EXCEPT ![o.fd] = [events |-> addedmask(o.rw), ptr |-> r]]
  BY DEF fdwait, taskswitch
<1>4. /\ startedfdtask' = TRUE /\ ran' = ran /\ timeout' = timeout
      /\ \/ taskrunqueue' = taskrunqueue /\ ready' = ready
         \/ \E x \in {r, fdt} \ ToSet(taskrunqueue) : taskready(x)
      /\ fdt \in ToSet(taskrunqueue')
      /\ Users \in SUBSET Task /\ Users' \in SUBSET Task
      /\ Cardinality(Users) \in Nat /\ Cardinality(Users') = Cardinality(Users) + created
  BY <1>1, PrepareFacts
<1>5. /\ pc' \in [Task -> {"run", "io", "fdwait", "delay", "start", "yield", "poll"}]
      /\ io' \in [Task -> Ios] /\ pc'[r] = "fdwait" /\ io'[r] = o
      /\ \A t \in Task : t # r => pc'[t] = pc[t] /\ io'[t] = io[t]
  BY <1>1, <1>2 DEF FdTypeOK
<1>6. Call(r)
  BY <1>1, <1>2, <1>3, <1>4, <1>5 DEF Call
<1>7. SchedTypeOK' /\ QueueOK' /\ YieldOK' /\ PollOK'
  BY <1>6, CallFacts
<1>8. SleepOK' /\ LifeOK'
  BY <1>1, <1>5, <1>6, CallLife
<1>9. reg' \in [Fd -> Registration \cup {nil}]
  <2>1. [events |-> addedmask(o.rw), ptr |-> r] \in Registration
    BY DEF addedmask, Registration
  <2> QED BY <1>2, <1>3, <2>1 DEF FdTypeOK
<1>10. RegOK'
  <2>1. CASE control' = "exited"
    BY <2>1 DEF RegOK, Ended
  <2>2. ~Registers(r)
    BY DEF Registers
  <2>3. CASE addedmask(o.rw) = {} /\ reg' = reg
    <3>1. ~Registers(r)'
      BY <1>5, <2>3 DEF Registers
    <3> QED BY <1>6, <2>2, <2>3, <3>1, CallReg
  <2>4. CASE /\ addedmask(o.rw) # {} /\ reg[o.fd] = nil
             /\ reg' = [reg EXCEPT ![o.fd] = [events |-> addedmask(o.rw), ptr |-> r]]
    <3>1. /\ reg'[o.fd].ptr = r /\ reg'[o.fd] # nil
          /\ \A f \in Fd : f # o.fd => reg'[f] = reg[f]
      <4>1. [events |-> addedmask(o.rw), ptr |-> r] \in Registration
        BY DEF addedmask, Registration
      <4> QED BY <1>2, <2>4, <4>1, FdAssumption DEF FdTypeOK
    <3>2. \A f \in Fd : reg[f] # nil => reg[f].ptr \in Client
      BY <1>2 DEF FdTypeOK, Registration
    <3>3. ASSUME NEW f \in Fd, reg'[f] # nil
          PROVE  (Registers(reg[f].ptr) /\ io[reg[f].ptr].fd = f)'
      <4>1. CASE f = o.fd
        BY <1>5, <2>4, <3>1, <4>1 DEF Registers
      <4>2. CASE f # o.fd
        <5> DEFINE t == reg[f].ptr
        <5>1. reg'[f] = reg[f] /\ reg[f] # nil /\ t \in Client
          BY <3>1, <3>2, <3>3, <4>2
        <5>2. Registers(t) /\ io[t].fd = f
          BY <1>2, <5>1 DEF RegOK
        <5>3. t # r
          BY <2>2, <5>2
        <5>4. reg'[f].ptr = t
          BY <5>1
        <5> HIDE DEF t
        <5>5. pc'[t] = "fdwait" /\ addedmask(io'[t].rw) # {} /\ io'[t].fd = f
          BY <1>2, <1>5, <5>1, <5>2, <5>3 DEF Registers
        <5> QED BY <5>4, <5>5 DEF Registers
      <4> QED BY <4>1, <4>2
    <3>4. ASSUME NEW t \in Client, Registers(t)'
          PROVE  io'[t].fd \in Fd /\ reg'[io'[t].fd] # nil /\ reg'[io'[t].fd].ptr = t
      <4>1. CASE t = r
        BY <1>5, <3>1, <4>1
      <4>2. CASE t # r
        <5>1. Registers(t) /\ io'[t] = io[t]
          BY <1>2, <1>5, <3>4, <4>2 DEF Registers
        <5>2. io[t].fd \in Fd /\ reg[io[t].fd] # nil /\ reg[io[t].fd].ptr = t
          BY <1>2, <5>1 DEF RegOK
        <5>3. io[t].fd # o.fd
          BY <2>4, <5>2
        <5> QED BY <3>1, <5>1, <5>2, <5>3
      <4> QED BY <4>1, <4>2
    <3> QED BY <3>3, <3>4 DEF RegOK
  <2> QED BY <1>3, <2>1, <2>3, <2>4
<1>11. StartOK'
  <2>1. fdt \in system' <=> pc'[fdt] # "start"
    BY <1>1, <1>2, <1>5 DEF Inv, StartOK
  <2>2. ~Off(fdt)'
    BY <1>4 DEF Off
  <2> QED BY <1>4, <2>1, <2>2 DEF StartOK
<1>12. /\ sleepingcounted' = Cardinality(ToSet(sleeping') \ system')
       /\ taskcount' = Cardinality(Users') + (IF sleepingcounted' > 0 THEN 1 ELSE 0)
  <2>1. /\ sleepingcounted = Cardinality(ToSet(sleeping) \ system)
        /\ taskcount = Cardinality(Users) + (IF sleepingcounted > 0 THEN 1 ELSE 0)
    BY <1>2 DEF Inv, Counts
  <2>2. created \in Nat
    BY DEF created
  <2>3. taskcount' = Cardinality(Users') + (IF sleepingcounted > 0 THEN 1 ELSE 0)
    BY <1>1, <1>4, <2>1, <2>2
  <2> QED BY <1>1, <2>1, <2>3
<1>13. FdTypeOK'
  <2>1. /\ \A t \in Client : pc'[t] \in {"run", "io", "fdwait", "delay"}
        /\ pc'[fdt] \in {"start", "yield", "poll"}
    BY <1>2, <1>5 DEF FdTypeOK
  <2>2. \A t \in Client : pc'[t] \in {"io", "fdwait"} => io'[t].fd \in Fd
    <3>1. ASSUME NEW t \in Client, pc'[t] \in {"io", "fdwait"} PROVE io'[t].fd \in Fd
      BY <1>2, <1>5, <3>1 DEF FdTypeOK
    <3> QED BY <3>1
  <2>3. ToSet(sleeping') \in SUBSET Client /\ system' \in SUBSET Task
    BY <1>1, <1>2, ToSetFacts DEF FdTypeOK
  <2>4. /\ sleepingcounted' \in 0 .. Cardinality(Client)
        /\ taskcount' \in 0 .. Cardinality(Task) + 1
    BY <1>4, <1>12, <2>3, CountTypes
  <2>5. startedfdtask' \in BOOLEAN
    BY <1>4, Zenon
  <2> QED BY <1>1, <1>2, <1>4, <1>5, <1>7, <1>9, <2>1, <2>2, <2>4, <2>5 DEF FdTypeOK
<1> QED BY <1>7, <1>8, <1>10, <1>11, <1>12, <1>13 DEF Inv, Counts

LEMMA WaitCalls ==
  ASSUME Inv, NEW r \in Client, waitcall(r) \/ ioagain(r)
  PROVE  Inv'
<1>1. ASSUME waitcall(r) PROVE Inv'
  <2>1. PICK u \in Uses[r] :
          fdwait(r, [fd |-> u[1], rw |-> rwof(u[2]), call |-> u[2], left |-> 0])
    BY <1>1 DEF waitcall
  <2>2. u[1] \in Fd /\ u[2] \in Calls
    BY FdAssumption, ClientFacts
  <2>3. rwof(u[2]) \in {"r", "w", "e", nil}
    BY DEF rwof
  <2> DEFINE o == [fd |-> u[1], rw |-> rwof(u[2]), call |-> u[2], left |-> 0]
  <2>4. o \in Ios /\ o.fd \in Fd
    BY <2>2, <2>3 DEF Ios
  <2>5. Running(r) /\ pc[r] \in {"run", "io"}
    BY <1>1 DEF waitcall, Idle
  <2>6. fdwait(r, o)
    BY <2>1
  <2> HIDE DEF o
  <2> QED BY <2>4, <2>5, <2>6, FdwaitInv
<1>2. ASSUME ioagain(r) PROVE Inv'
  <2>1. Running(r) /\ pc[r] \in {"run", "io"} /\ pc[r] = "io" /\ fdwait(r, io[r])
    BY <1>2 DEF ioagain
  <2>2. io[r] \in Ios /\ io[r].fd \in Fd
    BY <2>1, ClientFacts DEF Inv, FdTypeOK
  <2> QED BY <2>1, <2>2, FdwaitInv
<1> QED BY <1>1, <1>2

\* taskdelay puts its caller into the list of sleepers.
LEMMA DelayInv ==
  ASSUME Inv, NEW r \in Client, NEW ms \in Delays, taskdelay(r, ms)
  PROVE  Inv'
<1> DEFINE first == IF counted(r) /\ sleepingcounted = 0 THEN 1 ELSE 0
<1>1. /\ Running(r) /\ pc[r] = "run" /\ prepare_fdtask /\ now + ms * TICKS <= MaxNow
      /\ alarmtime' = [alarmtime EXCEPT ![r] = now + ms * TICKS]
      /\ sleeping' = delaytask(sleeping, r, alarmtime')
      /\ sleepingcounted' = IF counted(r) THEN sleepingcounted + 1 ELSE sleepingcounted
      /\ taskcount' = taskcount + created + first
      /\ pc' = [pc EXCEPT ![r] = "delay"] /\ control' = "sched"
      /\ UNCHANGED <<taskrunning, system, gone, io, reg, avail, now>>
  BY DEF taskdelay, Idle, taskswitch, kernelvars
<1> HIDE DEF first
<1>2. /\ r \in Task /\ r # fdt /\ r \notin ToSet(sleeping) /\ r \notin gone /\ ~Ended
      /\ control = "task" /\ taskrunning = r /\ FdTypeOK /\ SleepOK /\ LifeOK
      /\ Client \subseteq Task /\ fdt \in Task
  BY <1>1, RunningFacts, ClientFacts DEF Inv
<1>3. /\ startedfdtask' = TRUE /\ ran' = ran /\ timeout' = timeout
      /\ \/ taskrunqueue' = taskrunqueue /\ ready' = ready
         \/ \E x \in {r, fdt} \ ToSet(taskrunqueue) : taskready(x)
      /\ fdt \in ToSet(taskrunqueue') /\ r \notin ToSet(taskrunqueue')
      /\ Users \in SUBSET Task /\ Users' \in SUBSET Task
      /\ Cardinality(Users) \in Nat /\ Cardinality(Users') = Cardinality(Users) + created
  BY <1>1, PrepareFacts
<1>4. /\ pc' \in [Task -> {"run", "io", "fdwait", "delay", "start", "yield", "poll"}]
      /\ pc'[r] = "delay" /\ \A t \in Task : t # r => pc'[t] = pc[t]
  BY <1>1, <1>2 DEF FdTypeOK
<1>5. Call(r)
  BY <1>1, <1>2, <1>3, <1>4 DEF Call
<1>6. /\ SchedTypeOK' /\ QueueOK' /\ YieldOK' /\ PollOK'
      /\ \A t \in Client : t # r => (Off(t)' <=> Off(t))
  BY <1>1, <1>5, CallFacts
<1>7. /\ alarmtime' \in [Task -> 0 .. MaxNow]
      /\ \A t \in Task : t # r => alarmtime'[t] = alarmtime[t]
  <2>1. now + ms * TICKS \in 0 .. MaxNow
    <3>1. ms \in Nat /\ TICKS \in Nat /\ MaxNow \in Nat /\ now \in Nat
      BY <1>2, FdAssumption DEF FdTypeOK
    <3>2. ms * TICKS \in Nat
      BY <3>1
    <3> QED BY <1>1, <3>1, <3>2
  <2> QED BY <1>1, <1>2, <2>1 DEF FdTypeOK
<1>8. /\ sleeping' \in Seq(Client) /\ ToSet(sleeping') = ToSet(sleeping) \cup {r}
      /\ IsInjective(sleeping') /\ Sorted(sleeping', alarmtime')
  <2> DEFINE a == alarmtime'
  <2>1. sleeping \in Seq(Client) /\ IsInjective(sleeping) /\ Sorted(sleeping, alarmtime)
    BY <1>2 DEF FdTypeOK, SleepOK
  <2>2. \A x \in Client : a[x] \in Nat
    BY <1>2, <1>7, FdAssumption
  <2>3. Sorted(sleeping, a)
    <3>1. \A i \in DOMAIN sleeping : a[sleeping[i]] = alarmtime[sleeping[i]]
      BY <1>2, <1>7, <2>1 DEF ToSet
    <3> QED BY <2>1, <3>1 DEF Sorted
  <2>4. sleeping' = delaytask(sleeping, r, a)
    BY <1>1
  <2> HIDE DEF a
  <2>5. /\ delaytask(sleeping, r, a) \in Seq(Client)
        /\ ToSet(delaytask(sleeping, r, a)) = ToSet(sleeping) \cup {r}
        /\ IsInjective(delaytask(sleeping, r, a)) /\ Sorted(delaytask(sleeping, r, a), a)
    BY <1>2, <2>1, <2>2, <2>3, DelayFacts
  <2> QED BY <2>4, <2>5 DEF a
<1>9. Off(r)' /\ ToSet(sleeping) \subseteq Client /\ gone \subseteq Client
  BY <1>1, <1>2, <1>3, ToSetFacts DEF Off, Running, FdTypeOK
<1>10. SleepOK'
  <2>1. \A t \in ToSet(sleeping') : pc'[t] = "delay" /\ Off(t)'
    BY <1>2, <1>4, <1>6, <1>8, <1>9 DEF SleepOK
  <2>2. \A t \in Client : pc'[t] = "delay" /\ t \notin ToSet(sleeping') => now' >= alarmtime'[t]
    BY <1>1, <1>2, <1>4, <1>7, <1>8 DEF SleepOK
  <2> QED BY <1>8, <2>1, <2>2 DEF SleepOK
<1>11. LifeOK'
  <2>1. \A t \in gone' : pc'[t] = "run" /\ Off(t)'
    BY <1>1, <1>2, <1>4, <1>6, <1>9 DEF LifeOK
  <2>2. \A t \in Client \ gone' : Off(t)' => t \in ToSet(sleeping') \/ pc'[t] = "fdwait"
    BY <1>1, <1>2, <1>4, <1>6, <1>8 DEF LifeOK
  <2> QED BY <1>1, <2>1, <2>2 DEF LifeOK
<1>12. RegOK'
  <2>1. ~Registers(r) /\ ~Registers(r)'
    BY <1>1, <1>4 DEF Registers
  <2> QED BY <1>1, <1>5, <2>1, CallReg
<1>13. StartOK'
  <2>1. fdt \in system' <=> pc'[fdt] # "start"
    BY <1>1, <1>2, <1>4 DEF Inv, StartOK
  <2>2. ~Off(fdt)'
    BY <1>3 DEF Off
  <2> QED BY <1>3, <2>1, <2>2 DEF StartOK
<1>14. /\ sleepingcounted' = Cardinality(ToSet(sleeping') \ system')
       /\ taskcount' = Cardinality(Users') + (IF sleepingcounted' > 0 THEN 1 ELSE 0)
  <2>1. /\ sleepingcounted = Cardinality(ToSet(sleeping) \ system)
        /\ taskcount = Cardinality(Users) + (IF sleepingcounted > 0 THEN 1 ELSE 0)
    BY <1>2 DEF Inv, Counts
  <2>2. created \in Nat /\ sleepingcounted \in Nat
    BY <1>2 DEF created, FdTypeOK
  <2>3. CASE r \in system
    <3>1. ToSet(sleeping') \ system' = ToSet(sleeping) \ system
      BY <1>1, <1>8, <2>3
    <3>2. sleepingcounted' = sleepingcounted /\ first = 0
      BY <1>1, <2>3 DEF counted, first
    <3>3. taskcount' = Cardinality(Users') + (IF sleepingcounted > 0 THEN 1 ELSE 0)
      BY <1>1, <1>3, <2>1, <2>2, <3>2
    <3> QED BY <2>1, <3>1, <3>2, <3>3
  <2>4. CASE r \notin system
    <3> DEFINE u == ToSet(sleeping) \ system
    <3>1. ToSet(sleeping') \ system' = u \cup {r} /\ r \notin u
      BY <1>1, <1>2, <1>8, <2>4
    <3>2. IsFiniteSet(u)
      BY <1>2, <1>9, CountBounds DEF FdTypeOK
    <3> HIDE DEF u
    <3>3. Cardinality(u \cup {r}) = Cardinality(u) + 1
      BY <3>1, <3>2, FS_AddElement
    <3>4. sleepingcounted' = sleepingcounted + 1 /\ first = IF sleepingcounted = 0 THEN 1 ELSE 0
      BY <1>1, <2>4 DEF counted, first
    <3>5. sleepingcounted' > 0
      BY <2>2, <3>4
    <3>6. taskcount + first = Cardinality(Users) + 1
      BY <1>3, <2>1, <2>2, <3>4
    <3>7. taskcount \in Nat /\ first \in Nat
      BY <1>2, <3>4, ClientFacts DEF FdTypeOK
    <3>8. taskcount' = Cardinality(Users') + 1
      BY <1>1, <1>3, <2>2, <3>6, <3>7
    <3>9. sleepingcounted' = Cardinality(ToSet(sleeping') \ system')
      BY <2>1, <3>1, <3>3, <3>4 DEF u
    <3> QED BY <3>5, <3>8, <3>9
  <2> QED BY <2>3, <2>4
<1>15. FdTypeOK'
  <2>1. /\ \A t \in Client : pc'[t] \in {"run", "io", "fdwait", "delay"}
        /\ pc'[fdt] \in {"start", "yield", "poll"}
    BY <1>2, <1>4 DEF FdTypeOK
  <2>2. \A t \in Client : pc'[t] \in {"io", "fdwait"} => io'[t].fd \in Fd
    <3>1. ASSUME NEW t \in Client, pc'[t] \in {"io", "fdwait"} PROVE io'[t].fd \in Fd
      BY <1>1, <1>2, <1>4, <3>1 DEF FdTypeOK
    <3> QED BY <3>1
  <2>3. ToSet(sleeping') \in SUBSET Client /\ system' \in SUBSET Task
    BY <1>1, <1>2, <1>8, ToSetFacts DEF FdTypeOK
  <2>4. /\ sleepingcounted' \in 0 .. Cardinality(Client)
        /\ taskcount' \in 0 .. Cardinality(Task) + 1
    BY <1>3, <1>14, <2>3, CountTypes
  <2>5. startedfdtask' \in BOOLEAN
    BY <1>3, Zenon
  <2> QED BY <1>1, <1>2, <1>3, <1>4, <1>6, <1>7, <1>8, <2>1, <2>2, <2>4, <2>5 DEF FdTypeOK
<1> QED BY <1>6, <1>10, <1>11, <1>12, <1>13, <1>14, <1>15 DEF Inv, Counts

-----------------------------------------------------------------------------
(***************************************************************************)
(* Steps of fdtask.                                                        *)
(***************************************************************************)

LEMMA FdtaskFacts ==
  ASSUME Inv, Running(fdt)
  PROVE  /\ control = "task" /\ taskrunning = fdt /\ ~Ended /\ startedfdtask
         /\ fdt \in Task /\ Client \subseteq Task /\ fdt \notin Client
         /\ fdt \notin ToSet(taskrunqueue) /\ ToSet(taskrunqueue) \in SUBSET Client
         /\ fdt \notin ToSet(sleeping) /\ ToSet(sleeping) \in SUBSET Client
         /\ fdt \notin gone /\ gone \in SUBSET Client
<1>1. /\ control = "task" /\ taskrunning = fdt /\ ~Ended
      /\ fdt \in Task /\ Client \subseteq Task /\ fdt \notin Client /\ Task = Client \cup {fdt}
  BY ClientFacts DEF Running, Ended
<1>2. /\ StartOK /\ QueueOK /\ taskrunqueue \in Seq(Task) /\ sleeping \in Seq(Client)
      /\ gone \in SUBSET Client
  BY DEF Inv, FdTypeOK, SchedTypeOK
<1>3. startedfdtask /\ fdt \notin ToSet(taskrunqueue)
  BY <1>1, <1>2 DEF StartOK, Off, QueueOK
<1>4. ToSet(taskrunqueue) \subseteq Task /\ ToSet(sleeping) \subseteq Client
  BY <1>2, ToSetFacts
<1> QED BY <1>1, <1>2, <1>3, <1>4

\* What holds of the clients does not depend on what fdtask does by itself.
LEMMA FdtaskQuiet ==
  ASSUME Inv, \A t \in Client : (Off(t)' <=> Off(t)) /\ pc'[t] = pc[t],
         UNCHANGED <<sleeping, alarmtime, gone, io, reg, now>>,
         Ended => Ended', control' = "task" => taskrunning' \in Task
  PROVE  SleepOK' /\ LifeOK' /\ RegOK'
<1>1. /\ SleepOK /\ LifeOK /\ RegOK /\ ToSet(sleeping) \subseteq Client /\ gone \subseteq Client
      /\ \A f \in Fd : reg[f] # nil => reg[f].ptr \in Client
  BY ToSetFacts DEF Inv, FdTypeOK, Registration
<1>2. SleepOK'
  BY <1>1 DEF SleepOK
<1>3. LifeOK'
  BY <1>1 DEF LifeOK
<1>4. RegOK'
  <2>1. \A t \in Client : Registers(t)' <=> Registers(t)
    BY DEF Registers
  <2> QED BY <1>1, <2>1 DEF RegOK
<1> QED BY <1>2, <1>3, <1>4

\* fdtask yields: everybody who is ready is in front of it.
LEMMA FdtaskYields ==
  ASSUME Inv, Running(fdt), yieldcpu(fdt), ran' = 0, pc' = [pc EXCEPT ![fdt] = "yield"],
         UNCHANGED <<sleeping, alarmtime, gone, io, reg, now, startedfdtask>>
  PROVE  /\ SchedTypeOK' /\ QueueOK' /\ YieldOK' /\ PollOK'
         /\ SleepOK' /\ LifeOK' /\ RegOK' /\ (fdt \in system' => StartOK')
         /\ ~Ended /\ ~Ended'
         /\ pc' \in [Task -> {"run", "io", "fdwait", "delay", "start", "yield", "poll"}]
         /\ \A t \in Client : pc'[t] = pc[t]
         /\ pc'[fdt] = "yield"
<1>1. taskready(fdt) /\ control' = "sched" /\ taskrunning' = taskrunning
  BY DEF yieldcpu, taskswitch
<1>2. /\ control = "task" /\ taskrunning = fdt /\ ~Ended /\ startedfdtask
      /\ fdt \in Task /\ Client \subseteq Task /\ fdt \notin Client
      /\ fdt \notin ToSet(taskrunqueue) /\ ToSet(taskrunqueue) \in SUBSET Client
  BY FdtaskFacts
<1>3. FdTypeOK /\ SchedTypeOK /\ QueueOK
  BY DEF Inv, FdTypeOK
<1>4. /\ taskrunqueue' \in Seq(Task) /\ ready' \in [Task -> BOOLEAN]
      /\ ToSet(taskrunqueue') = ToSet(taskrunqueue) \cup {fdt}
      /\ IsInjective(taskrunqueue')
      /\ \A u \in ToSet(taskrunqueue') : ready'[u]
  BY <1>1, <1>2, <1>3, ReadyQueue
<1>5. SchedTypeOK' /\ QueueOK'
  BY <1>1, <1>3, <1>4 DEF SchedTypeOK, QueueOK
<1>6. /\ pc' \in [Task -> {"run", "io", "fdwait", "delay", "start", "yield", "poll"}]
      /\ pc'[fdt] = "yield" /\ \A t \in Client : pc'[t] = pc[t]
  BY <1>2, <1>3 DEF FdTypeOK
<1>7. YieldOK' /\ PollOK'
  <2>1. taskrunqueue \in Seq(Task) /\ taskrunqueue' = addtask(taskrunqueue, fdt)
    BY <1>1, <1>3 DEF taskready, SchedTypeOK
  <2>2. /\ Before(taskrunqueue', fdt) = ToSet(taskrunqueue)
        /\ taskrunqueue'[Len(taskrunqueue')] = fdt
    BY <1>2, <2>1, BeforeAdd
  <2>3. /\ Cardinality(ToSet(taskrunqueue)) \in Nat
        /\ Cardinality(ToSet(taskrunqueue)) <= Cardinality(Client)
    BY <1>2, ClientFacts, FS_Subset, FS_CardinalityType
  <2>4. ran' + Cardinality(Before(taskrunqueue', fdt)) <= Cardinality(Client)
    BY <2>2, <2>3
  <2> QED BY <1>1, <1>6, <2>2, <2>4 DEF YieldOK, PollOK, Running
<1>8. \A t \in Client : (Off(t)' <=> Off(t)) /\ pc'[t] = pc[t]
  BY <1>1, <1>2, <1>4, <1>6 DEF Off, Running
<1>9. SleepOK' /\ LifeOK' /\ RegOK'
  BY <1>1, <1>2, <1>8, FdtaskQuiet
<1>10. fdt \in system' => StartOK'
  BY <1>2, <1>4, <1>6 DEF StartOK, Off
<1>11. ~Ended'
  BY <1>1 DEF Ended
<1> QED BY <1>2, <1>5, <1>6, <1>7, <1>9, <1>10, <1>11

LEMMA FdtaskstartInv ==
  ASSUME Inv, fdtaskstart
  PROVE  Inv'
<1>1. /\ Running(fdt) /\ pc[fdt] = "start" /\ yieldcpu(fdt) /\ ran' = 0
      /\ system' = system \cup {fdt} /\ taskcount' = taskcount - 1
      /\ pc' = [pc EXCEPT ![fdt] = "yield"]
      /\ UNCHANGED <<sleeping, sleepingcounted, alarmtime, gone, startedfdtask, timeout>>
      /\ UNCHANGED <<io, reg, avail, now>>
  BY DEF fdtaskstart, sleepvars, kernelvars
<1>2. /\ ~Ended /\ startedfdtask /\ fdt \in Task /\ fdt \notin ToSet(sleeping)
      /\ fdt \notin gone /\ fdt \notin system /\ FdTypeOK
      /\ ToSet(sleeping) \in SUBSET Client
  <2>1. fdt \notin system
    BY <1>1 DEF Inv, StartOK
  <2> QED BY <1>1, <2>1, FdtaskFacts DEF Inv
<1>3. /\ SchedTypeOK' /\ QueueOK' /\ YieldOK' /\ PollOK'
      /\ SleepOK' /\ LifeOK' /\ RegOK' /\ (fdt \in system' => StartOK') /\ ~Ended'
      /\ pc' \in [Task -> {"run", "io", "fdwait", "delay", "start", "yield", "poll"}]
      /\ \A t \in Client : pc'[t] = pc[t]
      /\ pc'[fdt] = "yield"
  BY <1>1, FdtaskYields
<1>4. StartOK'
  BY <1>1, <1>3
<1>5. /\ sleepingcounted' = Cardinality(ToSet(sleeping') \ system')
      /\ taskcount' = Cardinality(Users') + (IF sleepingcounted' > 0 THEN 1 ELSE 0)
  <2>1. ToSet(sleeping') \ system' = ToSet(sleeping) \ system
    BY <1>1, <1>2
  <2>2. Users' = Users \ {fdt} /\ fdt \in Users /\ Users \in SUBSET Task
    BY <1>1, <1>2 DEF Users
  <2>3. IsFiniteSet(Users) /\ Cardinality(Users) \in Nat
    BY <2>2, TaskAssumption, FS_Subset, FS_CardinalityType
  <2>4. Cardinality(Users') = Cardinality(Users) - 1
    BY <2>2, <2>3, FS_RemoveElement
  <2>5. /\ sleepingcounted = Cardinality(ToSet(sleeping) \ system)
        /\ taskcount = Cardinality(Users) + (IF sleepingcounted > 0 THEN 1 ELSE 0)
    BY <1>2 DEF Inv, Counts
  <2>6. taskcount' = Cardinality(Users') + (IF sleepingcounted > 0 THEN 1 ELSE 0)
    BY <1>1, <2>3, <2>4, <2>5
  <2> QED BY <1>1, <2>1, <2>5, <2>6
<1>6. FdTypeOK'
  <2>1. ToSet(sleeping') \in SUBSET Client /\ system' \in SUBSET Task /\ Users' \in SUBSET Task
    BY <1>1, <1>2 DEF FdTypeOK, Users
  <2>2. /\ sleepingcounted' \in 0 .. Cardinality(Client)
        /\ taskcount' \in 0 .. Cardinality(Task) + 1
    BY <1>5, <2>1, CountTypes
  <2>3. ran' \in 0 .. Cardinality(Client)
    BY <1>1, ClientFacts
  <2>4. /\ \A t \in Client : pc'[t] \in {"run", "io", "fdwait", "delay"}
        /\ \A t \in Client : pc'[t] \in {"io", "fdwait"} => io'[t].fd \in Fd
    BY <1>1, <1>2, <1>3 DEF FdTypeOK
  <2> QED BY <1>1, <1>2, <1>3, <2>1, <2>2, <2>3, <2>4 DEF FdTypeOK
<1> QED BY <1>3, <1>4, <1>5, <1>6 DEF Inv, Counts

LEMMA FdtaskyieldInv ==
  ASSUME Inv, fdtaskyield
  PROVE  Inv'
<1>1. /\ Running(fdt) /\ pc[fdt] = "yield" /\ yieldcpu(fdt) /\ ran' = 0
      /\ UNCHANGED <<sleeping, sleepingcounted, alarmtime, taskcount, system, gone>>
      /\ UNCHANGED <<startedfdtask, timeout, pc, io, reg, avail, now>>
  BY DEF fdtaskyield, sleepvars, lifevars, kernelvars
<1>2. pc' = [pc EXCEPT ![fdt] = "yield"] /\ FdTypeOK /\ fdt \in system
  BY <1>1 DEF Inv, FdTypeOK, StartOK
<1>3. /\ SchedTypeOK' /\ QueueOK' /\ YieldOK' /\ PollOK'
      /\ SleepOK' /\ LifeOK' /\ RegOK' /\ (fdt \in system' => StartOK')
      /\ ~Ended /\ ~Ended'
  BY <1>1, <1>2, FdtaskYields
<1>4. StartOK'
  BY <1>1, <1>2, <1>3
<1>5. Counts'
  BY <1>1, <1>3, SameCounts
<1>6. FdTypeOK'
  <2>1. ran' \in 0 .. Cardinality(Client)
    BY <1>1, ClientFacts
  <2> QED BY <1>1, <1>2, <1>3, <2>1 DEF FdTypeOK
<1> QED BY <1>3, <1>4, <1>5, <1>6 DEF Inv

\* The timeout of epoll_wait is not behind the first alarm: the truncation to
\* milliseconds only makes it shorter.
LEMMA PolltimeoutFacts ==
  ASSUME FdTypeOK
  PROVE  /\ polltimeout \in Nat \cup {nil}
         /\ sleeping # <<>> =>
              /\ polltimeout \in Nat
              /\ polltimeout <= alarmtime[Head(sleeping)] \/ polltimeout <= now
<1>1. CASE sleeping = <<>>
  BY <1>1 DEF polltimeout
<1>2. CASE sleeping # <<>>
  <2> DEFINE a == alarmtime[Head(sleeping)]
             d == (a - now) \div TICKS
  <2>1. now \in Nat /\ a \in Nat /\ MAXMS \in Nat /\ TICKS \in Nat /\ TICKS > 0
    <3>1. Head(sleeping) \in Task /\ alarmtime \in [Task -> 0 .. MaxNow] /\ now \in 0 .. MaxNow
      BY <1>2, DelHeadFacts, ClientFacts DEF FdTypeOK
    <3> QED BY <3>1, FdAssumption
  <2>2. polltimeout = IF now >= a THEN now
                      ELSE IF now + MAXMS * TICKS >= a THEN now + d * TICKS
                           ELSE now + MAXMS * TICKS
    BY <1>2 DEF polltimeout, longest
  <2> HIDE DEF a
  <2>3. CASE now >= a
    BY <1>2, <2>1, <2>2, <2>3 DEF a
  <2>4. CASE ~(now >= a) /\ now + MAXMS * TICKS >= a
    <3> DEFINE x == a - now
    <3>1. x \in Nat
      BY <2>1, <2>4
    <3> HIDE DEF x
    <3>2. x \div TICKS \in Nat /\ (x \div TICKS) * TICKS <= x
      BY <2>1, <3>1
    <3>3. d = x \div TICKS
      BY DEF x
    <3>4. d * TICKS \in Nat /\ d * TICKS <= x
      BY <2>1, <3>2, <3>3
    <3> HIDE DEF d
    <3>5. now + d * TICKS \in Nat /\ now + d * TICKS <= a
      BY <2>1, <3>4 DEF x
    <3> QED BY <1>2, <2>2, <2>4, <3>5 DEF a
  <2>5. CASE ~(now >= a) /\ ~(now + MAXMS * TICKS >= a)
    <3>1. MAXMS * TICKS \in Nat
      BY <2>1
    <3>2. now + MAXMS * TICKS \in Nat /\ now + MAXMS * TICKS <= a
      BY <2>1, <2>5, <3>1
    <3> QED BY <1>2, <2>2, <2>5, <3>2 DEF a
  <2> QED BY <2>3, <2>4, <2>5
<1> QED BY <1>1, <1>2

LEMMA FdtaskpollInv ==
  ASSUME Inv, fdtaskpoll
  PROVE  Inv'
<1>1. /\ Running(fdt) /\ pc[fdt] = "yield" /\ ran = 0 /\ timeout' = polltimeout
      /\ pc' = [pc EXCEPT ![fdt] = "poll"]
      /\ UNCHANGED <<taskrunqueue, taskrunning, ready, control>>
      /\ UNCHANGED <<sleeping, sleepingcounted, alarmtime, taskcount, system, gone>>
      /\ UNCHANGED <<startedfdtask, ran, io, reg, avail, now>>
  BY DEF fdtaskpoll, idlenow, schedvars, sleepvars, lifevars, kernelvars
<1>2. /\ control = "task" /\ taskrunning = fdt /\ ~Ended /\ startedfdtask
      /\ fdt \in Task /\ Client \subseteq Task /\ fdt \notin Client /\ FdTypeOK
  BY <1>1, FdtaskFacts DEF Inv
<1>3. /\ pc' \in [Task -> {"run", "io", "fdwait", "delay", "start", "yield", "poll"}]
      /\ pc'[fdt] = "poll" /\ \A t \in Client : pc'[t] = pc[t]
  BY <1>1, <1>2 DEF FdTypeOK
<1>4. QueueOK' /\ SchedTypeOK'
  BY <1>1, <1>2 DEF Inv, QueueOK, FdTypeOK, SchedTypeOK
<1>5. SleepOK' /\ LifeOK' /\ RegOK'
  <2>1. \A t \in Client : (Off(t)' <=> Off(t)) /\ pc'[t] = pc[t]
    BY <1>1, <1>3 DEF Off, Running
  <2>2. (Ended => Ended') /\ (control' = "task" => taskrunning' \in Task)
    BY <1>1, <1>2
  <2> QED BY <1>1, <2>1, <2>2, FdtaskQuiet
<1>6. StartOK' /\ YieldOK'
  BY <1>1, <1>2, <1>3 DEF Inv, StartOK, YieldOK, Off, Running
<1>7. timeout' \in Nat \cup {nil} /\ PollOK'
  <2>1. taskrunqueue = <<>>
    BY <1>1 DEF Inv, YieldOK
  <2>2. /\ timeout' \in Nat \cup {nil}
        /\ sleeping # <<>> => /\ timeout' \in Nat
                              /\ timeout' <= alarmtime[Head(sleeping)] \/ timeout' <= now
    BY <1>1, <1>2, PolltimeoutFacts
  <2> QED BY <1>1, <1>2, <2>1, <2>2 DEF PollOK
<1>8. Counts'
  BY <1>1, <1>2, SameCounts
<1>9. FdTypeOK'
  <2>1. /\ \A t \in Client : pc'[t] \in {"run", "io", "fdwait", "delay"}
        /\ \A t \in Client : pc'[t] \in {"io", "fdwait"} => io'[t].fd \in Fd
    BY <1>1, <1>2, <1>3 DEF FdTypeOK
  <2> QED BY <1>1, <1>2, <1>3, <1>4, <1>7, <2>1 DEF FdTypeOK
<1> QED BY <1>4, <1>5, <1>6, <1>7, <1>8, <1>9 DEF Inv

LEMMA FdtaskeintrInv ==
  ASSUME Inv, fdtaskeintr
  PROVE  Inv'
<1>1. /\ Running(fdt) /\ pc[fdt] = "poll" /\ control' = "exited"
      /\ UNCHANGED <<taskrunqueue, taskrunning, ready>>
      /\ UNCHANGED <<sleeping, sleepingcounted, alarmtime, taskcount, system, gone>>
      /\ UNCHANGED <<startedfdtask, ran, timeout, pc, io, reg, avail, now>>
  BY DEF fdtaskeintr, sleepvars, lifevars, pollvars, kernelvars
<1>2. /\ control = "task" /\ taskrunning = fdt /\ startedfdtask /\ fdt \notin Client /\ Ended'
  BY <1>1, FdtaskFacts DEF Ended
<1>3. FdTypeOK' /\ QueueOK'
  BY <1>1 DEF Inv, FdTypeOK, SchedTypeOK, QueueOK
<1>4. SleepOK' /\ LifeOK' /\ RegOK'
  <2>1. \A t \in Client : (Off(t)' <=> Off(t)) /\ pc'[t] = pc[t]
    BY <1>1, <1>2 DEF Off, Running
  <2>2. (Ended => Ended') /\ (control' = "task" => taskrunning' \in Task)
    BY <1>1, <1>2
  <2> QED BY <1>1, <2>1, <2>2, FdtaskQuiet
<1>5. StartOK' /\ YieldOK' /\ PollOK' /\ Counts'
  BY <1>1, <1>2 DEF Inv, StartOK, YieldOK, PollOK, Counts, Off
<1> QED BY <1>3, <1>4, <1>5 DEF Inv

\* A step of the kernel changes the clock and the state of descriptors.
LEMMA KernelQuiet ==
  ASSUME Inv, UNCHANGED <<schedvars, sleepvars, lifevars, pollvars, pc, io, reg>>,
         now' \in 0 .. MaxNow, now <= now', avail' \in [Fd -> SUBSET {"in", "out", "hup"}]
  PROVE  Inv'
<1>1. /\ UNCHANGED <<taskrunqueue, taskrunning, ready, control>>
      /\ UNCHANGED <<sleeping, sleepingcounted, alarmtime, taskcount, system, gone>>
      /\ UNCHANGED <<startedfdtask, ran, timeout, pc, io, reg>>
      /\ now \in 0 .. MaxNow
  BY DEF Inv, FdTypeOK, schedvars, sleepvars, lifevars, pollvars
<1>2. FdTypeOK' /\ QueueOK'
  <2>1. QueueOK' /\ SchedTypeOK'
    BY <1>1 DEF Inv, FdTypeOK, SchedTypeOK, QueueOK
  <2> QED BY <1>1, <2>1 DEF Inv, FdTypeOK
<1>3. SleepOK'
  <2>1. \A t \in Client : alarmtime[t] \in 0 .. MaxNow
    BY ClientFacts DEF Inv, FdTypeOK
  <2>2. \A t \in Client : pc'[t] = "delay" /\ t \notin ToSet(sleeping') => now' >= alarmtime'[t]
    BY <1>1, <2>1, FdAssumption DEF Inv, SleepOK
  <2> QED BY <1>1, <2>2 DEF Inv, SleepOK, Off, Running
<1>4. LifeOK' /\ StartOK'
  BY <1>1 DEF Inv, LifeOK, StartOK, Off, Running, Ended
<1>5. YieldOK' /\ RegOK'
  BY <1>1 DEF Inv, YieldOK, RegOK, Running, Registers, Ended
<1>6. PollOK'
  <2>1. ASSUME timeout \in Nat, timeout <= now PROVE timeout <= now'
    BY <1>1, <2>1, FdAssumption
  <2> QED BY <1>1, <2>1 DEF Inv, PollOK
<1>7. Counts'
  <2>1. Ended => Ended'
    BY <1>1 DEF Ended
  <2> QED BY <1>1, <2>1, SameCounts
<1> QED BY <1>2, <1>3, <1>4, <1>5, <1>6, <1>7 DEF Inv

\* Time that passes and I/O that becomes possible.
LEMMA KernelInv ==
  ASSUME Inv, Kernel
  PROVE  Inv'
<1>1. UNCHANGED <<schedvars, sleepvars, lifevars, pollvars, pc, io, reg>>
  BY DEF Kernel, Tick, Arrive
<1>2. now' \in 0 .. MaxNow /\ now \in 0 .. MaxNow /\ now <= now'
  <2>1. now \in 0 .. MaxNow
    BY DEF Inv, FdTypeOK
  <2> QED BY <2>1, FdAssumption DEF Kernel, Tick, Arrive
<1>3. avail' \in [Fd -> SUBSET {"in", "out", "hup"}]
  <2>1. avail \in [Fd -> SUBSET {"in", "out", "hup"}]
    BY DEF Inv, FdTypeOK
  <2>2. ASSUME Tick PROVE avail' \in [Fd -> SUBSET {"in", "out", "hup"}]
    BY <2>1, <2>2 DEF Tick
  <2>3. ASSUME Arrive PROVE avail' \in [Fd -> SUBSET {"in", "out", "hup"}]
    <3>1. PICK f \in Fd, e \in {"in", "out", "hup"} : avail' = [avail EXCEPT ![f] = @ \cup {e}]
      BY <2>3 DEF Arrive
    <3>2. avail[f] \cup {e} \in SUBSET {"in", "out", "hup"}
      BY <2>1
    <3> QED BY <2>1, <3>1, <3>2
  <2> QED BY <2>2, <2>3 DEF Kernel
<1> QED BY <1>1, <1>2, <1>3, KernelQuiet

-----------------------------------------------------------------------------
(***************************************************************************)
(* Steps of the scheduler.                                                 *)
(***************************************************************************)

\* A program that the scheduler ends.
LEMMA SchedEnds ==
  ASSUME Inv, control = "sched", control' = "exited",
         UNCHANGED <<taskrunqueue, taskrunning, ready>>,
         UNCHANGED <<sleeping, sleepingcounted, alarmtime, taskcount, system, gone>>,
         UNCHANGED <<startedfdtask, ran, timeout, pc, io, reg, avail, now>>
  PROVE  Inv'
<1>1. Ended'
  BY DEF Ended
<1>2. FdTypeOK' /\ QueueOK'
  BY DEF Inv, FdTypeOK, SchedTypeOK, QueueOK
<1>3. \A t : Off(t)' <=> Off(t)
  BY DEF Off, Running
<1>4. SleepOK' /\ LifeOK' /\ RegOK'
  BY <1>1, <1>3, FdtaskQuiet
<1>5. StartOK'
  BY <1>1, <1>3 DEF Inv, StartOK
<1>6. YieldOK' /\ PollOK' /\ Counts'
  BY <1>1 DEF Inv, YieldOK, PollOK, Counts, Running
<1> QED BY <1>2, <1>4, <1>5, <1>6 DEF Inv

LEMMA DispatchInv ==
  ASSUME Inv, control = "sched", NEW t \in Task, dispatch(t),
         ran' = IF pc[fdt] = "yield" /\ taskrunning' # fdt THEN ran + 1 ELSE ran,
         UNCHANGED <<sleeping, sleepingcounted, alarmtime, taskcount, system, gone>>,
         UNCHANGED <<startedfdtask, timeout, pc, io, reg, avail, now>>
  PROVE  Inv'
<1>1. /\ taskrunqueue # <<>> /\ t = Head(taskrunqueue)
      /\ taskrunqueue' = deltask(taskrunqueue, Head(taskrunqueue))
      /\ taskrunning' = t /\ control' = "task" /\ ~Ended /\ ~Ended'
  BY DEF dispatch, Ended
<1>2. FdTypeOK /\ SchedTypeOK /\ QueueOK /\ taskrunqueue \in Seq(Task) /\ IsInjective(taskrunqueue)
  BY DEF Inv, FdTypeOK, SchedTypeOK, QueueOK
<1>3. /\ taskrunqueue' \in Seq(Task) /\ ready' \in [Task -> BOOLEAN]
      /\ t \in ToSet(taskrunqueue)
      /\ ToSet(taskrunqueue') = ToSet(taskrunqueue) \ {t}
      /\ IsInjective(taskrunqueue')
      /\ \A u \in ToSet(taskrunqueue') : ready'[u]
  BY <1>2, DispatchQueue
<1>4. SchedTypeOK' /\ QueueOK'
  BY <1>1, <1>2, <1>3 DEF SchedTypeOK, QueueOK
<1>5. \A u : Off(u)' <=> Off(u)
  BY <1>1, <1>3 DEF Off, Running
<1>6. SleepOK' /\ LifeOK' /\ RegOK'
  BY <1>1, <1>5, FdtaskQuiet
<1>7. StartOK'
  BY <1>1, <1>5 DEF Inv, StartOK
<1>8. PollOK'
  BY DEF Inv, PollOK
<1>9. Counts'
  BY <1>1, SameCounts
<1>10. ran' \in 0 .. Cardinality(Client) /\ YieldOK'
  <2> DEFINE b == Before(taskrunqueue, fdt)
  <2>1. ran \in 0 .. Cardinality(Client) /\ Cardinality(Client) \in Nat
    BY <1>2, ClientFacts DEF FdTypeOK
  <2>2. CASE pc[fdt] # "yield"
    BY <2>1, <2>2 DEF YieldOK
  <2>3. CASE pc[fdt] = "yield"
    <3>1. fdt \in ToSet(taskrunqueue)
      BY <1>1, <2>3 DEF Inv, StartOK, Off, Running
    <3>2. ran + Cardinality(b) <= Cardinality(Client)
      BY <2>3, <3>1 DEF Inv, YieldOK
    <3>3. Tail(taskrunqueue) = taskrunqueue'
      BY <1>1, <1>2, DelHeadFacts
    <3>4. CASE t = fdt
      <4>1. fdt \notin ToSet(taskrunqueue') /\ ran' = ran
        BY <1>1, <1>3, <3>4
      <4>2. ran = 0 => taskrunqueue[Len(taskrunqueue)] = fdt
        BY <2>3, <3>1 DEF Inv, YieldOK
      <4>3. ran' = 0 => taskrunqueue' = <<>>
        BY <1>1, <1>2, <3>3, <3>4, <4>1, <4>2, BeforeTail
      <4> QED BY <2>1, <4>1, <4>3 DEF YieldOK
    <3>5. CASE t # fdt
      <4>1. ran' = ran + 1
        BY <1>1, <2>3, <3>5
      <4>2. t \in b /\ Before(taskrunqueue', fdt) = b \ {t}
        BY <1>1, <1>2, <3>1, <3>3, <3>5, BeforeTail
      <4>3. IsFiniteSet(b) /\ Cardinality(b) \in Nat
        <5>1. b \subseteq ToSet(taskrunqueue) /\ ToSet(taskrunqueue) \subseteq Task
          BY <1>2, ToSetFacts DEF Before, ToSet
        <5> QED BY <5>1, TaskAssumption, FS_Subset, FS_CardinalityType
      <4> HIDE DEF b
      <4>4. Cardinality(b \ {t}) = Cardinality(b) - 1 /\ Cardinality(b \ {t}) \in Nat
        BY <4>2, <4>3, FS_RemoveElement, FS_CardinalityType
      <4>5. ran' + Cardinality(Before(taskrunqueue', fdt)) <= Cardinality(Client)
        BY <2>1, <3>2, <4>1, <4>2, <4>3, <4>4
      <4>6. ran' > 0 /\ ran' \in 0 .. Cardinality(Client)
        BY <2>1, <4>1, <4>2, <4>4, <4>5
      <4> QED BY <1>1, <3>5, <4>5, <4>6 DEF YieldOK, Running
    <3> QED BY <3>4, <3>5
  <2> QED BY <2>2, <2>3
<1>11. FdTypeOK'
  BY <1>2, <1>4, <1>10 DEF FdTypeOK
<1> QED BY <1>4, <1>6, <1>7, <1>8, <1>9, <1>10, <1>11 DEF Inv

LEMMA SchedulerInv ==
  ASSUME Inv, taskscheduler
  PROVE  Inv'
<1>1. /\ UNCHANGED <<sleeping, sleepingcounted, alarmtime, taskcount, system, gone>>
      /\ UNCHANGED <<startedfdtask, timeout, pc, io, reg, avail, now>>
  BY DEF taskscheduler, sleepvars, lifevars, kernelvars
<1>2. CASE taskcount = 0
  <2>1. control = "sched" /\ control' = "exited" /\ UNCHANGED <<taskrunqueue, taskrunning, ready, ran>>
    BY <1>2 DEF taskscheduler
  <2> QED BY <1>1, <2>1, SchedEnds
<1>3. ASSUME norunnable, UNCHANGED ran PROVE Inv'
  <2>1. control = "sched" /\ control' = "exited" /\ UNCHANGED <<taskrunqueue, taskrunning, ready>>
    BY <1>3 DEF norunnable
  <2> QED BY <1>1, <1>3, <2>1, SchedEnds
<1>4. ASSUME runnext, ran' = IF pc[fdt] = "yield" /\ taskrunning' # fdt THEN ran + 1 ELSE ran
      PROVE  Inv'
  <2>1. PICK t \in Task : dispatch(t)
    BY <1>4 DEF runnext
  <2>2. control = "sched"
    BY <1>4 DEF runnext
  <2> QED BY <1>1, <1>4, <2>1, <2>2, DispatchInv
<1> QED BY <1>2, <1>3, <1>4 DEF taskscheduler

-----------------------------------------------------------------------------
(***************************************************************************)
(* The end of epoll_wait.                                                  *)
(***************************************************************************)

\* The loop at the end of fdtask takes sleepers that are due, and no others.
LEMMA ExpiredFacts ==
  ASSUME FdTypeOK
  PROVE  /\ expired \in 0 .. Len(sleeping)
         /\ \A i \in 1 .. expired : now >= alarmtime[sleeping[i]]
<1> DEFINE k == Len(sleeping)
           w == sleeping \o <<fdt>>
           I == { i \in 1 .. Len(w) : w[i] = fdt \/ now < alarmtime[w[i]] }
<1>1. sleeping \in Seq(Task) /\ k \in Nat /\ <<fdt>> \in Seq(Task)
  <2>1. sleeping \in Seq(Client) /\ Client \subseteq Task /\ fdt \in Task
    BY ClientFacts DEF FdTypeOK
  <2>2. sleeping \in Seq(Task)
    BY <2>1, SeqMonotonic
  <2> QED BY <2>1, <2>2, LenProperties
<1>2. /\ Len(w) = k + 1 /\ w[k + 1] = fdt
      /\ \A i \in 1 .. k : w[i] = sleeping[i]
  <2>1. Len(<<fdt>>) = 1 /\ <<fdt>>[1] = fdt
    OBVIOUS
  <2>2. /\ Len(w) = k + Len(<<fdt>>)
        /\ \A i \in 1 .. k + Len(<<fdt>>) :
             w[i] = IF i <= k THEN sleeping[i] ELSE <<fdt>>[i - k]
    BY <1>1, ConcatProperties
  <2> HIDE DEF w, k
  <2>3. k + 1 \in 1 .. k + 1 /\ ~(k + 1 <= k) /\ (k + 1) - k = 1
    BY <1>1
  <2>4. w[k + 1] = fdt
    BY <2>1, <2>2, <2>3
  <2>5. ASSUME NEW i \in 1 .. k PROVE w[i] = sleeping[i]
    <3>1. i \in 1 .. k + 1 /\ i <= k
      BY <1>1
    <3> QED BY <2>1, <2>2, <3>1
  <2> QED BY <2>1, <2>2, <2>4, <2>5
<1>3. k + 1 \in I /\ I \in SUBSET Nat
  <2> HIDE DEF w, k
  <2> QED BY <1>1, <1>2
<1>4. expired = Min(I) - 1
  <2>1. SelectInSeq(w, LAMBDA t : t = fdt \/ now < alarmtime[t]) = IF I # {} THEN Min(I) ELSE 0
    BY DEF SelectInSeq
  <2> HIDE DEF I
  <2>2. I # {}
    BY <1>3
  <2> QED BY <2>1, <2>2 DEF expired
<1> DEFINE m == Min(I)
<1>5. m \in I /\ \A y \in I : m <= y
  <2> HIDE DEF I
  <2> QED BY <1>3, MinFacts
<1>6. m \in 1 .. k + 1 /\ expired = m - 1
  <2> HIDE DEF w, k
  <2> QED BY <1>2, <1>4, <1>5
<1> HIDE DEF m
<1>7. ASSUME NEW i \in 1 .. m - 1 PROVE now >= alarmtime[sleeping[i]]
  <2>1. i \in 1 .. k /\ i \in 1 .. k + 1 /\ ~(m <= i)
    <3> HIDE DEF k
    <3> QED BY <1>1, <1>6
  <2>2. i \notin I /\ w[i] = sleeping[i] /\ Len(w) = k + 1
    BY <1>2, <1>5, <2>1
  <2>3. ~(now < alarmtime[sleeping[i]])
    <3> HIDE DEF w, k
    <3> QED BY <2>1, <2>2
  <2>4. now \in Int /\ alarmtime[sleeping[i]] \in Int
    <3>1. sleeping[i] \in Task
      BY <1>1, <2>1, LenProperties
    <3> QED BY <3>1, FdAssumption DEF FdTypeOK
  <2> QED BY <2>3, <2>4
<1> QED BY <1>1, <1>6, <1>7

\* The events of epoll_wait are for different tasks, all inside fdwait.
LEMMA EventFacts ==
  ASSUME Inv, ~Ended, NEW fs \in SUBSET Reported, NEW evs \in SetToSeqs(fs), NEW e,
         e = [ i \in DOMAIN evs |-> reg[evs[i]].ptr ]
  PROVE  /\ e \in Seq(Client) /\ IsInjective(e)
         /\ \A t \in ToSet(e) : pc[t] = "fdwait"
<1>1. fs \in SUBSET Fd /\ \A f \in fs : reg[f] # nil
  BY DEF Reported
<1>2. \A f \in fs : reg[f].ptr \in Client /\ pc[reg[f].ptr] = "fdwait" /\ io[reg[f].ptr].fd = f
  BY <1>1 DEF Inv, FdTypeOK, Registration, RegOK, Registers
<1>3. evs \in Seq(fs) /\ IsInjective(evs)
  <2>1. IsFiniteSet(fs)
    BY <1>1, FdAssumption, FS_Subset
  <2> QED BY <2>1, InitQueue
<1>4. Len(evs) \in Nat /\ DOMAIN evs = 1 .. Len(evs) /\ \A i \in 1 .. Len(evs) : evs[i] \in fs
  BY <1>3, LenProperties
<1>5. e \in [1 .. Len(evs) -> Client]
  BY <1>2, <1>4
<1>6. e \in Seq(Client) /\ DOMAIN e = 1 .. Len(evs)
  BY <1>4, <1>5, SeqDef
<1>7. \A i \in 1 .. Len(evs) : e[i] = reg[evs[i]].ptr
  BY <1>4
<1>8. IsInjective(e)
  <2>1. ASSUME NEW i \in 1 .. Len(evs), NEW j \in 1 .. Len(evs), e[i] = e[j]
        PROVE  i = j
    <3>1. reg[evs[i]].ptr = reg[evs[j]].ptr /\ evs[i] \in fs /\ evs[j] \in fs
      BY <1>4, <1>7, <2>1
    <3>2. evs[i] = evs[j]
      BY <1>2, <3>1
    <3> QED BY <1>3, <1>4, <3>2 DEF IsInjective
  <2> QED BY <1>6, <2>1 DEF IsInjective
<1>9. \A t \in ToSet(e) : pc[t] = "fdwait"
  BY <1>2, <1>4, <1>6, <1>7 DEF ToSet
<1> QED BY <1>6, <1>8, <1>9

\* The tasks that the end of epoll_wait readies can be readied, fdtask goes
\* behind them, and the counts follow the sleepers.
LEMMA FdtaskwakeInv ==
  ASSUME Inv, fdtaskwake
  PROVE  Inv'
<1> DEFINE late == SubSeq(sleeping, 1, expired)
           rest == SubSeq(sleeping, expired + 1, Len(sleeping))
<1>1. /\ Running(fdt) /\ pc[fdt] = "poll" /\ control' = "sched" /\ ran' = 0 /\ timeout' = nil
      /\ sleeping' = rest /\ pc' = [pc EXCEPT ![fdt] = "yield"]
      /\ UNCHANGED <<taskrunning, alarmtime, system, gone, startedfdtask, io, reg, avail, now>>
  BY DEF fdtaskwake, taskswitch, kernelvars
<1>2. PICK fs \in SUBSET Reported : \E evs \in SetToSeqs(fs) :
         /\ taskreadyeach([ i \in DOMAIN evs |-> reg[evs[i]].ptr ] \o late \o <<fdt>>)
         /\ uncount(Cardinality(ToSet(late) \ system))
  BY DEF fdtaskwake
<1>3. PICK evs \in SetToSeqs(fs) :
         /\ taskreadyeach([ i \in DOMAIN evs |-> reg[evs[i]].ptr ] \o late \o <<fdt>>)
         /\ uncount(Cardinality(ToSet(late) \ system))
  BY <1>2
<1> DEFINE e == [ i \in DOMAIN evs |-> reg[evs[i]].ptr ]
           n == Cardinality(ToSet(late) \ system)
           m == e \o late
<1>4. taskreadyeach(m \o <<fdt>>) /\ uncount(n)
  BY <1>3
<1>5. /\ control = "task" /\ taskrunning = fdt /\ ~Ended /\ startedfdtask
      /\ fdt \in Task /\ Client \subseteq Task /\ fdt \notin Client
      /\ ToSet(sleeping) \in SUBSET Client /\ gone \in SUBSET Client
      /\ FdTypeOK /\ SchedTypeOK /\ QueueOK /\ SleepOK /\ LifeOK /\ RegOK
  BY <1>1, FdtaskFacts DEF Inv, FdTypeOK
<1>6. taskrunqueue = <<>> /\ \A t \in Client : Off(t)
  <2>1. taskrunqueue = <<>>
    BY <1>1 DEF Inv, PollOK
  <2> QED BY <1>5, <2>1 DEF Off, Running, ToSet
<1>7. /\ expired \in 0 .. Len(sleeping) /\ Len(sleeping) \in Nat
      /\ \A i \in 1 .. expired : now >= alarmtime[sleeping[i]]
      /\ sleeping \in Seq(Client) /\ IsInjective(sleeping) /\ Sorted(sleeping, alarmtime)
  BY <1>5, ExpiredFacts, LenProperties DEF FdTypeOK, SleepOK
<1>8. /\ late \in Seq(Client) /\ rest \in Seq(Client)
      /\ Len(late) = expired /\ \A i \in 1 .. expired : late[i] = sleeping[i]
      /\ Len(rest) = Len(sleeping) - expired
      /\ \A i \in 1 .. Len(sleeping) - expired : rest[i] = sleeping[expired + i]
      /\ ToSet(sleeping) = ToSet(late) \cup ToSet(rest)
      /\ IsInjective(late) /\ IsInjective(rest) /\ ToSet(late) \cap ToSet(rest) = {}
  BY <1>7, CutFacts
<1>9. /\ e \in Seq(Client) /\ IsInjective(e) /\ \A t \in ToSet(e) : pc[t] = "fdwait"
  BY <1>5, EventFacts
<1> HIDE DEF late, rest, e
<1>10. /\ ToSet(late) \subseteq Client /\ ToSet(rest) \subseteq Client /\ ToSet(e) \subseteq Client
       /\ \A t \in ToSet(late) \cup ToSet(rest) : pc[t] = "delay"
       /\ ToSet(late) \cap ToSet(e) = {} /\ ToSet(rest) \cap ToSet(e) = {}
  <2>1. ToSet(late) \subseteq Client /\ ToSet(rest) \subseteq Client /\ ToSet(e) \subseteq Client
    BY <1>8, <1>9, ToSetFacts
  <2>2. \A t \in ToSet(late) \cup ToSet(rest) : pc[t] = "delay"
    BY <1>5, <1>8 DEF SleepOK
  <2> QED BY <1>9, <2>1, <2>2
<1>11. \A t \in ToSet(late) : now >= alarmtime[t]
  <2>1. DOMAIN late = 1 .. expired
    BY <1>8, LenProperties
  <2>2. ASSUME NEW t \in ToSet(late) PROVE now >= alarmtime[t]
    <3>1. PICK i \in 1 .. expired : t = late[i]
      BY <2>1 DEF ToSet
    <3>2. t = sleeping[i]
      BY <1>8, <3>1
    <3> QED BY <1>7, <3>2
  <2> QED BY <2>2
<1>12. /\ m \in Seq(Client) /\ IsInjective(m) /\ ToSet(m) = ToSet(e) \cup ToSet(late)
  BY <1>8, <1>9, <1>10, ConcatFacts
<1> HIDE DEF m
<1> DEFINE up == addtask(m, fdt)
<1>13. m \in Seq(Task) /\ fdt \notin ToSet(m) /\ ToSet(m) \subseteq Client
  <2>1. m \in Seq(Task)
    BY <1>5, <1>12, SeqMonotonic
  <2> QED BY <1>5, <1>10, <1>12, <2>1
<1>14. /\ up \in Seq(Task) /\ IsInjective(up) /\ ToSet(up) = ToSet(m) \cup {fdt}
       /\ Before(up, fdt) = ToSet(m) /\ up[Len(up)] = fdt
  <2>0. m \in Seq(Task) /\ fdt \in Task /\ IsInjective(m) /\ fdt \notin ToSet(m)
    BY <1>5, <1>12, <1>13
  <2>1. up \in Seq(Task) /\ IsInjective(up) /\ ToSet(up) = ToSet(m) \cup {fdt}
    BY <2>0, AddNewTask
  <2>2. Before(up, fdt) = ToSet(m) /\ up[Len(up)] = fdt
    BY <1>5, <1>13, BeforeAdd
  <2> QED BY <2>1, <2>2
<1>15. m \o <<fdt>> = up
  BY <1>5, <1>13, AppendIsConcat DEF addtask
<1> HIDE DEF up
<1>16. /\ taskrunqueue' = up /\ ready' \in [Task -> BOOLEAN]
       /\ \A u \in ToSet(taskrunqueue') : ready'[u]
  <2>1. taskreadyeach(up)
    BY <1>4, <1>15
  <2>2. taskrunqueue' = taskrunqueue \o up
    BY <2>1 DEF taskreadyeach
  <2>3. taskrunqueue' = up
    BY <1>6, <1>14, <2>2, ConcatEmptySeq
  <2>4. ToSet(up) \cap ToSet(taskrunqueue) = {}
    BY <1>6 DEF ToSet
  <2> QED BY <1>5, <1>14, <2>1, <2>3, <2>4, ReadyEachQueue
<1>17. SchedTypeOK' /\ QueueOK'
  BY <1>1, <1>5, <1>14, <1>16 DEF SchedTypeOK, QueueOK
<1>18. /\ pc' \in [Task -> {"run", "io", "fdwait", "delay", "start", "yield", "poll"}]
       /\ pc'[fdt] = "yield" /\ \A t \in Client : pc'[t] = pc[t]
  BY <1>1, <1>5 DEF FdTypeOK
<1>19. /\ ToSet(taskrunqueue') = ToSet(e) \cup ToSet(late) \cup {fdt}
       /\ \A t \in Client : Off(t)' <=> t \notin ToSet(e) \cup ToSet(late)
       /\ ~Ended'
  BY <1>1, <1>5, <1>12, <1>14, <1>16 DEF Off, Running, Ended
<1>20. SleepOK'
  <2>1. Sorted(rest, alarmtime)
    <3> DEFINE k == Len(sleeping) - expired
    <3>1. k \in Nat /\ DOMAIN rest = 1 .. k /\ DOMAIN sleeping = 1 .. Len(sleeping)
      BY <1>7, <1>8, LenProperties
    <3>2. ASSUME NEW i \in 1 .. k, NEW j \in 1 .. k, i < j
          PROVE  alarmtime[rest[i]] <= alarmtime[rest[j]]
      <4>1. /\ expired + i \in 1 .. Len(sleeping) /\ expired + j \in 1 .. Len(sleeping)
            /\ expired + i < expired + j
        BY <1>7, <3>2
      <4>2. alarmtime[sleeping[expired + i]] <= alarmtime[sleeping[expired + j]]
        BY <1>7, <3>1, <4>1 DEF Sorted
      <4> QED BY <1>8, <4>2
    <3> QED BY <3>1, <3>2 DEF Sorted
  <2>2. \A t \in ToSet(rest) : pc'[t] = "delay" /\ Off(t)'
    BY <1>8, <1>10, <1>18, <1>19
  <2>3. \A t \in Client : pc'[t] = "delay" /\ t \notin ToSet(rest) => now >= alarmtime[t]
    BY <1>5, <1>8, <1>11, <1>18 DEF SleepOK
  <2> QED BY <1>1, <1>8, <2>1, <2>2, <2>3 DEF SleepOK
<1>21. LifeOK'
  <2>1. \A t \in gone : pc'[t] = "run" /\ Off(t)'
    BY <1>5, <1>9, <1>10, <1>18, <1>19 DEF LifeOK
  <2>2. \A t \in Client \ gone : Off(t)' => t \in ToSet(rest) \/ pc'[t] = "fdwait"
    BY <1>5, <1>6, <1>8, <1>18, <1>19 DEF LifeOK
  <2> QED BY <1>1, <2>1, <2>2 DEF LifeOK
<1>22. RegOK'
  <2>1. \A t \in Client : Registers(t)' <=> Registers(t)
    BY <1>1, <1>18 DEF Registers
  <2>2. \A f \in Fd : reg[f] # nil => reg[f].ptr \in Client
    BY <1>5 DEF FdTypeOK, Registration
  <2> QED BY <1>1, <1>5, <2>1, <2>2 DEF RegOK
<1>23. StartOK'
  <2>1. fdt \in system
    BY <1>1 DEF Inv, StartOK
  <2> QED BY <1>1, <1>5, <1>18, <1>19, <2>1 DEF StartOK, Off
<1>24. YieldOK' /\ PollOK'
  <2>1. Cardinality(ToSet(m)) \in Nat /\ Cardinality(ToSet(m)) <= Cardinality(Client)
    BY <1>13, ClientFacts, FS_Subset, FS_CardinalityType
  <2>2. ran' + Cardinality(Before(taskrunqueue', fdt)) <= Cardinality(Client)
    BY <1>1, <1>14, <1>16, <2>1
  <2> QED BY <1>1, <1>14, <1>16, <1>18, <2>2 DEF YieldOK, PollOK, Running
<1>25. /\ sleepingcounted' = Cardinality(ToSet(sleeping') \ system')
       /\ taskcount' = Cardinality(Users') + (IF sleepingcounted' > 0 THEN 1 ELSE 0)
  <2> DEFINE a == ToSet(late) \ system
             b == ToSet(rest) \ system
  <2>1. a \cup b = ToSet(sleeping) \ system /\ a \cap b = {}
    BY <1>8
  <2>2. IsFiniteSet(a) /\ IsFiniteSet(b) /\ n = Cardinality(a)
    BY <1>5, <1>10, CountBounds DEF FdTypeOK
  <2>3. ToSet(sleeping') \ system' = b
    BY <1>1
  <2> HIDE DEF a, b
  <2>4. Cardinality(a \cup b) = Cardinality(a) + Cardinality(b)
    BY <2>1, <2>2, FS_Union, FS_EmptySet, FS_CardinalityType
  <2>5. Cardinality(a) \in Nat /\ Cardinality(b) \in Nat /\ n = Cardinality(a)
    BY <2>2, FS_CardinalityType
  <2>6. /\ sleepingcounted = Cardinality(ToSet(sleeping) \ system)
        /\ taskcount = Cardinality(Users) + (IF sleepingcounted > 0 THEN 1 ELSE 0)
    BY <1>5 DEF Inv, Counts
  <2>7. Users' = Users /\ Users \in SUBSET Task
    BY <1>1 DEF Users
  <2>8. Cardinality(Users) \in Nat
    BY <2>7, TaskAssumption, FS_Subset, FS_CardinalityType
  <2>9. /\ sleepingcounted' = sleepingcounted - n
        /\ taskcount' = IF n > 0 /\ sleepingcounted = n THEN taskcount - 1 ELSE taskcount
    BY <1>4 DEF uncount
  <2> HIDE DEF n
  <2>10. sleepingcounted = n + Cardinality(b) /\ sleepingcounted' = Cardinality(b)
    <3>1. sleepingcounted = n + Cardinality(b)
      BY <2>1, <2>4, <2>5, <2>6
    <3>2. (n + Cardinality(b)) - n = Cardinality(b)
      BY <2>5
    <3> QED BY <2>9, <3>1, <3>2
  <2>11. taskcount' = Cardinality(Users) + (IF sleepingcounted' > 0 THEN 1 ELSE 0)
    <3>1. CASE n > 0 /\ sleepingcounted = n
      <4>1. Cardinality(b) = 0 /\ sleepingcounted > 0
        BY <2>5, <2>10, <3>1
      <4> QED BY <2>6, <2>8, <2>9, <2>10, <3>1, <4>1
    <3>2. CASE ~(n > 0 /\ sleepingcounted = n)
      <4>1. sleepingcounted > 0 <=> sleepingcounted' > 0
        BY <2>5, <2>10, <3>2
      <4> QED BY <2>6, <2>9, <3>2, <4>1
    <3> QED BY <3>1, <3>2
  <2> QED BY <2>3, <2>7, <2>10, <2>11
<1>26. FdTypeOK'
  <2>1. ToSet(sleeping') \in SUBSET Client /\ system' \in SUBSET Task /\ Users' \in SUBSET Task
    <3>1. Users' \in SUBSET Task
      BY DEF Users
    <3>2. ToSet(sleeping') \in SUBSET Client
      BY <1>1, <1>10
    <3> QED BY <1>1, <1>5, <3>1, <3>2 DEF FdTypeOK
  <2>2. /\ sleepingcounted' \in 0 .. Cardinality(Client)
        /\ taskcount' \in 0 .. Cardinality(Task) + 1
    BY <1>25, <2>1, CountTypes
  <2>3. ran' \in 0 .. Cardinality(Client)
    BY <1>1, ClientFacts
  <2>4. /\ \A t \in Client : pc'[t] \in {"run", "io", "fdwait", "delay"}
        /\ \A t \in Client : pc'[t] \in {"io", "fdwait"} => io'[t].fd \in Fd
    BY <1>1, <1>5, <1>18 DEF FdTypeOK
  <2>5. sleeping' \in Seq(Client)
    BY <1>1, <1>8
  <2> QED BY <1>1, <1>5, <1>17, <1>18, <2>2, <2>3, <2>4, <2>5 DEF FdTypeOK
<1> QED BY <1>17, <1>20, <1>21, <1>22, <1>23, <1>24, <1>25, <1>26 DEF Inv, Counts

-----------------------------------------------------------------------------
(***************************************************************************)
(* The invariant, and what follows from it.                                *)
(***************************************************************************)

\* A step that changes nothing.
LEMMA StutterInv ==
  ASSUME Inv, UNCHANGED vars
  PROVE  Inv'
<1>1. /\ UNCHANGED <<taskrunqueue, taskrunning, ready, control>>
      /\ UNCHANGED <<sleeping, sleepingcounted, alarmtime, taskcount, system, gone>>
      /\ UNCHANGED <<startedfdtask, ran, timeout, pc, io, reg, avail, now>>
  BY DEF vars, schedvars, sleepvars, lifevars, pollvars, kernelvars
<1>2. FdTypeOK' /\ QueueOK'
  BY <1>1 DEF Inv, FdTypeOK, SchedTypeOK, QueueOK
<1>3. SleepOK' /\ LifeOK' /\ StartOK'
  BY <1>1 DEF Inv, SleepOK, LifeOK, StartOK, Off, Running, Ended
<1>4. RegOK' /\ YieldOK' /\ PollOK'
  BY <1>1 DEF Inv, RegOK, Registers, YieldOK, PollOK, Running, Ended
<1>5. Counts'
  BY <1>1 DEF Inv, Counts, Users, Ended
<1> QED BY <1>2, <1>3, <1>4, <1>5 DEF Inv

LEMMA NextInv ==
  ASSUME Inv, [Next]_vars
  PROVE  Inv'
<1>1. ASSUME UNCHANGED vars PROVE Inv'
  BY <1>1, StutterInv
<1>2. ASSUME NEW r \in Client, Step(r) PROVE Inv'
  <2>1. ASSUME \E ms \in Delays : taskdelay(r, ms) PROVE Inv'
    BY <2>1, DelayInv
  <2>2. ASSUME iocall(r) \/ doread(r) \/ dowrite(r) \/ taskdelayresume(r) PROVE Inv'
    BY <2>2, QuietCalls
  <2>3. ASSUME waitcall(r) \/ ioagain(r) PROVE Inv'
    BY <2>3, WaitCalls
  <2>4. ASSUME prepare_failed(r) PROVE Inv'
    BY <2>4, PrepareFailedInv
  <2>5. ASSUME fdwaitresume(r) PROVE Inv'
    BY <2>5, WaitEnds
  <2>6. ASSUME taskyield(r) PROVE Inv'
    BY <2>6, YieldInv
  <2>7. ASSUME tasksystem(r) PROVE Inv'
    BY <2>7, SystemInv
  <2>8. ASSUME taskexit(r) PROVE Inv'
    BY <2>8, ExitInv
  <2> QED BY <1>2, <2>1, <2>2, <2>3, <2>4, <2>5, <2>6, <2>7, <2>8 DEF Step
<1>3. ASSUME fdtask PROVE Inv'
  BY <1>3, FdtaskstartInv, FdtaskyieldInv, FdtaskpollInv, FdtaskwakeInv DEF fdtask
<1>4. ASSUME Terminated PROVE Inv'
  BY <1>1, <1>4 DEF Terminated
<1> QED BY <1>1, <1>2, <1>3, <1>4, SchedulerInv, FdtaskeintrInv, KernelInv DEF Next, CPU

\* The inductive invariant holds for any number of clients, any descriptors
\* and uses of them, any delays and limits.
THEOREM Invariance == Spec => []Inv
<1>1. Init => Inv
  BY InitInv
<1>2. Inv /\ [Next]_vars => Inv'
  BY NextInv
<1> QED BY <1>1, <1>2, PTL DEF Spec

\* fdtask blocks the process in epoll_wait only when nobody else can run, and
\* the wait ends in time for every sleeper.
THEOREM PollCorrect == Spec => []PollHarmless
<1>1. Inv => PollHarmless
  <2> SUFFICES ASSUME Inv, pc[fdt] = "poll"
               PROVE  /\ taskrunqueue = <<>>
                      /\ \A t \in ToSet(sleeping) :
                           now >= alarmtime[t] => timeout # nil /\ now >= timeout
    BY DEF PollHarmless
  <2>1. taskrunqueue = <<>>
    BY DEF Inv, PollOK
  <2>2. ASSUME NEW t \in ToSet(sleeping), now >= alarmtime[t]
        PROVE  timeout # nil /\ now >= timeout
    <3>1. sleeping \in Seq(Client) /\ Sorted(sleeping, alarmtime) /\ sleeping # <<>>
      BY <2>2 DEF Inv, FdTypeOK, SleepOK, ToSet
    <3>2. /\ Len(sleeping) \in Nat /\ DOMAIN sleeping = 1 .. Len(sleeping) /\ Len(sleeping) > 0
          /\ Head(sleeping) = sleeping[1]
      BY <3>1, LenProperties, EmptySeq, HeadTailProperties
    <3>3. PICK i \in DOMAIN sleeping : t = sleeping[i]
      BY DEF ToSet
    <3>4. \A j \in DOMAIN sleeping : alarmtime[sleeping[j]] \in Nat
      <4>1. \A j \in DOMAIN sleeping : sleeping[j] \in Task
        BY <3>1, <3>2, ClientFacts
      <4> QED BY <4>1, FdAssumption DEF Inv, FdTypeOK
    <3>5. alarmtime[Head(sleeping)] <= alarmtime[t]
      BY <3>1, <3>2, <3>3, <3>4 DEF Sorted
    <3>6. /\ timeout \in Nat
          /\ timeout <= alarmtime[Head(sleeping)] \/ timeout <= now
      BY <3>1 DEF Inv, PollOK
    <3>7. now \in Nat /\ alarmtime[t] \in Nat /\ alarmtime[Head(sleeping)] \in Nat
      <4>1. 1 \in DOMAIN sleeping
        BY <3>2
      <4> QED BY <3>2, <3>3, <3>4, <4>1, FdAssumption DEF Inv, FdTypeOK
    <3>8. now >= timeout
      BY <2>2, <3>5, <3>6, <3>7
    <3> QED BY <3>6, <3>8, FdAssumption
  <2> QED BY <2>1, <2>2
<1> QED BY <1>1, Invariance, PTL

\* taskscheduler ends the program only when every user task has exited.
THEOREM EndsCorrect == Spec => EndsOnlyWhenDone
<1>1. ASSUME Inv, Next, control = "sched", control' = "exited"
      PROVE  Client \subseteq gone \cup system
  <2>1. taskscheduler
    <3>1. ~fdtask /\ ~fdtaskeintr /\ ~Kernel /\ ~Terminated
      BY <1>1 DEF fdtask, fdtaskstart, fdtaskyield, fdtaskpoll, fdtaskwake, fdtaskeintr,
         Running, Kernel, schedvars, Terminated, Ended
    <3>2. \A r \in Client : ~Step(r)
      BY <1>1 DEF Step, taskdelay, taskdelayresume, prepare_failed, iocall, waitcall,
         fdwaitresume, doread, dowrite, ioagain, taskyield, tasksystem, taskexit, Idle, Running
    <3> QED BY <1>1, <3>1, <3>2 DEF Next, CPU
  <2>2. CASE taskcount = 0
    <3>1. Users \in SUBSET Task
      BY DEF Users
    <3>2. IsFiniteSet(Users) /\ Cardinality(Users) \in Nat
      BY <3>1, TaskAssumption, FS_Subset, FS_CardinalityType
    <3>3. taskcount = Cardinality(Users) + (IF sleepingcounted > 0 THEN 1 ELSE 0)
      BY <1>1 DEF Inv, Counts, Ended
    <3>4. Cardinality(Users) = 0
      BY <2>2, <3>2, <3>3
    <3>5. Users = {}
      BY <3>2, <3>4, FS_EmptySet
    <3> QED BY <3>5, ClientFacts DEF Users
  <2>3. CASE taskcount # 0
    <3>1. taskrunqueue = <<>>
      BY <1>1, <2>1, <2>3 DEF taskscheduler, norunnable, runnext, dispatch
    <3>2. \A t \in Task : Off(t)
      BY <1>1, <3>1 DEF Off, Running, ToSet
    <3>3. ~startedfdtask
      BY <1>1, <3>2, ClientFacts DEF Inv, StartOK, Ended
    <3>4. sleeping = <<>> /\ ToSet(sleeping) = {} /\ \A t \in Client : pc[t] \in {"run", "io"}
      BY <1>1, <3>3 DEF Inv, StartOK, ToSet
    <3> QED BY <1>1, <3>2, <3>4, ClientFacts DEF Inv, LifeOK, Ended
  <2> QED BY <2>2, <2>3
<1>2. Inv /\ [Next]_vars
        => [control = "sched" /\ control' = "exited" => Client \subseteq gone \cup system]_vars
  BY <1>1
<1> QED BY <1>2, Invariance, PTL DEF Spec, EndsOnlyWhenDone

\* taskdelay does not return before its alarm.
THEOREM DelayCorrect == Spec => DelayAtLeast
<1>1. ASSUME Inv, Next, NEW t \in Client, pc[t] = "delay", pc'[t] = "run"
      PROVE  now >= alarmtime[t]
  <2>1. t \in Task /\ t # fdt /\ pc \in [Task -> {"run", "io", "fdwait", "delay", "start", "yield", "poll"}]
    BY <1>1, ClientFacts DEF Inv, FdTypeOK
  <2>2. ASSUME fdtask PROVE pc'[t] = pc[t]
    BY <2>1, <2>2 DEF fdtask, fdtaskstart, fdtaskyield, fdtaskpoll, fdtaskwake
  <2>3. ASSUME taskscheduler \/ fdtaskeintr \/ Kernel \/ Terminated PROVE pc'[t] = pc[t]
    BY <2>3 DEF taskscheduler, fdtaskeintr, Kernel, Terminated, vars
  <2>4. ASSUME NEW r \in Client, Step(r), r # t PROVE pc'[t] = pc[t]
    BY <2>1, <2>4 DEF Step, taskdelay, taskdelayresume, prepare_failed, iocall, waitcall,
       fdwait, fdwaitresume, doread, dowrite, ioreturn, ioagain, taskyield, tasksystem, taskexit
  <2>5. \E r \in Client : Step(r)
    BY <1>1, <2>2, <2>3 DEF Next, CPU
  <2>6. Step(t)
    BY <1>1, <2>4, <2>5
  <2>7. Running(t)
    BY <2>6 DEF Step, taskdelay, taskdelayresume, prepare_failed, iocall, waitcall,
       fdwaitresume, doread, dowrite, ioagain, taskyield, tasksystem, taskexit, Idle
  <2>8. t \notin ToSet(sleeping)
    BY <1>1, <2>7, RunningFacts
  <2> QED BY <1>1, <2>8 DEF Inv, SleepOK
<1>2. Inv /\ [Next]_vars
        => [\A t \in Client : pc[t] = "delay" /\ pc'[t] = "run" => now >= alarmtime[t]]_vars
  BY <1>1
<1> QED BY <1>2, Invariance, PTL DEF Spec, DelayAtLeast

-----------------------------------------------------------------------------
(***************************************************************************)
(* What the clients do with which descriptor.                              *)
(***************************************************************************)

\* The I/O call o is one of the uses of task t.
UseOf(t, o) == \E u \in Uses[t] : o.fd = u[1] /\ o.call = u[2] /\ o.rw = rwof(u[2])

UseOK ==
  \A t \in Task : /\ pc[t] \in {"io", "fdwait"} => UseOf(t, io[t])
                  /\ io[t] = NoIo \/ UseOf(t, io[t])

\* A step of task r puts it into the state p with the call o.
LEMMA UseStep ==
  ASSUME Inv, UseOK, NEW r \in Task, NEW p, NEW o,
         pc' = [pc EXCEPT ![r] = p], io' = [io EXCEPT ![r] = o],
         UseOf(r, o) \/ (p \notin {"io", "fdwait"} /\ (o = NoIo \/ o = io[r]))
  PROVE  UseOK'
<1>1. /\ pc'[r] = p /\ io'[r] = o
      /\ \A t \in Task : t # r => pc'[t] = pc[t] /\ io'[t] = io[t]
  BY DEF Inv, FdTypeOK
<1>2. ASSUME NEW t \in Task
      PROVE  /\ pc'[t] \in {"io", "fdwait"} => UseOf(t, io'[t])
             /\ io'[t] = NoIo \/ UseOf(t, io'[t])
  <2>1. CASE t = r
    <3>1. io[r] = NoIo \/ UseOf(r, io[r])
      BY DEF UseOK
    <3> QED BY <1>1, <2>1, <3>1
  <2>2. CASE t # r
    <3>1. pc'[t] = pc[t] /\ io'[t] = io[t]
      BY <1>1, <2>2
    <3> QED BY <3>1 DEF UseOK
  <2> QED BY <2>1, <2>2
<1> QED BY <1>2 DEF UseOK, UseOf

\* Every call in progress is a use of its client.
LEMMA UseNext ==
  ASSUME Inv, UseOK, [Next]_vars
  PROVE  UseOK'
<1>1. /\ io \in [Task -> Ios] /\ Client \subseteq Task /\ fdt \in Task
      /\ pc \in [Task -> {"run", "io", "fdwait", "delay", "start", "yield", "poll"}]
  BY ClientFacts DEF Inv, FdTypeOK
<1>2. ASSUME UNCHANGED <<pc, io>> PROVE UseOK'
  BY <1>2 DEF UseOK, UseOf
<1>3. ASSUME NEW r \in Task, NEW p \in {"run", "delay", "yield", "poll"},
             pc' = [pc EXCEPT ![r] = p], io' = io
      PROVE  UseOK'
  <2>1. io' = [io EXCEPT ![r] = io[r]]
    BY <1>1, <1>3
  <2> QED BY <1>3, <2>1, UseStep
<1>4. ASSUME taskscheduler \/ fdtaskeintr \/ Kernel \/ Terminated \/ UNCHANGED vars
      PROVE  UNCHANGED <<pc, io>>
  BY <1>4 DEF taskscheduler, fdtaskeintr, Kernel, Terminated, vars
<1>5. ASSUME fdtask PROVE UseOK'
  BY <1>1, <1>2, <1>3, <1>5 DEF fdtask, fdtaskstart, fdtaskyield, fdtaskpoll, fdtaskwake
<1>6. ASSUME NEW r \in Client, Step(r) PROVE UseOK'
  <2>1. ASSUME prepare_failed(r) \/ taskyield(r) \/ tasksystem(r) \/ taskexit(r) PROVE UseOK'
    BY <1>2, <2>1 DEF prepare_failed, taskyield, tasksystem, taskexit
  <2>2. ASSUME (\E ms \in Delays : taskdelay(r, ms)) \/ taskdelayresume(r) PROVE UseOK'
    <3>1. io' = io /\ (pc' = [pc EXCEPT ![r] = "delay"] \/ pc' = [pc EXCEPT ![r] = "run"])
      BY <2>2 DEF taskdelay, taskdelayresume
    <3> QED BY <1>1, <1>3, <3>1
  <2>3. ASSUME iocall(r) PROVE UseOK'
    <3>1. PICK u \in Uses[r] :
            /\ pc' = [pc EXCEPT ![r] = "io"]
            /\ io' = [io EXCEPT ![r] = [fd |-> u[1], rw |-> rwof(u[2]), call |-> u[2],
                                        left |-> IF u[2] = "fdwrite" THEN 2 ELSE 0]]
      BY <2>3 DEF iocall
    <3> DEFINE o == [fd |-> u[1], rw |-> rwof(u[2]), call |-> u[2],
                     left |-> IF u[2] = "fdwrite" THEN 2 ELSE 0]
    <3>2. UseOf(r, o)
      BY DEF UseOf
    <3>3. io' = [io EXCEPT ![r] = o]
      BY <3>1
    <3> HIDE DEF o
    <3> QED BY <1>1, <3>1, <3>2, <3>3, UseStep
  <2>4. ASSUME waitcall(r) PROVE UseOK'
    <3>1. PICK u \in Uses[r] :
            fdwait(r, [fd |-> u[1], rw |-> rwof(u[2]), call |-> u[2], left |-> 0])
      BY <2>4 DEF waitcall
    <3> DEFINE o == [fd |-> u[1], rw |-> rwof(u[2]), call |-> u[2], left |-> 0]
    <3>2. UseOf(r, o)
      BY DEF UseOf
    <3>3. io' = [io EXCEPT ![r] = o] /\ pc' = [pc EXCEPT ![r] = "fdwait"]
      BY <3>1 DEF fdwait
    <3> HIDE DEF o
    <3> QED BY <1>1, <3>2, <3>3, UseStep
  <2>5. ASSUME ioagain(r) PROVE UseOK'
    <3>1. pc[r] = "io" /\ io' = [io EXCEPT ![r] = io[r]] /\ pc' = [pc EXCEPT ![r] = "fdwait"]
      BY <2>5 DEF ioagain, fdwait
    <3>2. UseOf(r, io[r])
      BY <1>1, <3>1 DEF UseOK
    <3> QED BY <1>1, <3>1, <3>2, UseStep
  <2>6. ASSUME fdwaitresume(r) PROVE UseOK'
    <3>1. pc[r] = "fdwait" /\ UseOf(r, io[r])
      BY <1>1, <2>6 DEF fdwaitresume, UseOK
    <3>2. CASE pc' = [pc EXCEPT ![r] = "run"] /\ io' = [io EXCEPT ![r] = NoIo]
      BY <1>1, <3>2, UseStep
    <3>3. CASE pc' = [pc EXCEPT ![r] = "io"] /\ io' = io
      <4>1. io' = [io EXCEPT ![r] = io[r]]
        BY <1>1, <3>3
      <4> QED BY <1>1, <3>1, <3>3, <4>1, UseStep
    <3> QED BY <2>6, <3>2, <3>3 DEF fdwaitresume
  <2>7. ASSUME doread(r) \/ dowrite(r) PROVE UseOK'
    <3>1. pc[r] = "io" /\ UseOf(r, io[r])
      BY <1>1, <2>7 DEF doread, dowrite, UseOK
    <3>2. CASE ioreturn(r)
      BY <1>1, <3>2, UseStep DEF ioreturn
    <3>3. ASSUME NEW m, io' = [io EXCEPT ![r].left = @ - m], pc' = pc PROVE UseOK'
      <4> DEFINE o == [io[r] EXCEPT !.left = @ - m]
      <4>1. io' = [io EXCEPT ![r] = o]
        BY <3>3
      <4>2. pc' = [pc EXCEPT ![r] = "io"]
        BY <1>1, <3>1, <3>3
      <4>3. o.fd = io[r].fd /\ o.call = io[r].call /\ o.rw = io[r].rw
        BY <1>1 DEF Ios
      <4> HIDE DEF o
      <4>4. UseOf(r, o)
        BY <3>1, <4>3 DEF UseOf
      <4> QED BY <1>1, <4>1, <4>2, <4>4, UseStep
    <3> QED BY <2>7, <3>2, <3>3 DEF doread, dowrite
  <2> QED BY <1>6, <2>1, <2>2, <2>3, <2>4, <2>5, <2>6, <2>7 DEF Step
<1> QED BY <1>2, <1>4, <1>5, <1>6 DEF Next, CPU

LEMMA UseInvariance == Spec => [](Inv /\ UseOK)
<1>1. Init => Inv /\ UseOK
  <2>1. ASSUME Init PROVE UseOK
    BY <2>1, ClientFacts DEF Init, UseOK
  <2> QED BY <2>1, InitInv
<1>2. Inv /\ UseOK /\ [Next]_vars => (Inv /\ UseOK)'
  BY NextInv, UseNext
<1> QED BY <1>1, <1>2, PTL DEF Spec

\* taskcount and sleepingcounted are right at every moment.
THEOREM CountCorrect == Spec => []CountOK
<1>1. Inv /\ UseOK => CountOK
  <2> SUFFICES ASSUME Inv, UseOK PROVE CountOK
    OBVIOUS
  <2>1. io \in [Task -> [fd : Fd \cup {nil}, rw : {"r", "w", "e", nil},
                         call : Calls \cup {nil}, left : 0 .. 2]]
    <3>1. io \in [Task -> Ios]
      BY DEF Inv, FdTypeOK
    <3>2. ASSUME NEW t \in Task PROVE io[t].call \in Calls \cup {nil}
      <4>1. CASE io[t] = NoIo
        BY <4>1 DEF NoIo
      <4>2. CASE UseOf(t, io[t])
        BY <4>2, FdAssumption DEF UseOf
      <4> QED BY <4>1, <4>2 DEF UseOK
    <3>3. ASSUME NEW t \in Task
          PROVE  io[t] \in [fd : Fd \cup {nil}, rw : {"r", "w", "e", nil},
                            call : Calls \cup {nil}, left : 0 .. 2]
      BY <3>1, <3>2 DEF Ios
    <3> QED BY <3>1, <3>3
  <2> QED BY <2>1 DEF CountOK, TypeOK, Inv, FdTypeOK, Counts
<1> QED BY <1>1, UseInvariance, PTL

\* Nobody calls fdwait with another rw than 'r' and 'w'.
KnownModes == \A t \in Client : \A u \in Uses[t] : u[2] # "e"

\* No descriptor is used by two tasks.
OwnDescriptors ==
  \A s, t \in Client : \A u \in Uses[s], v \in Uses[t] : u[1] = v[1] => s = t

\* A task that has not exited is in exactly one place, or inside fdwait with a
\* registration of its own; and the epoll set holds nothing else.
LEMMA InOnePlace ==
  ASSUME Inv, UseOK, KnownModes
  PROVE  OnePlace
<1>1. QueueOK /\ IsInjective(sleeping) /\ SleepOK /\ LifeOK /\ RegOK
  BY DEF Inv, SleepOK
<1>2. ASSUME NEW t \in Client, pc[t] = "fdwait" PROVE Registers(t)
  <2>1. PICK u \in Uses[t] : io[t].rw = rwof(u[2])
    BY <1>2, ClientFacts DEF UseOK, UseOf
  <2>2. u[2] \in {"fdread", "fdread1", "fdwrite", "r", "w"}
    BY FdAssumption, ClientFacts DEF KnownModes, Calls
  <2>3. io[t].rw \in {"r", "w"}
    BY <2>1, <2>2 DEF rwof
  <2> QED BY <1>2, <2>3 DEF Registers, addedmask
<1>3. ASSUME NEW t \in Client \ gone, ~Ended
      PROVE  \/ Cardinality(Places(t)) = 1
             \/ /\ Places(t) = {} /\ pc[t] = "fdwait"
                /\ \E f \in Fd : reg[f] # nil /\ reg[f].ptr = t
  <2>1. t \in Client /\ t \in Task
    BY ClientFacts
  <2>2. t \in ToSet(sleeping) => Off(t)
    BY <1>1 DEF SleepOK
  <2>3. ~(t \in ToSet(taskrunqueue) /\ Running(t))
    BY <1>1 DEF QueueOK, Running
  <2>4. CASE t \in ToSet(taskrunqueue)
    <3>1. Places(t) = {"queue"}
      BY <2>2, <2>3, <2>4 DEF Places, Off
    <3> QED BY <3>1, FS_Singleton
  <2>5. CASE Running(t)
    <3>1. Places(t) = {"cpu"}
      BY <2>2, <2>3, <2>5 DEF Places, Off
    <3> QED BY <3>1, FS_Singleton
  <2>6. CASE t \in ToSet(sleeping)
    <3>1. Places(t) = {"sleeping"}
      BY <2>2, <2>6 DEF Places, Off
    <3> QED BY <3>1, FS_Singleton
  <2>7. CASE Off(t) /\ t \notin ToSet(sleeping)
    <3>1. Places(t) = {}
      BY <2>7 DEF Places, Off
    <3>2. pc[t] = "fdwait"
      BY <1>1, <1>3, <2>1, <2>7 DEF LifeOK
    <3>3. io[t].fd \in Fd /\ reg[io[t].fd] # nil /\ reg[io[t].fd].ptr = t
      BY <1>1, <1>2, <1>3, <2>1, <3>2 DEF RegOK
    <3> QED BY <3>1, <3>2, <3>3
  <2> QED BY <2>4, <2>5, <2>6, <2>7 DEF Off
<1>4. ~Ended => \A f \in Fd : reg[f] # nil =>
        pc[reg[f].ptr] = "fdwait" /\ io[reg[f].ptr].fd = f
  BY <1>1 DEF RegOK, Registers
<1> QED BY <1>1, <1>3, <1>4 DEF OnePlace

(* OnePlace: a suspended client is on the timer list or registered with epoll,   *)
(* on exactly one of the two and once, if every fdwait asks for 'r' or 'w'.      *)
THEOREM OnePlaceCorrect == KnownModes => (Spec => []OnePlace)
<1> SUFFICES ASSUME KnownModes PROVE Spec => []OnePlace
  OBVIOUS
<1>1. Inv /\ UseOK => OnePlace
  BY InOnePlace
<1> QED BY <1>1, UseInvariance, PTL

\* A step that ends the process: fdwait for a descriptor that is registered.
LEMMA OnlyFdtaskEnds ==
  ASSUME Inv, UseOK, OwnDescriptors, Next, control = "task", startedfdtask, Ended'
  PROVE  taskrunning = fdt
<1>1. ASSUME NEW r \in Client, NEW o, Running(r), pc[r] \in {"run", "io"},
             UseOf(r, o), fdwait(r, o)
      PROVE  FALSE
  <2>1. ~Ended /\ Client \subseteq Task
    BY <1>1, RunningFacts, ClientFacts
  <2>2. PICK u \in Uses[r] : o.fd = u[1]
    BY <1>1 DEF UseOf
  <2>3. reg[o.fd] # nil
    BY <1>1 DEF fdwait, taskswitch, Ended
  <2>4. o.fd \in Fd
    BY <2>1, <2>2, FdAssumption
  <2> DEFINE t == reg[o.fd].ptr
  <2>5. t \in Client /\ pc[t] = "fdwait" /\ io[t].fd = o.fd
    BY <2>1, <2>3, <2>4 DEF Inv, FdTypeOK, Registration, RegOK, Registers
  <2> HIDE DEF t
  <2>6. PICK v \in Uses[t] : io[t].fd = v[1]
    BY <2>1, <2>5 DEF UseOK, UseOf
  <2>7. t = r
    BY <2>2, <2>5, <2>6 DEF OwnDescriptors
  <2> QED BY <1>1, <2>5, <2>7
<1>2. ASSUME NEW r \in Client, Step(r) PROVE FALSE
  <2>1. Running(r) /\ r \in Task
    BY <1>2, ClientFacts DEF Step, taskdelay, taskdelayresume, prepare_failed, iocall, waitcall,
       fdwaitresume, doread, dowrite, ioagain, taskyield, tasksystem, taskexit, Idle
  <2>2. ASSUME waitcall(r) PROVE FALSE
    <3>1. PICK u \in Uses[r] :
            fdwait(r, [fd |-> u[1], rw |-> rwof(u[2]), call |-> u[2], left |-> 0])
      BY <2>2 DEF waitcall
    <3> DEFINE o == [fd |-> u[1], rw |-> rwof(u[2]), call |-> u[2], left |-> 0]
    <3>2. UseOf(r, o)
      BY DEF UseOf
    <3>3. fdwait(r, o) /\ pc[r] \in {"run", "io"}
      BY <2>2, <3>1 DEF waitcall, Idle
    <3> HIDE DEF o
    <3> QED BY <1>1, <2>1, <3>2, <3>3
  <2>3. ASSUME ioagain(r) PROVE FALSE
    <3>1. fdwait(r, io[r]) /\ pc[r] \in {"run", "io"} /\ pc[r] = "io"
      BY <2>3 DEF ioagain
    <3>2. UseOf(r, io[r])
      BY <2>1, <3>1 DEF UseOK
    <3> QED BY <1>1, <2>1, <3>1, <3>2
  <2>4. ASSUME fdwaitresume(r) PROVE FALSE
    <3>1. Registers(r) => reg[io[r].fd] # nil
      BY <2>1, RunningFacts DEF Inv, RegOK
    <3>2. control' = control
      BY <2>4, <3>1 DEF fdwaitresume, unregister, Registers
    <3> QED BY <3>2 DEF Ended
  <2>5. ~(\E ms \in Delays : taskdelay(r, ms)) /\ ~prepare_failed(r)
    BY DEF taskdelay, prepare_failed, taskswitch, Ended
  <2>6. ~taskdelayresume(r) /\ ~iocall(r) /\ ~doread(r) /\ ~dowrite(r)
    BY DEF taskdelayresume, iocall, doread, dowrite, schedvars, Ended
  <2>7. ~taskyield(r) /\ ~tasksystem(r) /\ ~taskexit(r)
    BY DEF taskyield, yieldcpu, tasksystem, taskexit, taskswitch, schedvars, Ended
  <2> QED BY <1>2, <2>2, <2>3, <2>4, <2>5, <2>6, <2>7 DEF Step
<1>3. ~taskscheduler /\ ~Kernel /\ ~Terminated
  <2>1. ~taskscheduler
    BY DEF taskscheduler, norunnable, runnext
  <2> QED BY <2>1 DEF Kernel, Terminated, vars, schedvars, Ended
<1>4. fdtask \/ fdtaskeintr
  BY <1>2, <1>3 DEF Next, CPU
<1> QED BY <1>4 DEF fdtask, fdtaskstart, fdtaskyield, fdtaskpoll, fdtaskwake, fdtaskeintr, Running

\* Once fdtask is started, a client that shares no descriptor with another does
\* not end the program by its I/O.
THEOREM IoCorrect == OwnDescriptors => (Spec => IoNeverFatal)
<1> SUFFICES ASSUME OwnDescriptors PROVE Spec => IoNeverFatal
  OBVIOUS
<1>1. Inv /\ UseOK /\ [Next]_vars
        => [control = "task" /\ startedfdtask /\ Ended' => taskrunning = fdt]_vars
  BY OnlyFdtaskEnds
<1> QED BY <1>1, UseInvariance, PTL DEF Spec, IoNeverFatal

-----------------------------------------------------------------------------
(***************************************************************************)
(* parseip.                                                                *)
(***************************************************************************)

\* Arithmetic that the classes and the counts rest on.
LEMMA ByteFacts ==
  ASSUME NEW x \in Nat
  PROVE  /\ x < 256 => x \in Byte
         /\ x < 192 => x \div 64 # 3
         /\ x > 0 => (IF x < 4 THEN x ELSE 4) \in 1 .. 4 /\ (IF x < 4 THEN x ELSE 4) <= x
  BY DEF Byte

LEMMA PartsFacts ==
  ASSUME NEW name \in Seq(Nat \cup {invalid}), Complete(name)
  PROVE  nparts(name) \in 1 .. 4 /\ Len(name) \in Nat /\ nparts(name) <= Len(name)
<1>1. Len(name) \in Nat /\ (name # <<>> => Len(name) > 0)
  OBVIOUS
<1>2. Len(name) > 0
  BY <1>1 DEF Complete
<1> QED BY <1>1, <1>2, ByteFacts, Zenon DEF nparts

\* How the switch treats a name that passed the loop.
LEMMA ParseipCases ==
  ASSUME NEW name \in Seq(Nat \cup {invalid}), Complete(name),
         NEW g, parseip(name, g) # invalid
  PROVE  LET i == nparts(name)
             b == [k \in 1 .. i |-> int(name[k])]
         IN  /\ i \in 1 .. 4
             /\ \A k \in 1 .. i : b[k] \in Byte
             /\ \E lead \in {1, 2} :
                  /\ i = 4 \/ lead < i
                  /\ parseip(name, g) =
                       [k \in 1 .. 4 |-> IF i = 4 \/ k <= lead THEN b[k]
                                         ELSE IF k <= lead + 4 - i THEN 0 ELSE b[k - 4 + i]]
<1> DEFINE i == nparts(name)
           a == addr(name, g)
           b == [k \in 1 .. i |-> int(name[k])]
           lead == IF CLASS(a) = 2 THEN 2 ELSE 1
<1>1. i \in 1 .. 4 /\ Len(name) \in Nat /\ i <= Len(name)
  BY PartsFacts
<1>2. \A k \in 1 .. i : ~badpart(name[k])
  BY DEF parseip
<1>3. \A k \in 1 .. i : name[k] \in Nat /\ int(name[k]) \in Nat /\ int(name[k]) < 256
  <2> TAKE k \in 1 .. i
  <2>1. k \in 1 .. Len(name)
    BY <1>1
  <2>2. name[k] \in Nat \cup {invalid}
    BY <2>1
  <2>3. name[k] # invalid /\ ~(int(name[k]) >= 256)
    BY <1>2 DEF badpart
  <2>4. name[k] \in Nat
    BY <2>2, <2>3
  <2>5. int(name[k]) \in Nat
    BY <2>4, ParseipAssumption DEF int
  <2> QED BY <2>3, <2>4, <2>5
<1>4. \A k \in 1 .. i : int(name[k]) \in Byte
  BY <1>3, ByteFacts, Zenon
<1>5. \A k \in 1 .. i : a[k] = int(name[k])
  BY <1>1 DEF addr
<1>6. a[1] = int(name[1]) /\ a[1] \in Byte
  BY <1>1, <1>4, <1>5
<1>7. i = 4 \/ CLASS(a) # 3
  <2>1. CASE Len(name) >= 4
    BY <1>1, <2>1 DEF nparts
  <2>2. CASE ~(Len(name) >= 4)
    <3>1. name[1] \in Nat
      BY <1>1, <1>3
    <3>2. int(name[1]) < 192
      BY <2>2, <3>1, ParseipAssumption DEF Complete
    <3>3. a[1] \in Nat /\ a[1] < 192
      BY <1>1, <1>3, <1>6, <3>2
    <3>4. a[1] \div 64 # 3
      BY <3>3, ByteFacts, Zenon
    <3> QED BY <3>4 DEF CLASS
  <2> QED BY <2>1, <2>2
<1>8. parseip(name, g) = IF i = 4 THEN a ELSE expand(a, i, lead)
  BY <1>2, <1>7 DEF parseip
<1>9. i = 4 \/ lead < i
  BY <1>1, <1>2, <1>7 DEF parseip
<1>10. lead \in {1, 2}
  OBVIOUS
<1> HIDE DEF lead, b, i
<1>11. \A k \in 1 .. i : b[k] = a[k]
  BY <1>5 DEF b, i
<1>12. i = 4 => a = [k \in 1 .. 4 |-> b[k]]
  BY <1>11 DEF addr
<1>13. i # 4 => expand(a, i, lead) =
         [k \in 1 .. 4 |-> IF k <= lead THEN b[k] ELSE IF k <= lead + 4 - i THEN 0 ELSE b[k - 4 + i]]
  BY <1>1, <1>9, <1>10, <1>11 DEF expand
<1>14. parseip(name, g) =
         [k \in 1 .. 4 |-> IF i = 4 \/ k <= lead THEN b[k]
                           ELSE IF k <= lead + 4 - i THEN 0 ELSE b[k - 4 + i]]
  BY <1>8, <1>12, <1>13
<1>15. \A k \in 1 .. i : b[k] \in Byte
  BY <1>4 DEF b
<1> QED BY <1>1, <1>9, <1>10, <1>14, <1>15 DEF b, i

\* The address of a name of four parts or more, or of class A or B, is read
\* from the name alone: the uninitialised bytes of addr[] never get into it,
\* and do not decide whether the name is accepted.
THEOREM ParseipDetermined ==
  ASSUME NEW name \in Seq(Nat \cup {invalid}), Complete(name), NEW g, NEW h
  PROVE  parseip(name, g) = parseip(name, h)
<1> DEFINE i == nparts(name)
           a == addr(name, g)
           c == addr(name, h)
<1>1. CASE \E k \in 1 .. i : badpart(name[k])
  BY <1>1 DEF parseip
<1>2. CASE ~ \E k \in 1 .. i : badpart(name[k])
  <2>1. i \in 1 .. 4 /\ Len(name) \in Nat
    BY PartsFacts
  <2>2. \A k \in 1 .. i : a[k] = c[k]
    BY <2>1 DEF addr
  <2>3. a[1] = c[1] /\ CLASS(a) = CLASS(c)
    BY <2>1, <2>2 DEF CLASS
  <2>4. i = 4 => a = c
    BY <2>2 DEF addr
  <2>5. i = 4 \/ CLASS(a) # 3
    <3>1. CASE Len(name) >= 4
      BY <2>1, <3>1 DEF nparts
    <3>2. CASE ~(Len(name) >= 4)
      <4>1. name[1] # invalid /\ ~(int(name[1]) >= 256)
        BY <1>2, <2>1 DEF badpart
      <4>2. name[1] \in Nat
        <5>1. 1 \in 1 .. Len(name)
          BY <2>1, <3>2 DEF nparts
        <5>2. name[1] \in Nat \cup {invalid}
          BY <5>1
        <5> QED BY <4>1, <5>2
      <4>3. int(name[1]) \in Nat /\ int(name[1]) < 192
        BY <3>2, <4>1, <4>2, ParseipAssumption DEF Complete, int
      <4>4. a[1] = int(name[1])
        BY <2>1 DEF addr
      <4>5. a[1] \div 64 # 3
        BY <4>3, <4>4
      <4> QED BY <4>5 DEF CLASS
    <3> QED BY <3>1, <3>2
  <2> DEFINE lead == IF CLASS(a) = 2 THEN 2 ELSE 1
  <2>6. i # 4 /\ lead < i => expand(a, i, lead) = expand(c, i, lead)
    BY <2>1, <2>2 DEF expand
  <2>7. lead \in {1, 2} /\ (~(i <= lead) => lead < i)
    BY <2>1
  <2>8. parseip(name, g) = IF i = 4 THEN a ELSE IF i <= lead THEN invalid ELSE expand(a, i, lead)
    BY <1>2, <2>5 DEF parseip
  <2>9. parseip(name, h) = IF i = 4 THEN c ELSE IF i <= lead THEN invalid ELSE expand(c, i, lead)
    BY <1>2, <2>3, <2>5 DEF parseip
  <2> HIDE DEF lead, i, a, c
  <2> QED BY <2>4, <2>6, <2>7, <2>8, <2>9
<1> QED BY <1>1, <1>2

\* An address that parseip reads from such a name is four bytes, and it is the
\* one the name stands for: its parts in order, the first and the last part at
\* the two ends, zeros between.
THEOREM ParseipStands ==
  ASSUME NEW name \in Seq(Nat \cup {invalid}), Complete(name),
         NEW g, parseip(name, g) # invalid
  PROVE  /\ parseip(name, g) \in [1 .. 4 -> Byte]
         /\ Stands(name, parseip(name, g))
<1> DEFINE i == nparts(name)
           b == [k \in 1 .. i |-> int(name[k])]
           a == parseip(name, g)
<1>1. i \in 1 .. 4 /\ \A k \in 1 .. i : b[k] \in Byte
  BY ParseipCases
<1>2. PICK lead \in {1, 2} :
        /\ i = 4 \/ lead < i
        /\ a = [k \in 1 .. 4 |-> IF i = 4 \/ k <= lead THEN b[k]
                                 ELSE IF k <= lead + 4 - i THEN 0 ELSE b[k - 4 + i]]
  BY ParseipCases
<1>3. \A k \in 1 .. i : b[k] = int(name[k])
  OBVIOUS
<1> HIDE DEF a, b, i
<1> DEFINE s == [j \in 1 .. i |-> IF i = 4 \/ j <= lead THEN j ELSE j + 4 - i]
<1>4. a \in [1 .. 4 -> Byte]
  <2>1. 0 \in Byte
    BY DEF Byte
  <2>2. \A k \in 1 .. 4 : i = 4 \/ k <= lead => k \in 1 .. i
    BY <1>1, <1>2
  <2>3. \A k \in 1 .. 4 : ~(i = 4 \/ k <= lead) /\ ~(k <= lead + 4 - i) => k - 4 + i \in 1 .. i
    BY <1>1, <1>2
  <2> QED BY <1>1, <1>2, <2>1, <2>2, <2>3
<1>5. s \in [1 .. i -> 1 .. 4]
  BY <1>1, <1>2
<1>6. s[1] = 1 /\ s[i] = 4
  BY <1>1, <1>2
<1>7. \A j, k \in 1 .. i : j < k => s[j] < s[k]
  BY <1>1, <1>2
<1>8. \A j \in 1 .. i : a[s[j]] = int(name[j])
  <2> TAKE j \in 1 .. i
  <2>1. CASE i = 4 \/ j <= lead
    BY <1>1, <1>2, <1>3, <2>1
  <2>2. CASE ~(i = 4 \/ j <= lead)
    <3>1. s[j] = j + 4 - i /\ s[j] \in 1 .. 4 /\ ~(s[j] <= lead + 4 - i) /\ s[j] - 4 + i = j
      BY <1>1, <1>2, <2>2
    <3>2. ~(s[j] <= lead)
      BY <1>1, <1>2, <2>2, <3>1
    <3> HIDE DEF s
    <3>3. a[s[j]] = b[s[j] - 4 + i]
      BY <1>2, <2>2, <3>1, <3>2
    <3> QED BY <1>3, <3>1, <3>3
  <2> QED BY <2>1, <2>2
<1>9. \A k \in 1 .. 4 : (\A j \in 1 .. i : s[j] # k) => a[k] = 0
  <2> SUFFICES ASSUME NEW k \in 1 .. 4, \A j \in 1 .. i : s[j] # k PROVE a[k] = 0
    OBVIOUS
  <2>1. ~(i = 4 \/ k <= lead)
    <3>1. SUFFICES ASSUME i = 4 \/ k <= lead PROVE FALSE
      OBVIOUS
    <3>2. k \in 1 .. i /\ s[k] = k
      BY <1>1, <1>2, <3>1
    <3> QED BY <3>2
  <2>2. k <= lead + 4 - i
    <3>1. SUFFICES ASSUME ~(k <= lead + 4 - i) PROVE FALSE
      OBVIOUS
    <3>2. k - 4 + i \in 1 .. i /\ s[k - 4 + i] = k
      BY <1>1, <1>2, <2>1, <3>1
    <3> QED BY <3>2
  <2> QED BY <1>2, <2>1, <2>2
<1> HIDE DEF s
<1> QED BY <1>4, <1>5, <1>6, <1>7, <1>8, <1>9 DEF Stands, a, i

\* Whatever the name, parseip answers -1 or stores four bytes, if there were
\* bytes in addr[] before.
LEMMA ParseipType ==
  ASSUME NEW name \in Seq(Nat \cup {invalid}), NEW g \in [1 .. 4 -> Byte],
         parseip(name, g) # invalid
  PROVE  parseip(name, g) \in [1 .. 4 -> Byte]
<1> DEFINE i == nparts(name)
           a == addr(name, g)
           lead == IF CLASS(a) = 2 THEN 2 ELSE 1
<1>1. i \in 0 .. 4 /\ Len(name) \in Nat /\ i <= Len(name)
  <2>1. Len(name) \in Nat
    OBVIOUS
  <2>2. \A n \in Nat : (IF n < 4 THEN n ELSE 4) \in 0 .. 4 /\ (IF n < 4 THEN n ELSE 4) <= n
    OBVIOUS
  <2> QED BY <2>1, <2>2, Zenon DEF nparts
<1>2. \A k \in 1 .. i : ~badpart(name[k])
  BY DEF parseip
<1>3. ASSUME NEW k \in 1 .. i PROVE int(name[k]) \in Byte
  <2>1. k \in 1 .. Len(name)
    BY <1>1
  <2>2. name[k] \in Nat \cup {invalid}
    BY <2>1
  <2>3. name[k] # invalid /\ ~(int(name[k]) >= 256)
    BY <1>2 DEF badpart
  <2>4. name[k] \in Nat
    BY <2>2, <2>3
  <2>5. int(name[k]) \in Nat /\ int(name[k]) < 256
    BY <2>3, <2>4, ParseipAssumption DEF int
  <2> QED BY <2>5, ByteFacts, Zenon
<1>4. a \in [1 .. 4 -> Byte]
  BY <1>1, <1>3 DEF addr
<1>5. parseip(name, g) = a \/ (lead < i /\ parseip(name, g) = expand(a, i, lead))
  BY <1>1, <1>2 DEF parseip
<1>6. lead \in {1, 2}
  OBVIOUS
<1> HIDE DEF lead, a, i
<1>7. lead < i => expand(a, i, lead) \in [1 .. 4 -> Byte]
  <2>1. 0 \in Byte
    BY DEF Byte
  <2>2. \A k \in 1 .. 4 : lead < i /\ ~(k <= lead) /\ ~(k <= lead + 4 - i) => k - 4 + i \in 1 .. 4
    BY <1>1, <1>6
  <2> QED BY <1>4, <2>1, <2>2 DEF expand
<1> QED BY <1>4, <1>5, <1>7

\* What netlookup may store for a name: bytes or an answer of gethostbyname,
\* and the bytes the name stands for, where it says so.
LEMMA LookupFacts ==
  ASSUME NEW name \in Names, NEW x \in netlookup(name) \ {invalid}
  PROVE  /\ x \in [1 .. 4 -> Byte] \cup {hostaddr}
         /\ Complete(name) => x = hostaddr \/ Stands(name, x)
<1>1. name \in Seq(Nat \cup {invalid}) /\ x # invalid
  BY NetAssumption
<1>2. PICK g \in Garbage :
         x \in IF parseip(name, g) = invalid THEN {hostaddr, invalid} ELSE {parseip(name, g)}
  BY DEF netlookup
<1>3. g \in [1 .. 4 -> Byte]
  BY NetAssumption
<1>4. CASE parseip(name, g) = invalid
  BY <1>1, <1>2, <1>4
<1>5. CASE parseip(name, g) # invalid
  <2>1. x = parseip(name, g)
    BY <1>2, <1>5
  <2>2. x \in [1 .. 4 -> Byte]
    BY <1>1, <1>3, <1>5, <2>1, ParseipType
  <2>3. Complete(name) => Stands(name, x)
    BY <1>1, <1>5, <2>1, ParseipStands
  <2> QED BY <2>2, <2>3
<1> QED BY <1>4, <1>5

-----------------------------------------------------------------------------
(***************************************************************************)
(* The invariant.                                                          *)
(***************************************************************************)

InCall(r) == pc[r] \in {"io", "fdwait"}

\* A client inside fdwait or behind it is in netdial or netaccept, and which
\* one decides how it holds the descriptor.
CallOK ==
  \A r \in Client :
    /\ dial[r] # nil => InCall(r) /\ io[r].call = "netdial" /\ io[r].rw = "w"
    /\ InCall(r) /\ dial[r] = nil =>
         io[r].call = "netaccept" /\ io[r].rw = "r" /\ owner[io[r].fd] = r

\* An open socket has one holder, and nothing can be read from or written to
\* one that is closed or not yet decided.
SockOK ==
  \A f \in Fd :
    /\ sock[f] # nil <=> owner[f] # nil \/ Dialing(f)
    /\ ~(owner[f] # nil /\ Dialing(f))
    /\ sock[f] \in {nil, "connecting"} => avail[f] = {}

\* The address that netdial uses for its name.
AddrOK(d) ==
  Complete(d.name) => d.addr = hostaddr \/ Stands(d.name, d.addr)

\* A netdial has a socket of its own, and is woken only when that is decided.
DialOK ==
  \A r \in Client : dial[r] # nil =>
    /\ sock[io[r].fd] \in {"connecting"} \cup Decided
    /\ pc[r] = "io" \/ ~Off(r) => sock[io[r].fd] \in Decided
    /\ AddrOK(dial[r])
    /\ \A s \in Client : dial[s] # nil /\ io[s].fd = io[r].fd => s = r

NetInv == Inv /\ NetTypeOK /\ CallOK /\ SockOK /\ DialOK

Errnos == {"none", "EINPROGRESS", "ETIMEDOUT", "ECONNREFUSED", "EOTHER"}

LEMMA NetInitInv == NetInit => NetInv
<1> SUFFICES ASSUME NetInit PROVE NetInv
  OBVIOUS
<1>1. Inv
  BY InitInv DEF NetInit
<1>2. \A r \in Client : dial[r] = nil /\ pc[r] = "run"
  BY ClientFacts DEF NetInit, Init
<1>3. \A f \in Fd : sock[f] = nil /\ owner[f] = nil /\ avail[f] = {}
  BY DEF NetInit, Init
<1>4. NetTypeOK
  BY DEF NetInit, NetTypeOK
<1>5. CallOK /\ SockOK /\ DialOK
  BY <1>2, <1>3 DEF CallOK, InCall, SockOK, Dialing, DialOK
<1> QED BY <1>1, <1>4, <1>5 DEF NetInv

-----------------------------------------------------------------------------
(***************************************************************************)
(* Steps that leave the sockets alone.                                     *)
(***************************************************************************)

\* Client t stays in its call, or returns from fdwait into it; and it is woken
\* in netdial only for a decided socket.
Follows(t) ==
  /\ io'[t] = io[t]
  /\ pc'[t] = pc[t] \/ (pc[t] = "fdwait" /\ pc'[t] = "io" /\ ~Off(t))
  /\ dial[t] # nil /\ ~Off(t)' => ~Off(t) \/ sock[io[t].fd] \in Decided

LEMMA NetQuiet ==
  ASSUME NetInv, Inv', UNCHANGED <<sock, soerror, owner, dial, avail>>, errno' \in Errnos,
         \A t \in Client : Follows(t)
  PROVE  NetInv'
<1>1. NetTypeOK'
  BY DEF NetInv, NetTypeOK, Errnos
<1>2. CallOK'
  BY DEF NetInv, CallOK, InCall, Follows
<1>3. \A f \in Fd : Dialing(f)' <=> Dialing(f)
  BY DEF Dialing, Follows
<1>4. SockOK'
  BY <1>3 DEF NetInv, SockOK
<1>5. DialOK'
  <2>1. ASSUME NEW r \in Client, dial[r] # nil
        PROVE  /\ sock[io[r].fd] \in {"connecting"} \cup Decided
               /\ AddrOK(dial[r])
               /\ \A s \in Client : dial[s] # nil /\ io[s].fd = io[r].fd => s = r
               /\ pc'[r] = "io" \/ ~Off(r)' => sock[io[r].fd] \in Decided
    <3>1. Follows(r)
      OBVIOUS
    <3> QED BY <2>1, <3>1 DEF NetInv, DialOK, Follows
  <2>2. \A r \in Client : io'[r] = io[r]
    BY DEF Follows
  <2> QED BY <2>1, <2>2 DEF DialOK, AddrOK
<1> QED BY <1>1, <1>2, <1>4, <1>5 DEF NetInv

\* What all these steps have to show of a client.
LEMMA FollowsFacts ==
  ASSUME NEW t \in Client, io'[t] = io[t], pc'[t] = pc[t], ~Off(t)' => ~Off(t)
  PROVE  Follows(t)
  BY DEF Follows

\* The scheduler.
LEMMA NetSchedulerInv ==
  ASSUME NetInv, taskscheduler, UNCHANGED netvars
  PROVE  NetInv'
<1>1. Inv /\ Inv'
  BY SchedulerInv DEF NetInv
<1>2. /\ UNCHANGED <<sock, soerror, owner, dial, avail>> /\ errno' \in Errnos
      /\ pc' = pc /\ io' = io
  BY DEF taskscheduler, netvars, kernelvars, NetInv, NetTypeOK, Errnos
<1>3. \A t \in Client : ~Off(t)' => ~Off(t)
  <2>1. CASE control' = "exited" /\ taskrunqueue' = taskrunqueue
    BY <2>1 DEF Off, Running
  <2>2. ASSUME NEW u \in Task, dispatch(u)
        PROVE  \A t \in Client : ~Off(t)' => ~Off(t)
    <3>1. SchedTypeOK /\ QueueOK
      BY <1>1 DEF Inv, FdTypeOK
    <3>2. u \in ToSet(taskrunqueue) /\ ToSet(taskrunqueue') = ToSet(taskrunqueue) \ {u}
      BY <2>2, <3>1, DispatchQueue
    <3>3. taskrunning' = u
      BY <2>2 DEF dispatch
    <3> QED BY <3>2, <3>3 DEF Off, Running
  <2> QED BY <2>1, <2>2 DEF taskscheduler, norunnable, runnext
<1>4. \A t \in Client : Follows(t)
  BY <1>2, <1>3, FollowsFacts
<1> QED BY <1>1, <1>2, <1>4, NetQuiet

\* A task that yields its CPU is queued, and no other.
LEMMA YieldsOff ==
  ASSUME Inv, NEW r \in Task, Running(r), yieldcpu(r)
  PROVE  \A t \in Client : t # r => (~Off(t)' => ~Off(t))
<1>1. SchedTypeOK /\ QueueOK /\ r \notin ToSet(taskrunqueue)
  BY DEF Inv, FdTypeOK, QueueOK, Running
<1>2. ToSet(taskrunqueue') = ToSet(taskrunqueue) \cup {r}
  BY <1>1, ReadyQueue DEF yieldcpu
<1>3. control' = "sched"
  BY DEF yieldcpu, taskswitch
<1> QED BY <1>2, <1>3 DEF Off, Running

\* The first steps of fdtask, its yields and its polls.
LEMMA NetFdtaskInv ==
  ASSUME NetInv, fdtaskstart \/ fdtaskyield \/ fdtaskpoll,
         UNCHANGED <<sock, soerror, owner, dial>>, errno' \in Errnos
  PROVE  NetInv'
<1>1. Inv /\ Inv'
  BY FdtaskstartInv, FdtaskyieldInv, FdtaskpollInv DEF NetInv
<1>2. avail' = avail /\ io' = io /\ Running(fdt)
  BY DEF fdtaskstart, fdtaskyield, fdtaskpoll, kernelvars
<1>3. pc \in [Task -> {"run", "io", "fdwait", "delay", "start", "yield", "poll"}]
  BY <1>1 DEF Inv, FdTypeOK
<1>4. \A t \in Client : pc'[t] = pc[t]
  BY <1>3, ClientFacts DEF fdtaskstart, fdtaskyield, fdtaskpoll
<1>5. \A t \in Client : ~Off(t)' => ~Off(t)
  <2>1. CASE yieldcpu(fdt)
    BY <1>1, <1>2, <2>1, YieldsOff, ClientFacts
  <2>2. CASE UNCHANGED schedvars
    BY <2>2 DEF schedvars, Off, Running
  <2> QED BY <2>1, <2>2 DEF fdtaskstart, fdtaskyield, fdtaskpoll
<1>6. \A t \in Client : Follows(t)
  BY <1>2, <1>4, <1>5, FollowsFacts
<1> QED BY <1>1, <1>2, <1>6, NetQuiet

\* Whom the end of epoll_wait readies: sleepers, and clients in fdwait whose
\* descriptor can do something.
LEMMA WakeFacts ==
  ASSUME Inv, fdtaskwake, NEW t \in Client, ~Off(t)'
  PROVE  pc[t] = "delay" \/ (pc[t] = "fdwait" /\ io[t].fd \in Fd /\ avail[io[t].fd] # {})
<1> DEFINE late == SubSeq(sleeping, 1, expired)
<1>1. Running(fdt) /\ pc[fdt] = "poll" /\ control' = "sched"
  BY DEF fdtaskwake, taskswitch
<1>2. PICK fs \in SUBSET Reported : \E evs \in SetToSeqs(fs) :
         taskreadyeach([ i \in DOMAIN evs |-> reg[evs[i]].ptr ] \o late \o <<fdt>>)
  BY DEF fdtaskwake
<1>3. PICK evs \in SetToSeqs(fs) :
         taskreadyeach([ i \in DOMAIN evs |-> reg[evs[i]].ptr ] \o late \o <<fdt>>)
  BY <1>2
<1> DEFINE e == [ i \in DOMAIN evs |-> reg[evs[i]].ptr ]
           m == e \o late
           up == addtask(m, fdt)
<1>4. ~Ended /\ fdt \in Task /\ Client \subseteq Task /\ t # fdt
  BY <1>1, FdtaskFacts
<1>5. late \in Seq(Client) /\ ToSet(late) \subseteq ToSet(sleeping)
  <2>1. expired \in 0 .. Len(sleeping) /\ sleeping \in Seq(Client)
    BY ExpiredFacts DEF Inv, FdTypeOK
  <2> QED BY <2>1, CutFacts
<1>6. e \in Seq(Client)
  BY <1>4, EventFacts
<1>7. \A x \in ToSet(e) : pc[x] = "fdwait" /\ io[x].fd \in Fd /\ avail[io[x].fd] # {}
  <2>1. IsFiniteSet(fs) /\ fs \in SUBSET Fd
    BY FdAssumption, FS_Subset DEF Reported
  <2>2. evs \in Seq(fs)
    BY <2>1, InitQueue
  <2>3. DOMAIN e = DOMAIN evs /\ \A i \in DOMAIN evs : e[i] = reg[evs[i]].ptr /\ evs[i] \in fs
    BY <2>2, LenProperties
  <2>4. \A f \in fs : reg[f] # nil /\ avail[f] # {}
    BY DEF Reported
  <2>5. \A f \in fs : pc[reg[f].ptr] = "fdwait" /\ io[reg[f].ptr].fd = f
    BY <1>4, <2>1, <2>4 DEF Inv, RegOK, Registers
  <2> HIDE DEF e
  <2>6. ASSUME NEW x \in ToSet(e)
        PROVE  pc[x] = "fdwait" /\ io[x].fd \in Fd /\ avail[io[x].fd] # {}
    <3>1. PICK i \in DOMAIN evs : x = reg[evs[i]].ptr /\ evs[i] \in fs
      BY <2>3 DEF ToSet
    <3> QED BY <2>1, <2>4, <2>5, <3>1
  <2> QED BY <2>6
<1> HIDE DEF e, late
<1>8. m \in Seq(Task) /\ ToSet(m) = ToSet(e) \cup ToSet(late)
  <2>1. m \in Seq(Client) /\ ToSet(m) = ToSet(e) \cup ToSet(late)
    BY <1>5, <1>6, ConcatFacts
  <2> QED BY <1>4, <2>1, SeqMonotonic
<1>9. taskreadyeach(m \o <<fdt>>)
  BY <1>3 DEF e, late
<1> HIDE DEF m
<1>10. m \o <<fdt>> = up /\ up \in Seq(Task) /\ ToSet(up) = ToSet(m) \cup {fdt}
  BY <1>4, <1>8, AddTaskFacts, AppendIsConcat DEF addtask
<1> HIDE DEF up
<1>11. taskrunqueue' = up
  <2>1. taskrunqueue = <<>>
    BY <1>1 DEF Inv, PollOK
  <2>2. taskrunqueue' = taskrunqueue \o up
    BY <1>9, <1>10 DEF taskreadyeach
  <2> QED BY <1>10, <2>1, <2>2
<1>12. t \in ToSet(e) \cup ToSet(late)
  <2>1. t \in ToSet(taskrunqueue')
    BY <1>1 DEF Off, Running
  <2> QED BY <1>4, <1>8, <1>10, <1>11, <2>1
<1>13. \A x \in ToSet(late) : pc[x] = "delay"
  BY <1>5 DEF Inv, SleepOK
<1> QED BY <1>7, <1>12, <1>13

\* A netdial is woken only when its socket is decided: a socket that is still
\* connecting has nothing to report.
LEMMA NetWakeInv ==
  ASSUME NetInv, fdtaskwake, UNCHANGED netvars
  PROVE  NetInv'
<1>1. Inv /\ Inv' /\ CallOK /\ SockOK /\ DialOK
  BY FdtaskwakeInv DEF NetInv
<1>2. /\ UNCHANGED <<sock, soerror, owner, dial, avail>> /\ errno' \in Errnos
      /\ io' = io /\ pc' = [pc EXCEPT ![fdt] = "yield"]
  BY DEF fdtaskwake, netvars, kernelvars, NetInv, NetTypeOK, Errnos
<1>3. pc \in [Task -> {"run", "io", "fdwait", "delay", "start", "yield", "poll"}]
  BY <1>1 DEF Inv, FdTypeOK
<1>4. \A t \in Client : pc'[t] = pc[t]
  BY <1>2, <1>3, ClientFacts
<1>5. ASSUME NEW t \in Client, dial[t] # nil, ~Off(t)'
      PROVE  sock[io[t].fd] \in Decided
  <2>1. pc[t] \in {"io", "fdwait"}
    BY <1>1, <1>5 DEF CallOK, InCall
  <2>2. io[t].fd \in Fd /\ avail[io[t].fd] # {}
    BY <1>1, <1>5, <2>1, WakeFacts
  <2>3. sock[io[t].fd] \in {"connecting"} \cup Decided
    BY <1>1, <1>5 DEF DialOK
  <2> QED BY <1>1, <2>2, <2>3 DEF SockOK
<1>6. \A t \in Client : Follows(t)
  BY <1>2, <1>4, <1>5 DEF Follows
<1> QED BY <1>1, <1>2, <1>6, NetQuiet

\* Clients: the end of fdwait, and calls that have nothing to do with the network.
LEMMA NetClientInv ==
  ASSUME NetInv, UNCHANGED netvars, NEW r \in Client,
         fdwaitresume(r) \/ prepare_failed(r) \/ taskyield(r) \/ taskexit(r)
  PROVE  NetInv'
<1>1. Inv /\ Inv' /\ CallOK
  BY WaitEnds, PrepareFailedInv, YieldInv, ExitInv DEF NetInv
<1>2. /\ UNCHANGED <<sock, soerror, owner, dial>> /\ errno' \in Errnos
  BY DEF netvars, NetInv, NetTypeOK, Errnos
<1>3. avail' = avail
  BY DEF fdwaitresume, prepare_failed, taskyield, taskexit, kernelvars
<1>4. /\ pc \in [Task -> {"run", "io", "fdwait", "delay", "start", "yield", "poll"}]
      /\ r \in Task /\ Client \subseteq Task
  BY <1>1, ClientFacts DEF Inv, FdTypeOK
<1>5. ASSUME fdwaitresume(r) PROVE \A t \in Client : Follows(t)
  <2>1. Running(r) /\ pc[r] = "fdwait" /\ taskrunqueue' = taskrunqueue /\ taskrunning' = taskrunning
    BY <1>5 DEF fdwaitresume
  <2>2. io[r].call \in {"netaccept", "netdial"}
    BY <1>1, <2>1 DEF CallOK, InCall
  <2>3. pc' = [pc EXCEPT ![r] = "io"] /\ io' = io
    BY <1>5, <2>2 DEF fdwaitresume
  <2>4. \A t \in Client : ~Off(t)' => ~Off(t)
    <3>1. control' \in {control, "exited"}
      BY <1>5 DEF fdwaitresume, unregister
    <3> QED BY <2>1, <3>1 DEF Off, Running
  <2>5. ~Off(r)
    BY <2>1 DEF Off
  <2> QED BY <1>4, <2>1, <2>3, <2>4, <2>5 DEF Follows
<1>6. ASSUME prepare_failed(r) \/ taskexit(r) PROVE \A t \in Client : Follows(t)
  <2>1. pc' = pc /\ io' = io /\ taskrunqueue' = taskrunqueue /\ control' # "task"
    BY <1>6 DEF prepare_failed, taskexit, taskswitch
  <2>2. \A t \in Client : ~Off(t)' => ~Off(t)
    BY <2>1 DEF Off, Running
  <2> QED BY <2>1, <2>2, FollowsFacts
<1>7. ASSUME taskyield(r) PROVE \A t \in Client : Follows(t)
  <2>1. pc' = pc /\ io' = io /\ pc[r] = "run" /\ Running(r) /\ yieldcpu(r)
    BY <1>7 DEF taskyield, Idle
  <2>2. dial[r] = nil
    BY <1>1, <2>1 DEF CallOK, InCall
  <2>3. \A t \in Client : t # r => (~Off(t)' => ~Off(t))
    BY <1>1, <1>4, <2>1, YieldsOff
  <2> QED BY <2>1, <2>2, <2>3 DEF Follows
<1> QED BY <1>1, <1>2, <1>3, <1>5, <1>6, <1>7, NetQuiet

\* A signal, and steps that change nothing.
LEMMA NetStutterInv ==
  ASSUME NetInv, fdtaskeintr \/ UNCHANGED vars, UNCHANGED <<sock, soerror, owner, dial>>,
         errno' \in Errnos
  PROVE  NetInv'
<1>1. Inv /\ Inv'
  BY FdtaskeintrInv, StutterInv DEF NetInv
<1>2. /\ taskrunqueue' = taskrunqueue /\ taskrunning' = taskrunning
      /\ control' \in {control, "exited"}
      /\ avail' = avail /\ io' = io /\ pc' = pc
  BY DEF fdtaskeintr, vars, schedvars, kernelvars
<1>3. \A t \in Client : ~Off(t)' => ~Off(t)
  BY <1>2 DEF Off, Running
<1>4. \A t \in Client : Follows(t)
  BY <1>2, <1>3, FollowsFacts
<1> QED BY <1>1, <1>2, <1>4, NetQuiet

-----------------------------------------------------------------------------
(***************************************************************************)
(* The network, and the calls that open, hand out and close sockets.       *)
(***************************************************************************)

LEMMA SockValues ==
  /\ nil # "connecting" /\ nil # "listening" /\ nil # "bound" /\ nil # "connected" /\ nil # "dead"
  /\ nil \notin Client /\ \A r \in Client : r # nil
  BY NetAssumption, TaskAssumption DEF SockState, Decided, Client

LEMMA NetworkInv ==
  ASSUME NetInv, Network
  PROVE  NetInv'
<1>1. Inv /\ NetTypeOK /\ CallOK /\ SockOK /\ DialOK /\ avail \in [Fd -> SUBSET {"in", "out", "hup"}]
  BY DEF NetInv, Inv, FdTypeOK
<1>2. PICK f \in Fd :
        \/ /\ sock[f] = "connecting"
           /\ sock' = [sock EXCEPT ![f] = "connected"]
           /\ avail' = [avail EXCEPT ![f] = {"out"}]
           /\ UNCHANGED soerror
        \/ /\ sock[f] \in {"connecting", "connected"}
           /\ sock' = [sock EXCEPT ![f] = "dead"]
           /\ avail' = [avail EXCEPT ![f] = {"in", "out", "hup"}]
           /\ \E e \in {"none", "ETIMEDOUT"} : soerror' = [soerror EXCEPT ![f] = e]
        \/ /\ sock[f] = "listening"
           /\ \E a \in {{}, {"in"}} \ {avail[f]} : avail' = [avail EXCEPT ![f] = a]
           /\ UNCHANGED <<sock, soerror>>
  BY DEF Network
<1>3. /\ UNCHANGED <<schedvars, sleepvars, lifevars, pollvars, pc, io, reg, now>>
      /\ UNCHANGED <<owner, dial, errno>>
  BY DEF Network, fdvars
<1>4. PICK a \in SUBSET {"in", "out", "hup"} : avail' = [avail EXCEPT ![f] = a]
  BY <1>2
<1>5. sock \in [Fd -> SockState \cup {nil}] /\ soerror \in [Fd -> {"none", "ETIMEDOUT"}]
  BY <1>1 DEF NetTypeOK
<1>6. avail' \in [Fd -> SUBSET {"in", "out", "hup"}]
  BY <1>1, <1>4
<1>7. Inv'
  <2>1. now' \in 0 .. MaxNow /\ now <= now'
    BY <1>1, <1>3, FdAssumption DEF Inv, FdTypeOK
  <2> QED BY <1>1, <1>3, <1>6, <2>1, KernelQuiet
<1>8. /\ sock' \in [Fd -> SockState \cup {nil}] /\ soerror' \in [Fd -> {"none", "ETIMEDOUT"}]
      /\ sock[f] # nil /\ sock'[f] # nil
      /\ sock'[f] \in Decided \/ (sock[f] = "listening" /\ sock'[f] = "listening")
      /\ \A g \in Fd : g # f => sock'[g] = sock[g] /\ avail'[g] = avail[g]
  BY <1>1, <1>2, <1>4, <1>5, SockValues DEF SockState, Decided
<1>9. NetTypeOK'
  BY <1>1, <1>3, <1>8 DEF NetTypeOK
<1>10. CallOK' /\ \A g : Dialing(g)' <=> Dialing(g)
  BY <1>1, <1>3 DEF CallOK, InCall, Dialing
<1>11. SockOK'
  <2> SUFFICES ASSUME NEW g \in Fd
               PROVE  /\ sock'[g] # nil <=> owner'[g] # nil \/ Dialing(g)'
                      /\ ~(owner'[g] # nil /\ Dialing(g)')
                      /\ sock'[g] \in {nil, "connecting"} => avail'[g] = {}
    BY DEF SockOK
  <2>1. owner' = owner
    BY <1>3
  <2>2. CASE g = f
    BY <1>1, <1>8, <1>10, <2>1, <2>2 DEF SockOK, Decided
  <2>3. CASE g # f
    BY <1>1, <1>8, <1>10, <2>1, <2>3 DEF SockOK
  <2> QED BY <2>2, <2>3
<1>12. DialOK'
  <2>1. UNCHANGED <<dial, io, pc, taskrunqueue, taskrunning, control>>
    BY <1>3 DEF schedvars
  <2>2. ASSUME NEW r \in Client, dial[r] # nil
        PROVE  /\ sock'[io[r].fd] \in {"connecting"} \cup Decided
               /\ sock[io[r].fd] \in Decided => sock'[io[r].fd] \in Decided
    <3>1. io[r].fd \in Fd /\ sock[io[r].fd] \in {"connecting"} \cup Decided
      BY <1>1, <2>2 DEF CallOK, InCall, Inv, FdTypeOK, DialOK
    <3>2. CASE io[r].fd = f
      BY <1>8, <3>1, <3>2 DEF Decided
    <3>3. CASE io[r].fd # f
      BY <1>8, <3>1, <3>3
    <3> QED BY <3>2, <3>3
  <2>3. \A t : Off(t)' <=> Off(t)
    BY <2>1 DEF Off, Running
  <2> QED BY <1>1, <2>1, <2>2, <2>3 DEF DialOK, AddrOK
<1> QED BY <1>7, <1>9, <1>10, <1>11, <1>12 DEF NetInv

\* A descriptor that socket() or accept() returns has no holder.
LEMMA FreeFacts ==
  ASSUME NetInv, NEW f \in FreeFd
  PROVE  /\ f \in Fd /\ sock[f] = nil /\ owner[f] = nil /\ avail[f] = {} /\ ~Dialing(f)
         /\ \A s \in Client : dial[s] # nil => io[s].fd # f
  BY DEF NetInv, FreeFd, SockOK, Dialing

\* An attempt that ends in the same call leaves the sockets as they were.
LEMMA FailedFacts ==
  ASSUME NetInv, NEW f \in FreeFd, NEW st, failed(f, st)
  PROVE  sock' = sock /\ errno' \in Errnos
<1>1. sock \in [Fd -> SockState \cup {nil}] /\ f \in Fd /\ sock[f] = nil
  BY FreeFacts DEF NetInv, NetTypeOK
<1>2. sock' = [[sock EXCEPT ![f] = st] EXCEPT ![f] = nil]
  BY DEF failed, closed
<1>3. sock' = sock
  BY <1>1, <1>2
<1> QED BY <1>3 DEF failed, syscallfails, Errnos

\* Calls that fail at once.
LEMMA FailsInv ==
  ASSUME NetInv, UNCHANGED vars, UNCHANGED <<soerror, owner, dial>>,
         \/ UNCHANGED <<sock, errno>>
         \/ syscallfails /\ UNCHANGED sock
         \/ \E f \in FreeFd, st \in SockState : failed(f, st)
  PROVE  NetInv'
<1>1. errno \in Errnos
  BY DEF NetInv, NetTypeOK, Errnos
<1>2. sock' = sock /\ errno' \in Errnos
  BY <1>1, FailedFacts DEF syscallfails, Errnos
<1> QED BY <1>2, NetStutterInv

LEMMA NetdialfailsInv ==
  ASSUME NetInv, NEW r \in Client, netdialfails(r)
  PROVE  NetInv'
<1>1. UNCHANGED vars /\ UNCHANGED <<soerror, owner, dial>>
  BY DEF netdialfails, fdvars, vars, kernelvars
<1>2. "connecting" \in SockState
  BY DEF SockState
<1> QED BY <1>1, <1>2, FailsInv DEF netdialfails

LEMMA NetannounceInv ==
  ASSUME NetInv, NEW r \in Client, netannounce(r)
  PROVE  NetInv'
<1>1. UNCHANGED vars /\ UNCHANGED <<soerror, dial>>
  BY DEF netannounce, fdvars, vars, kernelvars
<1>2. "bound" \in SockState /\ "listening" \in SockState
  BY DEF SockState
<1>3. ASSUME owner' = owner,
             \/ UNCHANGED <<sock, errno>>
             \/ syscallfails /\ UNCHANGED sock
             \/ \E f \in FreeFd : failed(f, "bound")
      PROVE  NetInv'
  BY <1>1, <1>2, <1>3, FailsInv
<1>4. ASSUME NEW f \in FreeFd, NEW st \in {"listening", "bound"},
             sock' = [sock EXCEPT ![f] = st], owner' = [owner EXCEPT ![f] = r], errno' = errno
      PROVE  NetInv'
  <2>1. Inv /\ NetTypeOK /\ CallOK /\ SockOK /\ DialOK
    BY DEF NetInv
  <2>2. /\ f \in Fd /\ sock[f] = nil /\ owner[f] = nil /\ avail[f] = {} /\ ~Dialing(f)
        /\ \A s \in Client : dial[s] # nil => io[s].fd # f
    BY FreeFacts
  <2>3. Inv'
    BY <1>1, <2>1, StutterInv
  <2>4. UNCHANGED <<pc, io, avail, dial, soerror, taskrunqueue, taskrunning, control>>
    BY <1>1 DEF vars, schedvars, kernelvars
  <2>5. sock \in [Fd -> SockState \cup {nil}] /\ owner \in [Fd -> Client \cup {nil}]
    BY <2>1 DEF NetTypeOK
  <2>6. /\ sock'[f] = st /\ st # nil /\ st \notin {nil, "connecting"} /\ owner'[f] = r /\ r # nil
        /\ \A g \in Fd : g # f => sock'[g] = sock[g] /\ owner'[g] = owner[g]
        /\ sock' \in [Fd -> SockState \cup {nil}] /\ owner' \in [Fd -> Client \cup {nil}]
    BY <1>2, <1>4, <2>2, <2>5, SockValues
  <2>7. NetTypeOK'
    BY <1>4, <2>1, <2>4, <2>6 DEF NetTypeOK
  <2>8. \A g : Dialing(g)' <=> Dialing(g)
    BY <2>4 DEF Dialing
  <2>9. CallOK'
    <3>1. \A s \in Client : InCall(s) => io[s].fd \in Fd
      BY <2>1 DEF InCall, Inv, FdTypeOK
    <3>2. \A s \in Client : InCall(s) /\ owner[io[s].fd] = s => owner'[io[s].fd] = s
      BY <2>2, <2>6, <3>1, SockValues
    <3> QED BY <2>1, <2>4, <3>2 DEF CallOK, InCall
  <2>10. SockOK'
    <3> SUFFICES ASSUME NEW g \in Fd
                 PROVE  /\ sock'[g] # nil <=> owner'[g] # nil \/ Dialing(g)'
                        /\ ~(owner'[g] # nil /\ Dialing(g)')
                        /\ sock'[g] \in {nil, "connecting"} => avail'[g] = {}
      BY DEF SockOK
    <3>1. CASE g = f
      BY <2>2, <2>6, <2>8, <3>1
    <3>2. CASE g # f
      BY <2>1, <2>4, <2>6, <2>8, <3>2 DEF SockOK
    <3> QED BY <3>1, <3>2
  <2>11. DialOK'
    <3>1. \A s \in Client : dial[s] # nil => sock'[io[s].fd] = sock[io[s].fd]
      BY <2>1, <2>2, <2>6 DEF CallOK, InCall, Inv, FdTypeOK
    <3>2. \A t : Off(t)' <=> Off(t)
      BY <2>4 DEF Off, Running
    <3> QED BY <2>1, <2>4, <3>1, <3>2 DEF DialOK, AddrOK
  <2> QED BY <2>3, <2>7, <2>9, <2>10, <2>11 DEF NetInv
<1> QED BY <1>3, <1>4 DEF netannounce

\* A call that blocks in fdwait: only fdtask can be queued by it.
LEMMA FdwaitOff ==
  ASSUME Inv, NEW r \in Client, Running(r), NEW o, fdwait(r, o)
  PROVE  Off(r)' /\ \A t \in Client : ~Off(t)' => ~Off(t)
<1>1. control' \in {"exited", "sched"} /\ prepare_fdtask /\ UNCHANGED <<system, gone>>
  BY DEF fdwait, taskswitch
<1>2. r \notin ToSet(taskrunqueue')
  BY <1>1, PrepareFacts
<1>3. \A t \in Client : t \in ToSet(taskrunqueue') => t \in ToSet(taskrunqueue)
  <2>1. CASE startedfdtask
    BY <1>1, <2>1 DEF prepare_fdtask
  <2>2. CASE ~startedfdtask
    <3>1. taskready(fdt) /\ fdt \in Task /\ fdt \notin ToSet(taskrunqueue) /\ SchedTypeOK /\ QueueOK
      BY <1>1, <2>2, ClientFacts DEF prepare_fdtask, Inv, StartOK, Off, FdTypeOK
    <3>2. ToSet(taskrunqueue') = ToSet(taskrunqueue) \cup {fdt}
      BY <3>1, ReadyQueue
    <3> QED BY <3>2, ClientFacts
  <2> QED BY <2>1, <2>2
<1> QED BY <1>1, <1>2, <1>3 DEF Off, Running

\* netaccept up to its switch.
LEMMA NetacceptInv ==
  ASSUME NetInv, NEW r \in Client, netaccept(r)
  PROVE  NetInv'
<1> DEFINE o(f) == [fd |-> f, rw |-> "r", call |-> "netaccept", left |-> 0]
<1>1. PICK f \in Fd : Idle(r) /\ owner[f] = r /\ fdwait(r, o(f)) /\ UNCHANGED netvars
  BY DEF netaccept
<1>2. Inv /\ NetTypeOK /\ CallOK /\ SockOK /\ DialOK /\ Running(r) /\ pc[r] = "run"
  BY <1>1 DEF NetInv, Idle
<1>3. /\ pc \in [Task -> {"run", "io", "fdwait", "delay", "start", "yield", "poll"}]
      /\ io \in [Task -> Ios] /\ r \in Task /\ Client \subseteq Task
  BY <1>2, ClientFacts DEF Inv, FdTypeOK
<1>4. o(f) \in Ios /\ o(f).fd = f /\ o(f).call = "netaccept" /\ o(f).rw = "r"
  BY DEF Ios
<1>5. UNCHANGED <<sock, soerror, owner, dial, errno, avail>> /\ pc' = [pc EXCEPT ![r] = "fdwait"]
      /\ io' = [io EXCEPT ![r] = o(f)]
  BY <1>1 DEF netvars, fdwait
<1> HIDE DEF o
<1>6. Inv'
  BY <1>1, <1>2, <1>4, FdwaitInv
<1>7. Off(r)' /\ \A t \in Client : ~Off(t)' => ~Off(t)
  BY <1>1, <1>2, FdwaitOff
<1>8. dial[r] = nil
  BY <1>2 DEF CallOK, InCall
<1>9. /\ pc'[r] = "fdwait" /\ io'[r] = o(f)
      /\ \A t \in Client : t # r => pc'[t] = pc[t] /\ io'[t] = io[t]
  BY <1>3, <1>5
<1>10. NetTypeOK'
  BY <1>2, <1>5 DEF NetTypeOK
<1>11. CallOK'
  BY <1>1, <1>2, <1>4, <1>5, <1>8, <1>9 DEF CallOK, InCall
<1>12. \A g : Dialing(g)' <=> Dialing(g)
  BY <1>5, <1>8, <1>9 DEF Dialing
<1>13. SockOK'
  BY <1>2, <1>5, <1>12 DEF SockOK
<1>14. DialOK'
  <2>1. \A t \in Client : dial[t] # nil => pc'[t] = pc[t] /\ io'[t] = io[t]
    BY <1>8, <1>9
  <2> QED BY <1>2, <1>5, <1>7, <2>1 DEF DialOK, AddrOK
<1> QED BY <1>6, <1>10, <1>11, <1>13, <1>14 DEF NetInv

\* netdial up to its switch: the new socket is its own.
LEMMA NetdialInv ==
  ASSUME NetInv, NEW r \in Client, netdial(r)
  PROVE  NetInv'
<1> DEFINE o(f) == [fd |-> f, rw |-> "w", call |-> "netdial", left |-> 0]
<1>1. PICK f \in FreeFd, name \in Names :
        /\ Idle(r)
        /\ \E a \in netlookup(name) \ {invalid} :
             dial' = [dial EXCEPT ![r] = [name |-> name, addr |-> a]]
        /\ fdwait(r, o(f))
        /\ sock' = [sock EXCEPT ![f] = "connecting"]
        /\ errno' \in {errno, "EINPROGRESS"}
        /\ UNCHANGED <<soerror, owner>>
  BY DEF netdial
<1>2. PICK a \in netlookup(name) \ {invalid} :
        dial' = [dial EXCEPT ![r] = [name |-> name, addr |-> a]]
  BY <1>1
<1> DEFINE d == [name |-> name, addr |-> a]
<1>3. d \in Dial /\ d # nil /\ AddrOK(d)
  <2>1. d \in Dial
    BY LookupFacts DEF Dial
  <2>2. AddrOK(d)
    BY LookupFacts DEF AddrOK
  <2> QED BY <2>1, <2>2, NetAssumption
<1>4. dial' = [dial EXCEPT ![r] = d]
  BY <1>2
<1> HIDE DEF d
<1>5. Inv /\ NetTypeOK /\ CallOK /\ SockOK /\ DialOK /\ Running(r) /\ pc[r] = "run"
  BY <1>1 DEF NetInv, Idle
<1>6. /\ pc \in [Task -> {"run", "io", "fdwait", "delay", "start", "yield", "poll"}]
      /\ io \in [Task -> Ios] /\ r \in Task /\ Client \subseteq Task
  BY <1>5, ClientFacts DEF Inv, FdTypeOK
<1>7. /\ f \in Fd /\ sock[f] = nil /\ owner[f] = nil /\ avail[f] = {} /\ ~Dialing(f)
      /\ \A s \in Client : dial[s] # nil => io[s].fd # f
  BY FreeFacts
<1>8. o(f) \in Ios /\ o(f).fd = f /\ o(f).call = "netdial" /\ o(f).rw = "w"
  BY <1>7 DEF Ios
<1>9. UNCHANGED <<soerror, owner, avail>> /\ pc' = [pc EXCEPT ![r] = "fdwait"]
      /\ io' = [io EXCEPT ![r] = o(f)] /\ fdwait(r, o(f))
  BY <1>1 DEF fdwait
<1> HIDE DEF o
<1>10. Inv'
  BY <1>5, <1>7, <1>8, <1>9, FdwaitInv
<1>11. Off(r)' /\ \A t \in Client : ~Off(t)' => ~Off(t)
  BY <1>5, <1>9, FdwaitOff
<1>12. /\ sock \in [Fd -> SockState \cup {nil}] /\ dial \in [Client -> Dial \cup {nil}]
       /\ errno \in Errnos /\ "connecting" \in SockState
  BY <1>5 DEF NetTypeOK, Errnos, SockState
<1>13. /\ pc'[r] = "fdwait" /\ io'[r] = o(f) /\ dial'[r] = d
       /\ \A t \in Client : t # r => pc'[t] = pc[t] /\ io'[t] = io[t] /\ dial'[t] = dial[t]
       /\ sock'[f] = "connecting" /\ \A g \in Fd : g # f => sock'[g] = sock[g]
  BY <1>1, <1>4, <1>6, <1>7, <1>9, <1>12
<1>14. NetTypeOK'
  <2>1. dial' \in [Client -> Dial \cup {nil}] /\ sock' \in [Fd -> SockState \cup {nil}]
    BY <1>1, <1>3, <1>4, <1>7, <1>12
  <2>2. errno' \in Errnos
    BY <1>1, <1>12 DEF Errnos
  <2> QED BY <1>5, <1>9, <2>1, <2>2 DEF NetTypeOK, Errnos
<1>15. dial[r] = nil
  BY <1>5 DEF CallOK, InCall
<1>16. CallOK'
  <2> SUFFICES ASSUME NEW s \in Client
               PROVE  /\ dial'[s] # nil => InCall(s)' /\ io'[s].call = "netdial" /\ io'[s].rw = "w"
                      /\ InCall(s)' /\ dial'[s] = nil =>
                           io'[s].call = "netaccept" /\ io'[s].rw = "r" /\ owner'[io'[s].fd] = s
    BY DEF CallOK
  <2>1. CASE s = r
    BY <1>3, <1>8, <1>13, <2>1 DEF InCall
  <2>2. CASE s # r
    BY <1>5, <1>9, <1>13, <2>2 DEF CallOK, InCall
  <2> QED BY <2>1, <2>2
<1>17. /\ Dialing(f)'
       /\ \A g \in Fd : g # f => (Dialing(g)' <=> Dialing(g))
  BY <1>3, <1>8, <1>13, <1>15 DEF Dialing
<1>18. SockOK'
  <2> SUFFICES ASSUME NEW g \in Fd
               PROVE  /\ sock'[g] # nil <=> owner'[g] # nil \/ Dialing(g)'
                      /\ ~(owner'[g] # nil /\ Dialing(g)')
                      /\ sock'[g] \in {nil, "connecting"} => avail'[g] = {}
    BY DEF SockOK
  <2>1. CASE g = f
    BY <1>7, <1>9, <1>13, <1>17, <2>1, SockValues
  <2>2. CASE g # f
    BY <1>5, <1>9, <1>13, <1>17, <2>2 DEF SockOK
  <2> QED BY <2>1, <2>2
<1>19. DialOK'
  <2> SUFFICES ASSUME NEW s \in Client, dial'[s] # nil
               PROVE  /\ sock'[io'[s].fd] \in {"connecting"} \cup Decided
                      /\ pc'[s] = "io" \/ ~Off(s)' => sock'[io'[s].fd] \in Decided
                      /\ AddrOK(dial'[s])
                      /\ \A t \in Client : dial'[t] # nil /\ io'[t].fd = io'[s].fd => t = s
    BY DEF DialOK, AddrOK
  <2>1. CASE s = r
    <3>1. \A t \in Client : dial'[t] # nil /\ io'[t].fd = io'[s].fd => t = s
      BY <1>7, <1>8, <1>13, <2>1
    <3> QED BY <1>3, <1>8, <1>11, <1>13, <2>1, <3>1
  <2>2. CASE s # r
    <3>1. dial[s] # nil /\ dial'[s] = dial[s] /\ io'[s] = io[s] /\ pc'[s] = pc[s]
      BY <1>13, <2>2
    <3>2. io[s].fd \in Fd /\ io[s].fd # f /\ sock'[io[s].fd] = sock[io[s].fd]
      BY <1>5, <1>7, <1>13, <3>1 DEF CallOK, InCall, Inv, FdTypeOK
    <3>3. \A t \in Client : dial'[t] # nil /\ io'[t].fd = io'[s].fd => t = s
      BY <1>5, <1>8, <1>13, <3>1, <3>2 DEF DialOK
    <3> QED BY <1>5, <1>11, <3>1, <3>2, <3>3 DEF DialOK
  <2> QED BY <2>1, <2>2
<1> QED BY <1>10, <1>14, <1>16, <1>18, <1>19 DEF NetInv

\* netaccept after its switch: the new descriptor is returned, the listener
\* stays the client's own.
LEMMA NetacceptreturnInv ==
  ASSUME NetInv, NEW r \in Client, netacceptreturn(r)
  PROVE  NetInv'
<1>1. /\ Running(r) /\ pc[r] = "io" /\ io[r].call = "netaccept"
      /\ pc' = [pc EXCEPT ![r] = "run"] /\ io' = [io EXCEPT ![r] = NoIo]
      /\ UNCHANGED <<schedvars, sleepvars, lifevars, pollvars, reg, now>>
      /\ UNCHANGED <<soerror, dial>>
  BY DEF netacceptreturn, ioreturn
<1>2. Inv /\ NetTypeOK /\ CallOK /\ SockOK /\ DialOK /\ avail \in [Fd -> SUBSET {"in", "out", "hup"}]
  BY DEF NetInv, Inv, FdTypeOK
<1>3. /\ pc \in [Task -> {"run", "io", "fdwait", "delay", "start", "yield", "poll"}]
      /\ io \in [Task -> Ios] /\ r \in Task /\ Client \subseteq Task /\ NoIo \in Ios
      /\ io[r].fd \in Fd
  BY <1>1, <1>2, ClientFacts DEF Inv, FdTypeOK, NoIo, Ios
<1>4. /\ pc'[r] = "run" /\ io'[r] = NoIo /\ dial[r] = nil /\ dial' = dial
      /\ \A t \in Client : t # r => pc'[t] = pc[t] /\ io'[t] = io[t]
  BY <1>1, <1>2, <1>3 DEF CallOK
<1>5. \A g : Dialing(g)' <=> Dialing(g)
  BY <1>4 DEF Dialing
<1>6. \A t : Off(t)' <=> Off(t)
  BY <1>1 DEF schedvars, Off, Running
<1>7. ASSUME avail' \in [Fd -> SUBSET {"in", "out", "hup"}]
      PROVE  Inv'
  BY <1>1, <1>2, <1>3, <1>7, QuietInv
<1>8. ASSUME syscallfails, UNCHANGED <<sock, owner, avail>>
      PROVE  NetInv'
  <2>1. Inv'
    BY <1>2, <1>7, <1>8
  <2>2. NetTypeOK'
    BY <1>1, <1>2, <1>8 DEF NetTypeOK, syscallfails
  <2>3. CallOK' /\ SockOK'
    BY <1>2, <1>4, <1>5, <1>8 DEF CallOK, InCall, SockOK
  <2>4. DialOK'
    <3>1. \A t \in Client : dial[t] # nil => pc'[t] = pc[t] /\ io'[t] = io[t]
      BY <1>4
    <3> QED BY <1>2, <1>4, <1>6, <1>8, <3>1 DEF DialOK, AddrOK
  <2> QED BY <2>1, <2>2, <2>3, <2>4 DEF NetInv
<1>9. ASSUME sock[io[r].fd] = "listening", NEW f \in FreeFd, NEW a \in {{}, {"in"}},
             sock' = [sock EXCEPT ![f] = "connected"],
             owner' = [owner EXCEPT ![f] = r],
             avail' = [avail EXCEPT ![io[r].fd] = a, ![f] = {"out"}],
             errno' = errno
      PROVE  NetInv'
  <2> DEFINE l == io[r].fd
  <2>1. /\ f \in Fd /\ sock[f] = nil /\ owner[f] = nil /\ avail[f] = {} /\ ~Dialing(f)
        /\ \A s \in Client : dial[s] # nil => io[s].fd # f
    BY FreeFacts
  <2>2. /\ sock \in [Fd -> SockState \cup {nil}] /\ owner \in [Fd -> Client \cup {nil}]
        /\ "connected" \in SockState /\ l \in Fd
    BY <1>2, <1>3 DEF NetTypeOK, SockState, Decided
  <2>3. f # l
    BY <1>9, <2>1, SockValues
  <2>4. avail' \in [Fd -> SUBSET {"in", "out", "hup"}]
    BY <1>2, <1>9, <2>1, <2>2
  <2>5. /\ sock'[f] = "connected" /\ owner'[f] = r /\ r # nil /\ nil # "connected"
        /\ \A g \in Fd : g # f => sock'[g] = sock[g] /\ owner'[g] = owner[g]
        /\ \A g \in Fd : g # f /\ g # l => avail'[g] = avail[g]
    BY <1>2, <1>9, <2>1, <2>2, SockValues
  <2>6. Inv'
    BY <1>7, <2>4
  <2>7. NetTypeOK'
    <3>1. sock' \in [Fd -> SockState \cup {nil}] /\ owner' \in [Fd -> Client \cup {nil}]
      BY <1>9, <2>1, <2>2
    <3> QED BY <1>1, <1>2, <1>9, <3>1 DEF NetTypeOK
  <2>8. CallOK'
    <3>1. \A s \in Client : InCall(s) => io[s].fd \in Fd
      BY <1>2 DEF InCall, Inv, FdTypeOK
    <3>2. \A s \in Client : InCall(s) /\ owner[io[s].fd] = s => owner'[io[s].fd] = s
      BY <2>1, <2>5, <3>1, SockValues
    <3> QED BY <1>2, <1>4, <3>2 DEF CallOK, InCall
  <2>9. SockOK'
    <3> SUFFICES ASSUME NEW g \in Fd
                 PROVE  /\ sock'[g] # nil <=> owner'[g] # nil \/ Dialing(g)'
                        /\ ~(owner'[g] # nil /\ Dialing(g)')
                        /\ sock'[g] \in {nil, "connecting"} => avail'[g] = {}
      BY DEF SockOK
    <3>1. CASE g = f
      BY <1>5, <2>1, <2>5, <3>1
    <3>2. CASE g = l
      BY <1>2, <1>5, <1>9, <2>3, <2>5, <3>2, SockValues DEF SockOK
    <3>3. CASE g # f /\ g # l
      BY <1>2, <1>5, <2>5, <3>3 DEF SockOK
    <3> QED BY <3>1, <3>2, <3>3
  <2>10. DialOK'
    <3>1. \A s \in Client : dial[s] # nil =>
            sock'[io[s].fd] = sock[io[s].fd] /\ pc'[s] = pc[s] /\ io'[s] = io[s]
      BY <1>2, <1>4, <2>1, <2>5 DEF CallOK, InCall, Inv, FdTypeOK
    <3> QED BY <1>2, <1>4, <1>6, <3>1 DEF DialOK, AddrOK
  <2> QED BY <2>6, <2>7, <2>8, <2>9, <2>10 DEF NetInv
<1> QED BY <1>8, <1>9 DEF netacceptreturn

\* The client closes what is its own, and nobody is waiting for it.
LEMMA CloseInv ==
  ASSUME NetInv, NEW r \in Client, close(r)
  PROVE  NetInv'
<1>1. PICK f \in Fd :
        /\ Idle(r) /\ owner[f] = r
        /\ sock' = [sock EXCEPT ![f] = nil]
        /\ soerror' = [soerror EXCEPT ![f] = "none"]
        /\ avail' = [avail EXCEPT ![f] = {}]
        /\ owner' = [owner EXCEPT ![f] = nil]
        /\ UNCHANGED <<schedvars, fdvars, dial, errno>>
  BY DEF close
<1>2. Inv /\ NetTypeOK /\ CallOK /\ SockOK /\ DialOK /\ avail \in [Fd -> SUBSET {"in", "out", "hup"}]
  BY DEF NetInv, Inv, FdTypeOK
<1>3. /\ UNCHANGED <<schedvars, sleepvars, lifevars, pollvars, pc, io, reg, now>>
      /\ UNCHANGED <<dial, errno, taskrunqueue, taskrunning, control>>
  BY <1>1 DEF fdvars, schedvars
<1>4. /\ sock \in [Fd -> SockState \cup {nil}] /\ owner \in [Fd -> Client \cup {nil}]
      /\ soerror \in [Fd -> {"none", "ETIMEDOUT"}]
  BY <1>2 DEF NetTypeOK
<1>5. /\ sock'[f] = nil /\ owner'[f] = nil /\ avail'[f] = {} /\ ~Dialing(f)
      /\ \A g \in Fd : g # f => sock'[g] = sock[g] /\ owner'[g] = owner[g] /\ avail'[g] = avail[g]
  BY <1>1, <1>2, <1>4, SockValues DEF SockOK
<1>6. Inv'
  <2>1. avail' \in [Fd -> SUBSET {"in", "out", "hup"}]
    BY <1>1, <1>2
  <2>2. now' \in 0 .. MaxNow /\ now <= now'
    BY <1>2, <1>3, FdAssumption DEF Inv, FdTypeOK
  <2> QED BY <1>2, <1>3, <2>1, <2>2, KernelQuiet
<1>7. NetTypeOK'
  <2>1. /\ sock' \in [Fd -> SockState \cup {nil}] /\ owner' \in [Fd -> Client \cup {nil}]
        /\ soerror' \in [Fd -> {"none", "ETIMEDOUT"}]
    BY <1>1, <1>4
  <2> QED BY <1>2, <1>3, <2>1 DEF NetTypeOK
<1>8. \A g : Dialing(g)' <=> Dialing(g)
  BY <1>3 DEF Dialing
<1>9. CallOK'
  <2>1. \A s \in Client : InCall(s) => io[s].fd \in Fd /\ s # r
    BY <1>1, <1>2 DEF InCall, Inv, FdTypeOK, Idle
  <2>2. \A s \in Client : InCall(s) /\ owner[io[s].fd] = s => owner'[io[s].fd] = s
    BY <1>1, <1>5, <2>1
  <2> QED BY <1>2, <1>3, <2>2 DEF CallOK, InCall
<1>10. SockOK'
  <2> SUFFICES ASSUME NEW g \in Fd
               PROVE  /\ sock'[g] # nil <=> owner'[g] # nil \/ Dialing(g)'
                      /\ ~(owner'[g] # nil /\ Dialing(g)')
                      /\ sock'[g] \in {nil, "connecting"} => avail'[g] = {}
    BY DEF SockOK
  <2>1. CASE g = f
    BY <1>5, <1>8, <2>1
  <2>2. CASE g # f
    BY <1>2, <1>5, <1>8, <2>2 DEF SockOK
  <2> QED BY <2>1, <2>2
<1>11. DialOK'
  <2>1. \A s \in Client : dial[s] # nil => sock'[io[s].fd] = sock[io[s].fd]
    BY <1>2, <1>5 DEF CallOK, InCall, Inv, FdTypeOK, Dialing
  <2>2. \A t : Off(t)' <=> Off(t)
    BY <1>3 DEF Off, Running
  <2> QED BY <1>2, <1>3, <2>1, <2>2 DEF DialOK, AddrOK
<1> QED BY <1>6, <1>7, <1>9, <1>10, <1>11 DEF NetInv

\* netdial after its switch: the socket goes to the client or is closed.
LEMMA NetdialreturnInv ==
  ASSUME NetInv, NEW r \in Client, netdialreturn(r)
  PROVE  NetInv'
<1>0. PICK f : f = io[r].fd
  OBVIOUS
<1>1. /\ Running(r) /\ pc[r] = "io" /\ io[r].call = "netdial"
      /\ pc' = [pc EXCEPT ![r] = "run"] /\ io' = [io EXCEPT ![r] = NoIo]
      /\ dial' = [dial EXCEPT ![r] = nil]
      /\ UNCHANGED <<schedvars, sleepvars, lifevars, pollvars, reg, now>>
  BY DEF netdialreturn, ioreturn
<1>2. Inv /\ NetTypeOK /\ CallOK /\ SockOK /\ DialOK /\ avail \in [Fd -> SUBSET {"in", "out", "hup"}]
  BY DEF NetInv, Inv, FdTypeOK
<1>3. /\ pc \in [Task -> {"run", "io", "fdwait", "delay", "start", "yield", "poll"}]
      /\ io \in [Task -> Ios] /\ r \in Task /\ Client \subseteq Task /\ NoIo \in Ios
      /\ f \in Fd
  BY <1>0, <1>1, <1>2, ClientFacts DEF Inv, FdTypeOK, NoIo, Ios
<1>4. /\ sock \in [Fd -> SockState \cup {nil}] /\ owner \in [Fd -> Client \cup {nil}]
      /\ soerror \in [Fd -> {"none", "ETIMEDOUT"}] /\ dial \in [Client -> Dial \cup {nil}]
      /\ errno \in Errnos
  BY <1>2 DEF NetTypeOK, Errnos
<1>5. dial[r] # nil
  BY <1>1, <1>2 DEF CallOK, InCall
<1>6. /\ Dialing(f) /\ owner[f] = nil /\ sock[f] # nil
      /\ \A s \in Client : s # r /\ dial[s] # nil => io[s].fd # f
  <2>1. Dialing(f)
    BY <1>0, <1>5 DEF Dialing
  <2> QED BY <1>0, <1>2, <1>3, <1>5, <2>1 DEF SockOK, DialOK
<1>7. /\ pc'[r] = "run" /\ io'[r] = NoIo /\ dial'[r] = nil
      /\ \A t \in Client : t # r => pc'[t] = pc[t] /\ io'[t] = io[t] /\ dial'[t] = dial[t]
  BY <1>1, <1>3, <1>4
<1>8. ~Dialing(f)' /\ \A g : g # f => (Dialing(g)' <=> Dialing(g))
  <2>1. \A s \in Client : ~(dial'[s] # nil /\ io'[s].fd = f)
    BY <1>6, <1>7
  <2>2. ASSUME NEW g, g # f PROVE Dialing(g)' <=> Dialing(g)
    <3>1. \A s \in Client : (dial'[s] # nil /\ io'[s].fd = g) <=> (dial[s] # nil /\ io[s].fd = g)
      BY <1>0, <1>7, <2>2
    <3> QED BY <3>1 DEF Dialing
  <2> QED BY <2>1, <2>2 DEF Dialing
<1>9. \A t : Off(t)' <=> Off(t)
  BY <1>1 DEF schedvars, Off, Running
<1>10. \A g \in Fd : g # f => sock'[g] = sock[g] /\ owner'[g] = owner[g] /\ avail'[g] = avail[g]
  BY <1>0, <1>2, <1>4 DEF netdialreturn, closed
<1>11. \/ sock[f] = "connected" /\ sock'[f] = "connected" /\ owner'[f] = r
       \/ sock'[f] = nil /\ owner'[f] = nil /\ avail'[f] = {}
  BY <1>0, <1>2, <1>3, <1>4, <1>6 DEF netdialreturn, closed
<1>12. /\ sock' \in [Fd -> SockState \cup {nil}] /\ owner' \in [Fd -> Client \cup {nil}]
       /\ avail' \in [Fd -> SUBSET {"in", "out", "hup"}]
       /\ soerror' \in [Fd -> {"none", "ETIMEDOUT"}] /\ dial' \in [Client -> Dial \cup {nil}]
       /\ errno' \in Errnos
  <2>1. CASE sock[f] = "connected"
    BY <1>0, <1>1, <1>2, <1>3, <1>4, <2>1 DEF netdialreturn
  <2>2. CASE sock[f] # "connected"
    <3>1. soerror[f] \in {"none", "ETIMEDOUT"}
      BY <1>3, <1>4
    <3>2. errno' \in Errnos
      BY <1>0, <2>2, <3>1 DEF netdialreturn, dialerror, Errnos
    <3> QED BY <1>0, <1>1, <1>2, <1>3, <1>4, <2>2, <3>2 DEF netdialreturn, closed
  <2> QED BY <2>1, <2>2
<1>13. Inv'
  BY <1>1, <1>2, <1>3, <1>12, QuietInv
<1>14. NetTypeOK'
  BY <1>12 DEF NetTypeOK, Errnos
<1>15. CallOK'
  <2>1. \A s \in Client : InCall(s) => io[s].fd \in Fd
    BY <1>2 DEF InCall, Inv, FdTypeOK
  <2>2. \A s \in Client : InCall(s) /\ owner[io[s].fd] = s => owner'[io[s].fd] = s
    BY <1>6, <1>10, <2>1, SockValues
  <2> QED BY <1>2, <1>7, <2>2 DEF CallOK, InCall
<1>16. SockOK'
  <2> SUFFICES ASSUME NEW g \in Fd
               PROVE  /\ sock'[g] # nil <=> owner'[g] # nil \/ Dialing(g)'
                      /\ ~(owner'[g] # nil /\ Dialing(g)')
                      /\ sock'[g] \in {nil, "connecting"} => avail'[g] = {}
    BY DEF SockOK
  <2>1. CASE g = f
    BY <1>8, <1>11, <2>1, SockValues
  <2>2. CASE g # f
    BY <1>2, <1>8, <1>10, <2>2 DEF SockOK
  <2> QED BY <2>1, <2>2
<1>17. DialOK'
  <2>1. \A s \in Client : dial'[s] # nil =>
          /\ dial[s] # nil /\ dial'[s] = dial[s] /\ pc'[s] = pc[s] /\ io'[s] = io[s]
          /\ sock'[io[s].fd] = sock[io[s].fd]
    BY <1>2, <1>6, <1>7, <1>10 DEF CallOK, InCall, Inv, FdTypeOK
  <2> QED BY <1>2, <1>9, <2>1 DEF DialOK, AddrOK
<1> QED BY <1>13, <1>14, <1>15, <1>16, <1>17 DEF NetInv

-----------------------------------------------------------------------------
(***************************************************************************)
(* The invariant, and what follows from it.                                *)
(***************************************************************************)

LEMMA NetNextInv ==
  ASSUME NetInv, [NetNext]_allvars
  PROVE  NetInv'
<1>1. errno \in Errnos /\ (UNCHANGED netvars => UNCHANGED <<sock, soerror, owner, dial, errno>>)
  BY DEF NetInv, NetTypeOK, Errnos, netvars
<1>2. ASSUME UNCHANGED vars, UNCHANGED netvars PROVE NetInv'
  BY <1>1, <1>2, NetStutterInv
<1>3. ASSUME NEW r \in Client, NetStep(r) PROVE NetInv'
  BY <1>3, NetannounceInv, NetacceptInv, NetacceptreturnInv, NetdialfailsInv, NetdialInv,
     NetdialreturnInv, CloseInv, NetClientInv DEF NetStep
<1>4. ASSUME NetPoll PROVE NetInv'
  <2>1. "none" \in Errnos
    BY DEF Errnos
  <2> QED BY <1>4, <2>1, NetFdtaskInv DEF NetPoll
<1>5. ASSUME NetCPU PROVE NetInv'
  <2>1. ASSUME fdtaskstart \/ fdtaskyield, UNCHANGED netvars PROVE NetInv'
    BY <1>1, <2>1, NetFdtaskInv
  <2> QED BY <1>3, <1>4, <1>5, <2>1, NetSchedulerInv, NetWakeInv DEF NetCPU
<1>6. ASSUME fdtaskeintr \/ Terminated, UNCHANGED netvars PROVE NetInv'
  BY <1>1, <1>6, NetStutterInv DEF Terminated
<1> QED BY <1>2, <1>5, <1>6, NetworkInv DEF NetNext, allvars

\* The invariant of fd.c and the life of the sockets, for any number of clients
\* and descriptors, any names and any behaviour of the network.
THEOREM NetInvariance == NetSpec => []NetInv
<1>1. NetInit => NetInv
  BY NetInitInv
<1>2. NetInv /\ [NetNext]_allvars => NetInv'
  BY NetNextInv
<1> QED BY <1>1, <1>2, PTL DEF NetSpec

\* NoFdLeak: every open socket belongs to one client or to a netdial in
\* progress, on every path through net.c, and epoll watches none that is closed.
THEOREM LeakCorrect == NetSpec => []NoFdLeak
<1>1. ASSUME NetInv PROVE NoFdLeak
  <2>1. Inv /\ NetTypeOK /\ CallOK /\ SockOK
    BY <1>1 DEF NetInv
  <2>2. ASSUME ~Ended, NEW f \in Fd, reg[f] # nil PROVE sock[f] # nil
    <3>1. PICK t \in Client : t = reg[f].ptr
      BY <2>1, <2>2 DEF Inv, FdTypeOK, Registration
    <3>2. InCall(t) /\ io[t].fd = f
      BY <2>1, <2>2, <3>1 DEF Inv, RegOK, Registers, InCall
    <3>3. owner[f] # nil \/ Dialing(f)
      BY <2>1, <3>2, SockValues DEF CallOK, Dialing
    <3> QED BY <2>1, <3>3 DEF SockOK
  <2> QED BY <2>1, <2>2 DEF NoFdLeak, SockOK
<1> QED BY <1>1, NetInvariance, PTL

\* Only netdial's own return ends it.
LEMMA DialEnds ==
  ASSUME NetInv, NetNext, NEW r \in Client, dial[r] # nil, dial'[r] = nil
  PROVE  netdialreturn(r)
<1>1. dial \in [Client -> Dial \cup {nil}]
  BY DEF NetInv, NetTypeOK
<1>2. dial' # dial
  OBVIOUS
<1>3. PICK s \in Client : NetStep(s)
  BY <1>2 DEF NetNext, NetCPU, NetPoll, Network, netvars
<1>4. netdial(s) \/ netdialreturn(s)
  BY <1>2, <1>3 DEF NetStep, netannounce, netaccept, netacceptreturn, netdialfails, close, netvars
<1>5. ~netdial(s)
  <2> SUFFICES ASSUME netdial(s) PROVE FALSE
    OBVIOUS
  <2>1. PICK name \in Names : \E a \in netlookup(name) \ {invalid} :
          dial' = [dial EXCEPT ![s] = [name |-> name, addr |-> a]]
    BY DEF netdial
  <2>2. PICK a \in netlookup(name) \ {invalid} :
          dial' = [dial EXCEPT ![s] = [name |-> name, addr |-> a]]
    BY <2>1
  <2>3. [name |-> name, addr |-> a] # nil
    BY LookupFacts, NetAssumption DEF Dial
  <2> QED BY <1>1, <2>2, <2>3
<1>6. dial' = [dial EXCEPT ![s] = nil]
  BY <1>4, <1>5 DEF netdialreturn
<1>7. s = r
  BY <1>1, <1>6
<1> QED BY <1>4, <1>5, <1>7

\* DialOutcome: netdial returns when its attempt is decided, with a connected
\* descriptor, to the address its name stands for, or with the reason.
THEOREM DialCorrect == NetSpec => DialOutcome
<1> DEFINE Outcome == \A r \in Client : dial[r] # nil /\ dial'[r] = nil =>
        LET f == io[r].fd
        IN  /\ sock[f] \in Decided
            /\ \/ owner'[f] = r /\ sock'[f] = "connected"
               \/ /\ sock'[f] = nil
                  /\ errno' = IF soerror[f] = "none" THEN "ECONNREFUSED" ELSE soerror[f]
            /\ Complete(dial[r].name) =>
                 dial[r].addr = hostaddr \/ Stands(dial[r].name, dial[r].addr)
<1>1. ASSUME NetInv, NetNext PROVE Outcome
  <2> SUFFICES ASSUME NEW r \in Client, dial[r] # nil, dial'[r] = nil, NEW f, f = io[r].fd
               PROVE  /\ sock[f] \in Decided
                      /\ \/ owner'[f] = r /\ sock'[f] = "connected"
                         \/ /\ sock'[f] = nil
                            /\ errno' = IF soerror[f] = "none" THEN "ECONNREFUSED" ELSE soerror[f]
                      /\ Complete(dial[r].name) =>
                           dial[r].addr = hostaddr \/ Stands(dial[r].name, dial[r].addr)
    OBVIOUS
  <2>1. netdialreturn(r) /\ Inv /\ NetTypeOK /\ DialOK
    BY <1>1, DialEnds DEF NetInv
  <2>2. pc[r] = "io" /\ Running(r)
    BY <2>1 DEF netdialreturn
  <2>3. sock[f] \in Decided /\ AddrOK(dial[r])
    BY <2>1, <2>2 DEF DialOK
  <2>4. f \in Fd /\ sock \in [Fd -> SockState \cup {nil}] /\ owner \in [Fd -> Client \cup {nil}]
    BY <2>1, <2>2 DEF Inv, FdTypeOK, NetTypeOK
  <2>5. \/ owner'[f] = r /\ sock'[f] = "connected"
        \/ /\ sock'[f] = nil
           /\ errno' = IF soerror[f] = "none" THEN "ECONNREFUSED" ELSE soerror[f]
    BY <2>1, <2>4 DEF netdialreturn, closed, dialerror
  <2> QED BY <2>3, <2>5 DEF AddrOK
<1>2. ASSUME UNCHANGED allvars PROVE Outcome
  BY <1>2 DEF allvars, netvars
<1>3. NetInv /\ [NetNext]_allvars => [Outcome]_allvars
  BY <1>1, <1>2
<1>4. NetSpec => [][Outcome]_allvars
  BY <1>3, NetInvariance, PTL DEF NetSpec
<1> QED BY <1>4, PTL DEF DialOutcome

\* The epoll set of net.c: a descriptor that a client is about to wait for is
\* not registered, since nobody else waits for it.
LEMMA NetUnregistered ==
  ASSUME NetInv, NEW r \in Client, Idle(r), ~Ended, NEW f \in Fd,
         owner[f] = r \/ sock[f] = nil
  PROVE  reg[f] = nil
<1> SUFFICES ASSUME reg[f] # nil PROVE FALSE
  OBVIOUS
<1>1. Inv /\ CallOK /\ SockOK
  BY DEF NetInv
<1>2. PICK t \in Client : t = reg[f].ptr
  BY <1>1 DEF Inv, FdTypeOK, Registration
<1>3. InCall(t) /\ io[t].fd = f
  BY <1>1, <1>2 DEF Inv, RegOK, Registers, InCall
<1>4. t # r
  BY <1>3 DEF Idle, InCall
<1>5. CASE dial[t] # nil
  <2>1. Dialing(f)
    BY <1>3, <1>5 DEF Dialing
  <2> QED BY <1>1, <2>1, SockValues DEF SockOK
<1>6. CASE dial[t] = nil
  <2>1. owner[f] = t
    BY <1>1, <1>3, <1>6 DEF CallOK
  <2> QED BY <1>1, <1>4, <2>1, SockValues DEF SockOK
<1> QED BY <1>5, <1>6

\* Who ends the program once fdtask is started.
LEMMA NetOnlyFdtaskEnds ==
  ASSUME NetInv, NetNext, control = "task", startedfdtask, Ended'
  PROVE  taskrunning = fdt
<1>1. Inv /\ CallOK /\ ~Ended
  BY DEF NetInv, Ended
<1>2. ASSUME NEW r \in Client, NetStep(r) PROVE FALSE
  <2>1. ASSUME NEW f \in Fd, NEW o, o.fd = f, Idle(r), owner[f] = r \/ sock[f] = nil, fdwait(r, o)
        PROVE  FALSE
    <3>1. reg[f] = nil
      BY <1>1, <2>1, NetUnregistered
    <3>2. control' = "sched"
      BY <2>1, <3>1 DEF fdwait, taskswitch
    <3> QED BY <3>2 DEF Ended
  <2>2. ASSUME netaccept(r) PROVE FALSE
    <3>1. PICK f \in Fd : /\ Idle(r) /\ owner[f] = r
             /\ fdwait(r, [fd |-> f, rw |-> "r", call |-> "netaccept", left |-> 0])
      BY <2>2 DEF netaccept
    <3> QED BY <2>1, <3>1
  <2>3. ASSUME netdial(r) PROVE FALSE
    <3>1. PICK f \in FreeFd :
             Idle(r) /\ fdwait(r, [fd |-> f, rw |-> "w", call |-> "netdial", left |-> 0])
      BY <2>3 DEF netdial
    <3>2. f \in Fd /\ sock[f] = nil
      BY FreeFacts
    <3> QED BY <2>1, <3>1, <3>2
  <2>4. ASSUME fdwaitresume(r) PROVE FALSE
    <3>1. Registers(r) => reg[io[r].fd] # nil
      BY <1>1 DEF Inv, RegOK
    <3>2. control' = control
      BY <2>4, <3>1 DEF fdwaitresume, unregister, Registers
    <3> QED BY <3>2 DEF Ended
  <2>5. ~netannounce(r) /\ ~netacceptreturn(r) /\ ~netdialfails(r) /\ ~netdialreturn(r) /\ ~close(r)
    BY <1>1 DEF netannounce, netacceptreturn, netdialfails, netdialreturn, close, schedvars, Ended
  <2>6. ~prepare_failed(r) /\ ~taskyield(r) /\ ~taskexit(r)
    BY DEF prepare_failed, taskyield, yieldcpu, taskexit, taskswitch, Ended
  <2> QED BY <1>2, <2>2, <2>3, <2>4, <2>5, <2>6 DEF NetStep
<1>3. ~taskscheduler /\ ~Network /\ ~Terminated
  <2>1. ~taskscheduler
    BY DEF taskscheduler, norunnable, runnext
  <2> QED BY <1>1, <2>1 DEF Network, Terminated, schedvars, Ended
<1>4. fdtaskstart \/ fdtaskyield \/ fdtaskpoll \/ fdtaskwake \/ fdtaskeintr
  BY <1>2, <1>3 DEF NetNext, NetCPU, NetPoll
<1> QED BY <1>4 DEF fdtaskstart, fdtaskyield, fdtaskpoll, fdtaskwake, fdtaskeintr, Running

\* IoNeverFatal without a hypothesis: clients that use descriptors only as
\* net.c returns them never register one twice, so the epoll_ctl calls inside
\* netaccept and netdial never fail and never end the program.
THEOREM NetNeverFatal == NetSpec => IoNeverFatal
<1>1. NetInv /\ [NetNext]_allvars
        => [control = "task" /\ startedfdtask /\ Ended' => taskrunning = fdt]_vars
  BY NetOnlyFdtaskEnds DEF allvars
<1> QED BY <1>1, NetInvariance, PTL DEF NetSpec, IoNeverFatal

=============================================================================
