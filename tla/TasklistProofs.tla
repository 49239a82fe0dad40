--------------------------- MODULE TasklistProofs ---------------------------
(***************************************************************************)
(* The pointer code of the task lists implements the sequences of          *)
(* TaskLists, for any number of tasks and lists.                           *)
(***************************************************************************)
EXTENDS Tasklist, SequenceTheorems, FiniteSetTheorems, WellFoundedInduction, TLAPS

-----------------------------------------------------------------------------
(***************************************************************************)
(* The inductive invariant.                                                *)
(***************************************************************************)

ListTypeOK ==
  /\ next \in [Task -> Task \cup {nil}] /\ prev \in [Task -> Task \cup {nil}]
  /\ head \in [List -> Task \cup {nil}] /\ tail \in [List -> Task \cup {nil}]
  /\ alarmtime \in [Task -> Nat]

\* The links nx lead from s through the tasks q and end.
Path(q, s, nx) ==
  /\ q \in Seq(Task) /\ IsInjective(q)
  /\ s = IF q = <<>> THEN nil ELSE q[1]
  /\ \A i \in 1 .. Len(q) : nx[q[i]] = IF i = Len(q) THEN nil ELSE q[i + 1]

\* A list with head h and tail e whose tasks are q: both kinds of links are
\* right, whatever the other tasks carry.
Chain(q, h, e, nx, pv) ==
  /\ Path(q, h, nx)
  /\ e = IF q = <<>> THEN nil ELSE q[Len(q)]
  /\ \A i \in 1 .. Len(q) : pv[q[i]] = IF i = 1 THEN nil ELSE q[i - 1]

Tasks(l) == Walk(head[l], next)

Linked == \A l \in List : Chain(Tasks(l), head[l], tail[l], next, prev)

\* No task is on two lists, or one list's changes would tear another.
Apart == \A k, l \in List : k # l => ToSet(Tasks(k)) \cap ToSet(Tasks(l)) = {}

ListInv == ListTypeOK /\ Linked /\ Apart

-----------------------------------------------------------------------------
(***************************************************************************)
(* Sequences and numbers.                                                  *)
(***************************************************************************)

\* The least member of a set of natural numbers.
LEMMA LeastOf ==
  ASSUME NEW T \in SUBSET Nat, T # {}
  PROVE  Min(T) \in T /\ \A y \in T : Min(T) <= y
<1> DEFINE R == OpToRel(<, Nat)
<1>1. IsWellFoundedOn(R, Nat)
  BY NatLessThanWellFounded
<1>2. \A x, y \in Nat : y < x => <<y, x>> \in R
  BY DEF OpToRel
<1> HIDE DEF R
<1>3. PICK x \in T : \A y \in T : ~(<<y, x>> \in R)
  BY <1>1, WFMin
<1>4. ASSUME NEW y \in T PROVE x <= y
  <2>1. x \in Nat /\ y \in Nat
    OBVIOUS
  <2>2. ~(y < x)
    BY <1>2, <1>3, <2>1
  <2> QED BY <2>1, <2>2
<1> QED BY <1>4 DEF Min

\* A list without duplicates is not longer than there are tasks.
LEMMA Short ==
  ASSUME NEW q \in Seq(Task), IsInjective(q)
  PROVE  Len(q) \in Nat /\ Cardinality(Task) \in Nat /\ Len(q) <= Cardinality(Task)
<1>1. Len(q) \in Nat /\ DOMAIN q = 1 .. Len(q) /\ q \in [1 .. Len(q) -> Task]
  BY LenProperties
<1>2. q \in Bijection(1 .. Len(q), ToSet(q))
  <2>1. q \in [1 .. Len(q) -> ToSet(q)]
    BY <1>1 DEF ToSet
  <2>2. \A i, j \in 1 .. Len(q) : q[i] = q[j] => i = j
    BY <1>1 DEF IsInjective
  <2>3. \A x \in ToSet(q) : \E i \in 1 .. Len(q) : q[i] = x
    BY <1>1 DEF ToSet
  <2> QED BY <2>1, <2>2, <2>3 DEF Bijection, Injection, Surjection, IsInjective
<1>3. ExistsBijection(1 .. Len(q), ToSet(q))
  BY <1>2 DEF ExistsBijection
<1>4. Cardinality(ToSet(q)) = Len(q)
  BY <1>1, <1>3, FS_CountingElements
<1>5. ToSet(q) \subseteq Task /\ IsFiniteSet(Task)
  BY <1>1, ListAssumption DEF ToSet
<1>6. Cardinality(Task) \in Nat /\ Cardinality(ToSet(q)) <= Cardinality(Task)
  BY <1>5, FS_Subset, FS_CardinalityType
<1> QED BY <1>1, <1>4, <1>6

\* The two parts of a sequence in front of place p and from place m on.
LEMMA Parts ==
  ASSUME NEW q \in Seq(Task), NEW p \in 1 .. Len(q) + 1, NEW m \in 1 .. Len(q) + 1
  PROVE  /\ SubSeq(q, 1, p - 1) \in Seq(Task) /\ Len(SubSeq(q, 1, p - 1)) = p - 1
         /\ \A i \in 1 .. p - 1 : SubSeq(q, 1, p - 1)[i] = q[i]
         /\ SubSeq(q, m, Len(q)) \in Seq(Task) /\ Len(SubSeq(q, m, Len(q))) = Len(q) + 1 - m
         /\ \A i \in 1 .. Len(q) + 1 - m : SubSeq(q, m, Len(q))[i] = q[m + i - 1]
<1> DEFINE n == Len(q)
           a == SubSeq(q, 1, p - 1)
           b == SubSeq(q, m, n)
<1>1. n \in Nat /\ p \in 1 .. n + 1 /\ m \in 1 .. n + 1 /\ q \in [1 .. n -> Task]
  BY LenProperties
<1>2. a \in Seq(Task) /\ Len(a) = p - 1 /\ \A i \in 1 .. p - 1 : a[i] = q[i]
  BY <1>1
<1>3. /\ b \in Seq(Task) /\ Len(b) = (IF m <= n THEN n - m + 1 ELSE 0)
      /\ \A i \in 1 .. n - m + 1 : b[i] = q[m + i - 1]
  <2>1. \A i \in m .. n : q[i] \in Task
    BY <1>1
  <2> QED BY <1>1, <2>1, SubSeqProperties
<1> HIDE DEF n, a, b
<1>4. Len(b) = n + 1 - m /\ n - m + 1 = n + 1 - m
  BY <1>1, <1>3
<1> QED BY <1>2, <1>3, <1>4 DEF n, a, b

\* InsertAt, element by element.
LEMMA InsertElements ==
  ASSUME NEW q \in Seq(Task), NEW p \in 1 .. Len(q) + 1, NEW t \in Task
  PROVE  /\ InsertAt(q, p, t) \in Seq(Task) /\ Len(InsertAt(q, p, t)) = Len(q) + 1
         /\ \A i \in 1 .. Len(q) + 1 :
              InsertAt(q, p, t)[i] = IF i < p THEN q[i] ELSE IF i = p THEN t ELSE q[i - 1]
<1> DEFINE n == Len(q)
           a == SubSeq(q, 1, p - 1)
           b == SubSeq(q, p, n)
           c == a \o <<t>>
           r == c \o b
<1>1. n \in Nat /\ p \in 1 .. n + 1
  BY LenProperties
<1>2. /\ a \in Seq(Task) /\ Len(a) = p - 1 /\ \A i \in 1 .. p - 1 : a[i] = q[i]
      /\ b \in Seq(Task) /\ Len(b) = n + 1 - p
      /\ \A i \in 1 .. n + 1 - p : b[i] = q[p + i - 1]
  BY Parts
<1>3. InsertAt(q, p, t) = r
  BY DEF InsertAt
<1>4. <<t>> \in Seq(Task) /\ Len(<<t>>) = 1 /\ <<t>>[1] = t
  OBVIOUS
<1> HIDE DEF n, a, b
<1>5. /\ c \in Seq(Task) /\ Len(c) = Len(a) + Len(<<t>>)
      /\ \A i \in 1 .. Len(a) + Len(<<t>>) :
           c[i] = IF i <= Len(a) THEN a[i] ELSE <<t>>[i - Len(a)]
  BY <1>2, <1>4, ConcatProperties
<1> HIDE DEF c
<1>6. /\ r \in Seq(Task) /\ Len(r) = Len(c) + Len(b)
      /\ \A i \in 1 .. Len(c) + Len(b) :
           r[i] = IF i <= Len(c) THEN c[i] ELSE b[i - Len(c)]
  <2>1. c \in Seq(Task) /\ b \in Seq(Task)
    BY <1>2, <1>5
  <2> QED BY <2>1, ConcatProperties
<1> HIDE DEF r
<1>7. Len(c) = p /\ Len(r) = n + 1
  BY <1>1, <1>2, <1>4, <1>5, <1>6
<1>8. c[p] = t /\ \A i \in 1 .. p - 1 : c[i] = q[i]
  BY <1>1, <1>2, <1>4, <1>5
<1>9. ASSUME NEW i \in 1 .. n + 1
      PROVE  r[i] = IF i < p THEN q[i] ELSE IF i = p THEN t ELSE q[i - 1]
  <2>1. CASE i <= p
    BY <1>1, <1>2, <1>6, <1>7, <1>8, <2>1
  <2>2. CASE i > p
    <3>1. i - p \in 1 .. n + 1 - p /\ p + (i - p) - 1 = i - 1 /\ ~(i <= p) /\ i # p /\ ~(i < p)
      BY <1>1, <2>2
    <3>2. r[i] = b[i - p]
      BY <1>1, <1>2, <1>6, <1>7, <3>1
    <3> QED BY <1>2, <3>1, <3>2
  <2> QED BY <1>1, <2>1, <2>2
<1> QED BY <1>3, <1>6, <1>7, <1>9 DEF n

\* RemoveFirst in a list without duplicates, element by element.
LEMMA RemoveElements ==
  ASSUME NEW q \in Seq(Task), IsInjective(q), NEW k \in 1 .. Len(q)
  PROVE  /\ RemoveFirst(q, q[k]) \in Seq(Task) /\ Len(RemoveFirst(q, q[k])) = Len(q) - 1
         /\ \A i \in 1 .. Len(q) - 1 :
              RemoveFirst(q, q[k])[i] = IF i < k THEN q[i] ELSE q[i + 1]
<1> DEFINE n == Len(q)
           a == SubSeq(q, 1, k - 1)
           b == SubSeq(q, k + 1, n)
           r == a \o b
           I == { i \in 1 .. n : q[i] = q[k] }
<1>1. n \in Nat /\ k \in 1 .. n /\ DOMAIN q = 1 .. n
  BY LenProperties
<1>2. I = {k}
  BY <1>1 DEF IsInjective
<1>3. Min(I) = k
  <2> HIDE DEF I
  <2>1. {k} \in SUBSET Nat /\ {k} # {}
    BY <1>1
  <2>2. Min({k}) \in {k}
    BY <2>1, LeastOf
  <2> QED BY <1>2, <2>2
<1>4. RemoveFirst(q, q[k]) = RemoveAt(q, IF I # {} THEN Min(I) ELSE 0)
  BY <1>1 DEF RemoveFirst, SelectInSeq
<1>5. RemoveFirst(q, q[k]) = r
  <2> HIDE DEF I
  <2>1. RemoveFirst(q, q[k]) = RemoveAt(q, k)
    BY <1>2, <1>3, <1>4
  <2> QED BY <2>1 DEF RemoveAt
<1> HIDE DEF I
<1>6. k \in 1 .. n + 1 /\ k + 1 \in 1 .. n + 1
  BY <1>1
<1>7. /\ a \in Seq(Task) /\ Len(a) = k - 1 /\ \A i \in 1 .. k - 1 : a[i] = q[i]
      /\ b \in Seq(Task) /\ Len(b) = n + 1 - (k + 1)
      /\ \A i \in 1 .. n + 1 - (k + 1) : b[i] = q[(k + 1) + i - 1]
  BY <1>6, Parts
<1> HIDE DEF n, a, b
<1>8. /\ r \in Seq(Task) /\ Len(r) = Len(a) + Len(b)
      /\ \A i \in 1 .. Len(a) + Len(b) : r[i] = IF i <= Len(a) THEN a[i] ELSE b[i - Len(a)]
  BY <1>7, ConcatProperties
<1> HIDE DEF r
<1>9. Len(r) = n - 1
  BY <1>1, <1>7, <1>8
<1>10. ASSUME NEW i \in 1 .. n - 1
       PROVE  r[i] = IF i < k THEN q[i] ELSE q[i + 1]
  <2>1. CASE i < k
    <3>1. i \in 1 .. k - 1 /\ i <= Len(a) /\ i \in 1 .. Len(a) + Len(b)
      BY <1>1, <1>7, <2>1
    <3> QED BY <1>7, <1>8, <2>1, <3>1
  <2>2. CASE ~(i < k)
    <3>1. /\ ~(i <= Len(a)) /\ i \in 1 .. Len(a) + Len(b) /\ i - Len(a) \in 1 .. n + 1 - (k + 1)
          /\ (k + 1) + (i - Len(a)) - 1 = i + 1
      BY <1>1, <1>7, <2>2
    <3> QED BY <1>7, <1>8, <2>2, <3>1
  <2> QED BY <2>1, <2>2
<1> QED BY <1>5, <1>8, <1>9, <1>10 DEF n

-----------------------------------------------------------------------------
(***************************************************************************)
(* Walking along a path.                                                   *)
(***************************************************************************)

\* What the function at of Along satisfies.
Leads(g, s, nx) ==
  g = [n \in 1 .. Cardinality(Task) + 1 |->
         IF n = 1 THEN s ELSE IF g[n - 1] = nil THEN nil ELSE nx[g[n - 1]]]

\* Nothing but the path satisfies it.
LEMMA OneWay ==
  ASSUME NEW s, NEW nx, NEW f, NEW g, Leads(f, s, nx), Leads(g, s, nx)
  PROVE  f = g
<1> DEFINE N == Cardinality(Task)
           D == { i \in 1 .. N + 1 : f[i] # g[i] }
<1>1. N \in Nat
  BY ListAssumption, FS_CardinalityType
<1>2. \A i \in 1 .. N + 1 : f[i] = IF i = 1 THEN s ELSE IF f[i - 1] = nil THEN nil ELSE nx[f[i - 1]]
  BY DEF Leads
<1>3. \A i \in 1 .. N + 1 : g[i] = IF i = 1 THEN s ELSE IF g[i - 1] = nil THEN nil ELSE nx[g[i - 1]]
  BY DEF Leads
<1>4. D = {}
  <2> SUFFICES ASSUME D # {} PROVE FALSE
    OBVIOUS
  <2> HIDE DEF N
  <2>1. D \in SUBSET Nat
    BY <1>1
  <2> HIDE DEF D
  <2>2. PICK m \in D : \A y \in D : m <= y
    BY <2>1, LeastOf
  <2>3. m \in 1 .. N + 1 /\ f[m] # g[m]
    BY <2>2 DEF D
  <2>4. m # 1
    BY <1>2, <1>3, <2>3
  <2>5. m - 1 \in 1 .. N + 1 /\ ~(m <= m - 1)
    BY <1>1, <2>3, <2>4
  <2>6. f[m - 1] = g[m - 1]
    BY <2>2, <2>5 DEF D
  <2> QED BY <1>2, <1>3, <2>3, <2>4, <2>6
<1>5. \A i \in 1 .. N + 1 : f[i] = g[i]
  BY <1>4
<1>6. f = [i \in 1 .. N + 1 |-> f[i]] /\ g = [i \in 1 .. N + 1 |-> g[i]]
  BY Zenon DEF Leads
<1> HIDE DEF N, D
<1> QED BY <1>5, <1>6

\* Walk meets the tasks of the path, which cannot be longer than it looks.
LEMMA WalkPath ==
  ASSUME NEW q, NEW s, NEW nx, Path(q, s, nx)
  PROVE  Walk(s, nx) = q
<1> DEFINE N == Cardinality(Task)
           n == Len(q)
           f == [i \in 1 .. N + 1 |-> IF i <= n THEN q[i] ELSE nil]
<1>1. n \in Nat /\ N \in Nat /\ n <= N /\ q \in Seq(Task) /\ q \in [1 .. n -> Task] /\ nil \notin Task
  BY Short, LenProperties, ListAssumption DEF Path
<1>2. /\ s = IF n = 0 THEN nil ELSE q[1]
      /\ \A i \in 1 .. n : nx[q[i]] = IF i = n THEN nil ELSE q[i + 1]
  BY <1>1, EmptySeq DEF Path
<1>3. PICK way : way = f
  OBVIOUS
<1>4. /\ way = [i \in 1 .. N + 1 |-> way[i]]
      /\ \A i \in 1 .. N + 1 : way[i] = IF i <= n THEN q[i] ELSE nil
  BY <1>3
<1> HIDE DEF f, n, N
<1>5. ASSUME NEW i \in 1 .. N + 1
      PROVE  way[i] = IF i = 1 THEN s ELSE IF way[i - 1] = nil THEN nil ELSE nx[way[i - 1]]
  <2>1. CASE i = 1
    BY <1>1, <1>2, <1>4, <2>1
  <2>2. CASE i # 1 /\ i - 1 <= n
    <3>1. i - 1 \in 1 .. n /\ i - 1 \in 1 .. N + 1 /\ (i - 1) + 1 = i /\ (i - 1 = n <=> ~(i <= n))
      BY <1>1, <2>2
    <3>2. way[i - 1] = q[i - 1] /\ q[i - 1] # nil
      BY <1>1, <1>4, <2>2, <3>1
    <3>3. nx[q[i - 1]] = IF i <= n THEN q[i] ELSE nil
      BY <1>2, <3>1
    <3> QED BY <1>4, <2>2, <3>2, <3>3
  <2>3. CASE i # 1 /\ ~(i - 1 <= n)
    <3>1. i - 1 \in 1 .. N + 1 /\ ~(i <= n)
      BY <1>1, <2>3
    <3> QED BY <1>4, <2>3, <3>1
  <2> QED BY <2>1, <2>2, <2>3
<1>6. Leads(way, s, nx)
  BY <1>4, <1>5 DEF Leads, N
<1>7. Leads(Along(s, nx), s, nx)
  BY <1>6, Zenon DEF Leads, Along
<1>8. Along(s, nx) = way
  BY <1>6, <1>7, OneWay
<1>9. { i \in DOMAIN way : way[i] # nil } = 1 .. n
  BY <1>1, <1>4
<1>10. Cardinality(1 .. n) = n
  <2>1. Cardinality(1 .. n) = IF 1 > n THEN 0 ELSE n - 1 + 1
    BY <1>1, FS_Interval
  <2> QED BY <1>1, <2>1
<1>11. Walk(s, nx) = SubSeq(way, 1, n)
  BY <1>8, <1>9, <1>10 DEF Walk
<1>12. SubSeq(way, 1, n) = q
  <2>1. /\ way \in Seq(Task \cup {nil}) /\ Len(way) = N + 1 /\ \A i \in 1 .. n : way[i] = q[i]
    <3>1. way \in [1 .. N + 1 -> Task \cup {nil}]
      BY <1>1, <1>4
    <3> QED BY <1>1, <1>4, <3>1
  <2>2. /\ SubSeq(way, 1, n) \in Seq(Task \cup {nil}) /\ Len(SubSeq(way, 1, n)) = n
        /\ \A i \in 1 .. n : SubSeq(way, 1, n)[i] = way[i]
    BY <1>1, <2>1
  <2>3. q \in Seq(Task \cup {nil}) /\ Len(q) = n
    BY <1>1 DEF n
  <2> HIDE DEF n
  <2> QED BY <1>1, <2>1, <2>2, <2>3, SeqEqual
<1> QED BY <1>11, <1>12

-----------------------------------------------------------------------------
(***************************************************************************)
(* Chains under the changes that the operations make.                      *)
(***************************************************************************)

\* Read backwards, a chain is a path along the prev links from the tail.
LEMMA ChainReverse ==
  ASSUME NEW q, NEW h, NEW e, NEW nx, NEW pv, Chain(q, h, e, nx, pv)
  PROVE  Path(Reverse(q), e, pv)
<1> DEFINE n == Len(q)
<1>1. /\ n \in Nat /\ q \in Seq(Task) /\ q \in [1 .. n -> Task]
      /\ \A i, j \in 1 .. n : q[i] = q[j] => i = j
  BY LenProperties DEF Chain, Path, IsInjective
<1>2. /\ e = IF n = 0 THEN nil ELSE q[n]
      /\ \A i \in 1 .. n : pv[q[i]] = IF i = 1 THEN nil ELSE q[i - 1]
  BY <1>1, EmptySeq DEF Chain
<1>3. PICK r : r = Reverse(q)
  OBVIOUS
<1>4. r = [i \in 1 .. n |-> q[n - i + 1]]
  BY <1>3 DEF Reverse
<1> HIDE DEF n
<1>5. \A i \in 1 .. n : n - i + 1 \in 1 .. n /\ r[i] = q[n - i + 1]
  BY <1>1, <1>4
<1>6. r \in [1 .. n -> Task]
  BY <1>1, <1>4, <1>5
<1>7. r \in Seq(Task) /\ Len(r) = n /\ DOMAIN r = 1 .. n
  BY <1>1, <1>6
<1>8. IsInjective(r)
  <2>1. ASSUME NEW i \in 1 .. n, NEW j \in 1 .. n, r[i] = r[j] PROVE i = j
    <3>1. n - i + 1 = n - j + 1
      BY <1>1, <1>5, <2>1
    <3> QED BY <1>1, <3>1
  <2> QED BY <1>7, <2>1 DEF IsInjective
<1>9. e = IF r = <<>> THEN nil ELSE r[1]
  <2>1. CASE n = 0
    BY <1>2, <1>7, <2>1, EmptySeq
  <2>2. CASE n # 0
    <3>1. 1 \in 1 .. n /\ n - 1 + 1 = n /\ r # <<>>
      BY <1>1, <1>7, <2>2, EmptySeq
    <3> QED BY <1>2, <1>5, <2>2, <3>1
  <2> QED BY <2>1, <2>2
<1>10. ASSUME NEW i \in 1 .. n
       PROVE  pv[r[i]] = IF i = n THEN nil ELSE r[i + 1]
  <2>1. /\ n - i + 1 \in 1 .. n /\ (n - i + 1 = 1 <=> i = n)
        /\ i # n => i + 1 \in 1 .. n /\ (n - i + 1) - 1 = n - (i + 1) + 1
    BY <1>1
  <2> QED BY <1>2, <1>5, <2>1
<1> QED BY <1>3, <1>7, <1>8, <1>9, <1>10 DEF Path

\* A chain is its own tasks' links and nothing else.
LEMMA ChainFrame ==
  ASSUME NEW q, NEW h, NEW e, NEW nx, NEW pv, NEW nx2, NEW pv2,
         Chain(q, h, e, nx, pv),
         \A u \in ToSet(q) : nx2[u] = nx[u] /\ pv2[u] = pv[u]
  PROVE  Chain(q, h, e, nx2, pv2)
<1>1. \A i \in 1 .. Len(q) : q[i] \in ToSet(q)
  BY LenProperties DEF Chain, Path, ToSet
<1>2. Path(q, h, nx2)
  BY <1>1 DEF Chain, Path
<1> QED BY <1>1, <1>2 DEF Chain

\* r is q with t at place p, between b and m, either of which may be missing.
Inserted(r, q, p, t) ==
  /\ r \in Seq(Task) /\ Len(r) = Len(q) + 1
  /\ \A i \in 1 .. Len(q) + 1 :
       r[i] = IF i < p THEN q[i] ELSE IF i = p THEN t ELSE q[i - 1]

Between(q, p, b, m) ==
  /\ p \in 1 .. Len(q) + 1
  /\ b = IF p = 1 THEN nil ELSE q[p - 1]
  /\ m = IF p = Len(q) + 1 THEN nil ELSE q[p]

\* Of q's links only that of b has changed: it leads to t, whose own leads to m.
LinksIn(q, nx, nx2, t, b, m) ==
  /\ nx2[t] = m /\ (b # nil => nx2[b] = t)
  /\ \A u \in ToSet(q) : u # b => nx2[u] = nx[u]

\* An unlinked task is linked in.
LEMMA ChainInsert ==
  ASSUME NEW q, NEW h, NEW e, NEW nx, NEW pv, Chain(q, h, e, nx, pv),
         NEW t \in Task, t \notin ToSet(q), NEW p, NEW b, NEW m, Between(q, p, b, m),
         NEW nx2, LinksIn(q, nx, nx2, t, b, m), NEW pv2, LinksIn(q, pv, pv2, t, m, b),
         NEW r, Inserted(r, q, p, t),
         NEW h2, h2 = (IF b = nil THEN t ELSE h), NEW e2, e2 = (IF m = nil THEN t ELSE e)
  PROVE  Chain(r, h2, e2, nx2, pv2)
<1> DEFINE n == Len(q)
<1> USE DEF Inserted, Between, LinksIn
<1>1. /\ n \in Nat /\ p \in 1 .. n + 1 /\ Len(r) = n + 1 /\ DOMAIN r = 1 .. n + 1
      /\ \A i \in 1 .. n : q[i] \in Task /\ q[i] \in ToSet(q) /\ q[i] # nil /\ q[i] # t
      /\ \A i, j \in 1 .. n : q[i] = q[j] => i = j
      /\ t # nil
  <2>1. q \in Seq(Task) /\ r \in Seq(Task)
    BY DEF Chain, Path
  <2>2. n \in Nat /\ DOMAIN q = 1 .. n /\ \A i \in 1 .. n : q[i] \in Task
    BY <2>1, LenProperties
  <2>3. DOMAIN r = 1 .. Len(r)
    BY <2>1, LenProperties
  <2>4. \A i, j \in 1 .. n : q[i] = q[j] => i = j
    BY <2>2 DEF Chain, Path, IsInjective
  <2> QED BY <2>2, <2>3, <2>4, ListAssumption DEF ToSet
<1>2. /\ h = IF n = 0 THEN nil ELSE q[1]
      /\ e = IF n = 0 THEN nil ELSE q[n]
      /\ \A i \in 1 .. n : nx[q[i]] = IF i = n THEN nil ELSE q[i + 1]
      /\ \A i \in 1 .. n : pv[q[i]] = IF i = 1 THEN nil ELSE q[i - 1]
  BY <1>1, EmptySeq DEF Chain, Path
<1>3. /\ b = IF p = 1 THEN nil ELSE q[p - 1]
      /\ m = IF p = n + 1 THEN nil ELSE q[p]
      /\ \A i \in 1 .. n + 1 :
           r[i] = IF i < p THEN q[i] ELSE IF i = p THEN t ELSE q[i - 1]
  OBVIOUS
<1>4. /\ \A i \in 1 .. n : i # p - 1 => nx2[q[i]] = IF i = n THEN nil ELSE q[i + 1]
      /\ p # 1 => nx2[q[p - 1]] = t
      /\ nx2[t] = m
  <2> HIDE DEF n
  <2>1. ASSUME NEW i \in 1 .. n, i # p - 1 PROVE nx2[q[i]] = nx[q[i]]
    <3>1. p # 1 => p - 1 \in 1 .. n
      BY <1>1
    <3>2. q[i] # b
      BY <1>1, <1>3, <2>1, <3>1
    <3> QED BY <1>1, <3>2
  <2>2. p # 1 => b = q[p - 1] /\ b # nil
    BY <1>1, <1>3
  <2> QED BY <1>2, <2>1, <2>2
<1>5. /\ \A i \in 1 .. n : i # p => pv2[q[i]] = IF i = 1 THEN nil ELSE q[i - 1]
      /\ p # n + 1 => pv2[q[p]] = t
      /\ pv2[t] = b
  <2> HIDE DEF n
  <2>1. ASSUME NEW i \in 1 .. n, i # p PROVE pv2[q[i]] = pv[q[i]]
    <3>1. p # n + 1 => p \in 1 .. n
      BY <1>1
    <3>2. q[i] # m
      BY <1>1, <1>3, <2>1, <3>1
    <3> QED BY <1>1, <3>2
  <2>2. p # n + 1 => m = q[p] /\ m # nil
    BY <1>1, <1>3
  <2> QED BY <1>2, <2>1, <2>2
<1> HIDE DEF n
<1>6. IsInjective(r)
  <2>1. ASSUME NEW i \in 1 .. n + 1, NEW j \in 1 .. n + 1, r[i] = r[j] PROVE i = j
    <3>1. \A x \in 1 .. n + 1 : x = p => r[x] = t
      BY <1>1, <1>3
    <3>2. \A x \in 1 .. n + 1 : x # p =>
            \E y \in 1 .. n : r[x] = q[y] /\ y = IF x < p THEN x ELSE x - 1
      <4> SUFFICES ASSUME NEW x \in 1 .. n + 1, x # p
                   PROVE  \E y \in 1 .. n : r[x] = q[y] /\ y = IF x < p THEN x ELSE x - 1
        OBVIOUS
      <4>1. (IF x < p THEN x ELSE x - 1) \in 1 .. n
        BY <1>1
      <4> QED BY <1>3, <4>1
    <3>3. \A y \in 1 .. n : q[y] # t
      BY <1>1
    <3>4. CASE i # p /\ j # p
      <4>1. PICK x \in 1 .. n : r[i] = q[x] /\ x = IF i < p THEN i ELSE i - 1
        BY <3>2, <3>4
      <4>2. PICK y \in 1 .. n : r[j] = q[y] /\ y = IF j < p THEN j ELSE j - 1
        BY <3>2, <3>4
      <4>3. q[x] = q[y]
        BY <2>1, <4>1, <4>2
      <4>4. x = y
        BY <1>1, <4>3
      <4> QED BY <1>1, <3>4, <4>1, <4>2, <4>4
    <3>5. CASE i = p /\ j # p
      BY <2>1, <3>1, <3>2, <3>3, <3>5
    <3>6. CASE i # p /\ j = p
      BY <2>1, <3>1, <3>2, <3>3, <3>6
    <3> QED BY <3>4, <3>5, <3>6
  <2> QED BY <1>1, <2>1 DEF IsInjective
<1>7. ASSUME NEW i \in 1 .. n + 1
      PROVE  nx2[r[i]] = IF i = n + 1 THEN nil ELSE r[i + 1]
  <2>1. CASE i = p
    BY <1>1, <1>3, <1>4, <2>1
  <2>2. CASE i = p - 1
    BY <1>1, <1>3, <1>4, <2>2
  <2>3. CASE i < p - 1
    BY <1>1, <1>3, <1>4, <2>3
  <2>4. CASE i > p
    <3>1. i - 1 \in 1 .. n /\ i - 1 # p - 1 /\ (i - 1 = n <=> i = n + 1) /\ (i - 1) + 1 = i
      BY <1>1, <2>4
    <3>2. r[i] = q[i - 1]
      BY <1>1, <1>3, <2>4
    <3>3. i # n + 1 => r[i + 1] = q[i]
      BY <1>1, <1>3, <2>4
    <3> QED BY <1>4, <3>1, <3>2, <3>3
  <2> QED BY <1>1, <2>1, <2>2, <2>3, <2>4
<1>8. ASSUME NEW i \in 1 .. n + 1
      PROVE  pv2[r[i]] = IF i = 1 THEN nil ELSE r[i - 1]
  <2>1. CASE i = p
    BY <1>1, <1>3, <1>5, <2>1
  <2>2. CASE i = p + 1
    <3>1. r[i] = q[p] /\ p # n + 1 /\ i # 1 /\ i - 1 = p
      BY <1>1, <1>3, <2>2
    <3>2. r[p] = t
      BY <1>1, <1>3
    <3> QED BY <1>5, <3>1, <3>2
  <2>3. CASE i < p
    <3>1. r[i] = q[i] /\ i \in 1 .. n /\ i # p
      BY <1>1, <1>3, <2>3
    <3>2. i # 1 => r[i - 1] = q[i - 1]
      BY <1>1, <1>3, <2>3
    <3> QED BY <1>5, <3>1, <3>2
  <2>4. CASE i > p + 1
    <3>1. PICK j : j = i - 1
      OBVIOUS
    <3>2. j \in 1 .. n /\ j # p /\ j # 1 /\ i # 1
      BY <1>1, <2>4, <3>1
    <3>3. r[i] = q[j]
      BY <1>1, <1>3, <2>4, <3>1
    <3>4. r[j] = q[j - 1]
      BY <1>1, <1>3, <2>4, <3>1
    <3>5. pv2[q[j]] = q[j - 1]
      BY <1>5, <3>2
    <3> QED BY <3>1, <3>2, <3>3, <3>4, <3>5
  <2> QED BY <1>1, <2>1, <2>2, <2>3, <2>4
<1>9. r # <<>>
  BY <1>1, EmptySeq
<1>10. h2 = r[1]
  BY <1>1, <1>2, <1>3
<1>11. e2 = r[n + 1]
  BY <1>1, <1>2, <1>3
<1>12. Path(r, r[1], nx2)
  BY <1>1, <1>6, <1>7, <1>9 DEF Path
<1> QED BY <1>1, <1>8, <1>9, <1>10, <1>11, <1>12 DEF Chain

\* r is q without its k-th task.
Removed(r, q, k) ==
  /\ r \in Seq(Task) /\ Len(r) = Len(q) - 1
  /\ \A i \in 1 .. Len(q) - 1 : r[i] = IF i < k THEN q[i] ELSE q[i + 1]

Around(q, k, nx, pv, b, m) == k \in 1 .. Len(q) /\ b = pv[q[k]] /\ m = nx[q[k]]

\* Of q's links only that of b has changed: it leads to m.
LinksOut(q, nx, nx2, b, m) ==
  (b # nil => nx2[b] = m) /\ \A u \in ToSet(q) : u # b => nx2[u] = nx[u]

\* The k-th task is linked out: its neighbours get each other's address.
LEMMA ChainDelete ==
  ASSUME NEW q, NEW h, NEW e, NEW nx, NEW pv, Chain(q, h, e, nx, pv),
         NEW k, NEW b, NEW m, Around(q, k, nx, pv, b, m),
         NEW nx2, LinksOut(q, nx, nx2, b, m), NEW pv2, LinksOut(q, pv, pv2, m, b),
         NEW r, Removed(r, q, k),
         NEW h2, h2 = (IF b = nil THEN m ELSE h), NEW e2, e2 = (IF m = nil THEN b ELSE e)
  PROVE  Chain(r, h2, e2, nx2, pv2)
<1> DEFINE n == Len(q)
<1> USE DEF Removed, Around, LinksOut
<1>1. /\ n \in Nat /\ k \in 1 .. n /\ Len(r) = n - 1 /\ DOMAIN r = 1 .. n - 1
      /\ \A i \in 1 .. n : q[i] \in ToSet(q) /\ q[i] # nil
      /\ \A i, j \in 1 .. n : q[i] = q[j] => i = j
  <2>1. q \in Seq(Task) /\ r \in Seq(Task)
    BY DEF Chain, Path
  <2>2. n \in Nat /\ DOMAIN q = 1 .. n /\ \A i \in 1 .. n : q[i] \in Task
    BY <2>1, LenProperties
  <2>3. DOMAIN r = 1 .. Len(r)
    BY <2>1, LenProperties
  <2>4. \A i, j \in 1 .. n : q[i] = q[j] => i = j
    BY <2>2 DEF Chain, Path, IsInjective
  <2> QED BY <2>2, <2>3, <2>4, ListAssumption DEF ToSet
<1>2. /\ h = q[1] /\ e = q[n]
      /\ \A i \in 1 .. n : nx[q[i]] = IF i = n THEN nil ELSE q[i + 1]
      /\ \A i \in 1 .. n : pv[q[i]] = IF i = 1 THEN nil ELSE q[i - 1]
  BY <1>1, EmptySeq DEF Chain, Path
<1>3. /\ b = IF k = 1 THEN nil ELSE q[k - 1]
      /\ m = IF k = n THEN nil ELSE q[k + 1]
      /\ \A i \in 1 .. n - 1 : r[i] = IF i < k THEN q[i] ELSE q[i + 1]
  BY <1>1, <1>2
<1>4. /\ \A i \in 1 .. n : i # k - 1 => nx2[q[i]] = IF i = n THEN nil ELSE q[i + 1]
      /\ k # 1 => nx2[q[k - 1]] = m
  <2> HIDE DEF n
  <2>1. ASSUME NEW i \in 1 .. n, i # k - 1 PROVE nx2[q[i]] = nx[q[i]]
    <3>1. k # 1 => k - 1 \in 1 .. n
      BY <1>1
    <3>2. q[i] # b
      BY <1>1, <1>3, <2>1, <3>1
    <3> QED BY <1>1, <3>2
  <2>2. k # 1 => b = q[k - 1] /\ b # nil
    BY <1>1, <1>3
  <2> QED BY <1>2, <2>1, <2>2
<1>5. /\ \A i \in 1 .. n : i # k + 1 => pv2[q[i]] = IF i = 1 THEN nil ELSE q[i - 1]
      /\ k # n => pv2[q[k + 1]] = b
  <2> HIDE DEF n
  <2>1. ASSUME NEW i \in 1 .. n, i # k + 1 PROVE pv2[q[i]] = pv[q[i]]
    <3>1. k # n => k + 1 \in 1 .. n
      BY <1>1
    <3>2. q[i] # m
      BY <1>1, <1>3, <2>1, <3>1
    <3> QED BY <1>1, <3>2
  <2>2. k # n => m = q[k + 1] /\ m # nil
    BY <1>1, <1>3
  <2> QED BY <1>2, <2>1, <2>2
<1> HIDE DEF n
<1>6. IsInjective(r)
  <2>1. ASSUME NEW i \in 1 .. n - 1, NEW j \in 1 .. n - 1, r[i] = r[j] PROVE i = j
    <3>1. \A x \in 1 .. n - 1 : \E y \in 1 .. n : r[x] = q[y] /\ y = IF x < k THEN x ELSE x + 1
      <4> SUFFICES ASSUME NEW x \in 1 .. n - 1
                   PROVE  \E y \in 1 .. n : r[x] = q[y] /\ y = IF x < k THEN x ELSE x + 1
        OBVIOUS
      <4>1. (IF x < k THEN x ELSE x + 1) \in 1 .. n
        BY <1>1
      <4> QED BY <1>3, <4>1
    <3>2. PICK x \in 1 .. n : r[i] = q[x] /\ x = IF i < k THEN i ELSE i + 1
      BY <3>1
    <3>3. PICK y \in 1 .. n : r[j] = q[y] /\ y = IF j < k THEN j ELSE j + 1
      BY <3>1
    <3>4. q[x] = q[y]
      BY <2>1, <3>2, <3>3
    <3>5. x = y
      BY <1>1, <3>4
    <3> QED BY <1>1, <3>2, <3>3, <3>5
  <2> QED BY <1>1, <2>1 DEF IsInjective
<1>7. ASSUME NEW i \in 1 .. n - 1
      PROVE  nx2[r[i]] = IF i = n - 1 THEN nil ELSE r[i + 1]
  <2>1. CASE i = k - 1
    <3>1. r[i] = q[k - 1] /\ k # 1 /\ (i = n - 1 <=> k = n)
      BY <1>1, <1>3, <2>1
    <3>2. i # n - 1 => r[i + 1] = q[k + 1]
      BY <1>1, <1>3, <2>1
    <3> QED BY <1>3, <1>4, <3>1, <3>2
  <2>2. CASE i < k - 1
    BY <1>1, <1>3, <1>4, <2>2
  <2>3. CASE i >= k
    <3>1. i + 1 \in 1 .. n /\ i + 1 # k - 1 /\ (i + 1 = n <=> i = n - 1)
      BY <1>1, <2>3
    <3>2. r[i] = q[i + 1]
      BY <1>1, <1>3, <2>3
    <3>3. i # n - 1 => r[i + 1] = q[(i + 1) + 1]
      BY <1>1, <1>3, <2>3
    <3> QED BY <1>4, <3>1, <3>2, <3>3
  <2> QED BY <1>1, <2>1, <2>2, <2>3
<1>8. ASSUME NEW i \in 1 .. n - 1
      PROVE  pv2[r[i]] = IF i = 1 THEN nil ELSE r[i - 1]
  <2>1. CASE i = k
    <3>1. r[i] = q[k + 1] /\ k # n
      BY <1>1, <1>3, <2>1
    <3>2. i # 1 => r[i - 1] = q[k - 1]
      BY <1>1, <1>3, <2>1
    <3> QED BY <1>3, <1>5, <2>1, <3>1, <3>2
  <2>2. CASE i < k
    BY <1>1, <1>3, <1>5, <2>2
  <2>3. CASE i > k
    <3>1. i + 1 \in 1 .. n /\ i + 1 # k + 1 /\ i + 1 # 1 /\ i # 1 /\ (i + 1) - 1 = i
      BY <1>1, <2>3
    <3>2. r[i] = q[i + 1]
      BY <1>1, <1>3, <2>3
    <3>3. r[i - 1] = q[i]
      BY <1>1, <1>3, <2>3
    <3> QED BY <1>5, <3>1, <3>2, <3>3
  <2> QED BY <1>1, <2>1, <2>2, <2>3
<1>9. h2 = IF r = <<>> THEN nil ELSE r[1]
  <2>1. CASE n = 1
    BY <1>1, <1>2, <1>3, <2>1, EmptySeq
  <2>2. CASE n # 1
    <3>1. r # <<>> /\ 1 \in 1 .. n - 1
      BY <1>1, <2>2, EmptySeq
    <3>2. CASE k = 1
      BY <1>1, <1>3, <2>2, <3>1, <3>2
    <3>3. CASE k # 1
      <4>1. b # nil
        BY <1>1, <1>3, <3>3
      <4> QED BY <1>1, <1>2, <1>3, <3>1, <3>3, <4>1
    <3> QED BY <3>2, <3>3
  <2> QED BY <2>1, <2>2
<1>10. e2 = IF r = <<>> THEN nil ELSE r[n - 1]
  <2>1. CASE n = 1
    BY <1>1, <1>2, <1>3, <2>1, EmptySeq
  <2>2. CASE n # 1
    <3>1. r # <<>> /\ n - 1 \in 1 .. n - 1
      BY <1>1, <2>2, EmptySeq
    <3>2. CASE k = n
      BY <1>1, <1>3, <2>2, <3>1, <3>2
    <3>3. CASE k # n
      <4>1. m # nil
        BY <1>1, <1>3, <3>3
      <4>2. r[n - 1] = q[n]
        BY <1>1, <1>3, <3>1, <3>3
      <4> QED BY <1>2, <3>1, <4>1, <4>2
    <3> QED BY <3>2, <3>3
  <2> QED BY <2>1, <2>2
<1>11. Path(r, h2, nx2)
  BY <1>1, <1>6, <1>7, <1>9 DEF Path
<1> QED BY <1>1, <1>8, <1>10, <1>11 DEF Chain

-----------------------------------------------------------------------------
(***************************************************************************)
(* The steps.                                                              *)
(***************************************************************************)

\* What the invariant says about one list.
LEMMA ListFacts ==
  ASSUME ListInv, NEW l \in List
  PROVE  /\ Chain(Tasks(l), head[l], tail[l], next, prev)
         /\ Tasks(l) \in Seq(Task) /\ IsInjective(Tasks(l)) /\ Len(Tasks(l)) \in Nat
         /\ \A i \in 1 .. Len(Tasks(l)) :
              /\ Tasks(l)[i] \in ToSet(Tasks(l)) /\ Tasks(l)[i] \in Task
              /\ Tasks(l)[i] # nil
         /\ tail[l] = IF Len(Tasks(l)) = 0 THEN nil ELSE Tasks(l)[Len(Tasks(l))]
<1>1. Chain(Tasks(l), head[l], tail[l], next, prev)
  BY DEF ListInv, Linked
<1> HIDE DEF Tasks
<1>2. Tasks(l) \in Seq(Task) /\ IsInjective(Tasks(l))
  BY <1>1 DEF Chain, Path
<1>3. /\ Len(Tasks(l)) \in Nat /\ DOMAIN Tasks(l) = 1 .. Len(Tasks(l))
      /\ \A i \in 1 .. Len(Tasks(l)) : Tasks(l)[i] \in Task
  BY <1>2, LenProperties
<1>4. tail[l] = IF Tasks(l) = <<>> THEN nil ELSE Tasks(l)[Len(Tasks(l))]
  BY <1>1 DEF Chain
<1>5. Tasks(l) = <<>> <=> Len(Tasks(l)) = 0
  BY <1>2, EmptySeq
<1> QED BY <1>1, <1>2, <1>3, <1>4, <1>5, ListAssumption DEF ToSet

\* A step that relinks list l and leaves the tasks of the others alone.
LEMMA OneList ==
  ASSUME ListInv, ListTypeOK', NEW l \in List, NEW r,
         Chain(r, head'[l], tail'[l], next', prev'),
         \A k \in List : k # l =>
           /\ head'[k] = head[k] /\ tail'[k] = tail[k]
           /\ \A u \in ToSet(Tasks(k)) : next'[u] = next[u] /\ prev'[u] = prev[u]
           /\ ToSet(r) \cap ToSet(Tasks(k)) = {}
  PROVE  /\ ListInv'
         /\ [k \in List |-> Tasks(k)]' = [[k \in List |-> Tasks(k)] EXCEPT ![l] = r]
<1>1. Tasks(l)' = r
  BY WalkPath DEF Chain, Tasks
<1>2. ASSUME NEW k \in List, k # l
      PROVE  /\ Chain(Tasks(k), head'[k], tail'[k], next', prev')
             /\ Tasks(k)' = Tasks(k)
  <2>1. Chain(Tasks(k), head[k], tail[k], next, prev)
    BY DEF ListInv, Linked
  <2>2. PICK q : q = Tasks(k)
    OBVIOUS
  <2>3. \A u \in ToSet(q) : next'[u] = next[u] /\ prev'[u] = prev[u]
    BY <1>2, <2>2
  <2>4. Chain(q, head[k], tail[k], next, prev)
    BY <2>1, <2>2
  <2>5. Chain(q, head[k], tail[k], next', prev')
    BY <2>3, <2>4, ChainFrame
  <2>6. head'[k] = head[k] /\ tail'[k] = tail[k]
    BY <1>2
  <2>7. Chain(q, head'[k], tail'[k], next', prev')
    BY <2>5, <2>6
  <2>8. Walk(head'[k], next') = q
    BY <2>7, WalkPath DEF Chain
  <2> QED BY <2>2, <2>7, <2>8 DEF Tasks
<1>3. Linked'
  <2> SUFFICES ASSUME NEW k \in List
               PROVE  Chain(Tasks(k)', head'[k], tail'[k], next', prev')
    BY DEF Linked
  <2>1. CASE k = l
    BY <1>1, <2>1
  <2>2. CASE k # l
    BY <1>2, <2>2
  <2> QED BY <2>1, <2>2
<1>4. Apart'
  <2> SUFFICES ASSUME NEW j \in List, NEW k \in List, j # k
               PROVE  ToSet(Tasks(j)') \cap ToSet(Tasks(k)') = {}
    BY DEF Apart
  <2>1. CASE j = l
    BY <1>1, <1>2, <2>1
  <2>2. CASE k = l
    BY <1>1, <1>2, <2>2
  <2>3. CASE j # l /\ k # l
    BY <1>2, <2>3 DEF ListInv, Apart
  <2> QED BY <2>1, <2>2, <2>3
<1>5. [k \in List |-> Tasks(k)]' = [[k \in List |-> Tasks(k)] EXCEPT ![l] = r]
  <2>1. [k \in List |-> Tasks(k)]' = [k \in List |-> Tasks(k)']
    OBVIOUS
  <2>2. \A k \in List : Tasks(k)' = IF k = l THEN r ELSE Tasks(k)
    BY <1>1, <1>2
  <2> HIDE DEF Tasks
  <2> QED BY <2>1, <2>2
<1> QED BY <1>3, <1>4, <1>5 DEF ListInv

\* The tasks on lists.
LEMMA ListedTasks == Listed = UNION { ToSet(Tasks(l)) : l \in List }
  BY DEF Listed, Tasks

\* An unlinked task is linked in at place p of list l, between b and m.
LEMMA LinkIn ==
  ASSUME ListInv, NEW l \in List, NEW t \in Task, t \notin Listed,
         NEW p, NEW b, NEW m, Between(Tasks(l), p, b, m),
         NEW r, Inserted(r, Tasks(l), p, t),
         next' = [set(next, b, t) EXCEPT ![t] = m],
         prev' = [set(prev, m, t) EXCEPT ![t] = b],
         head' = (IF b = nil THEN [head EXCEPT ![l] = t] ELSE head),
         tail' = (IF m = nil THEN [tail EXCEPT ![l] = t] ELSE tail),
         alarmtime' \in [Task -> Nat]
  PROVE  /\ ListInv'
         /\ [k \in List |-> Tasks(k)]' = [[k \in List |-> Tasks(k)] EXCEPT ![l] = r]
<1>1. ListTypeOK
  BY DEF ListInv
<1>2. PICK q : q = Tasks(l)
  OBVIOUS
<1>3. /\ Chain(q, head[l], tail[l], next, prev) /\ Len(q) \in Nat /\ q \in Seq(Task)
      /\ \A i \in 1 .. Len(q) : q[i] \in ToSet(q) /\ q[i] \in Task /\ q[i] # nil
  BY <1>2, ListFacts
<1>4. /\ p \in 1 .. Len(q) + 1
      /\ b = (IF p = 1 THEN nil ELSE q[p - 1])
      /\ m = (IF p = Len(q) + 1 THEN nil ELSE q[p])
      /\ Len(r) = Len(q) + 1
      /\ r \in Seq(Task) /\ DOMAIN r = 1 .. Len(r)
      /\ \A i \in 1 .. Len(q) + 1 : r[i] = IF i < p THEN q[i] ELSE IF i = p THEN t ELSE q[i - 1]
  BY <1>2, LenProperties DEF Between, Inserted
<1>5. \A k \in List : t \notin ToSet(Tasks(k))
  BY ListedTasks
<1> HIDE DEF Tasks
<1>6. t \notin ToSet(q) /\ t # nil
  BY <1>2, <1>5, ListAssumption
<1>7. (b # nil => b \in ToSet(q) /\ b \in Task) /\ (m # nil => m \in ToSet(q) /\ m \in Task)
  <2>1. (p # 1 => p - 1 \in 1 .. Len(q)) /\ (p # Len(q) + 1 => p \in 1 .. Len(q))
    BY <1>3, <1>4
  <2> QED BY <1>3, <1>4, <2>1
<1>8. /\ next' \in [Task -> Task \cup {nil}] /\ prev' \in [Task -> Task \cup {nil}]
      /\ next'[t] = m /\ (b # nil => next'[b] = t)
      /\ prev'[t] = b /\ (m # nil => prev'[m] = t)
      /\ \A u \in Task : u # b /\ u # t => next'[u] = next[u]
      /\ \A u \in Task : u # m /\ u # t => prev'[u] = prev[u]
  BY <1>1, <1>6, <1>7 DEF ListTypeOK, set
<1>9. /\ head' \in [List -> Task \cup {nil}] /\ tail' \in [List -> Task \cup {nil}]
      /\ head'[l] = (IF b = nil THEN t ELSE head[l])
      /\ tail'[l] = (IF m = nil THEN t ELSE tail[l])
      /\ \A k \in List : k # l => head'[k] = head[k] /\ tail'[k] = tail[k]
  BY <1>1 DEF ListTypeOK
<1>10. ListTypeOK'
  BY <1>8, <1>9 DEF ListTypeOK
<1>11. ToSet(q) \subseteq Task
  BY <1>3, LenProperties DEF ToSet
<1>12. /\ \A u \in ToSet(q) : u # b => next'[u] = next[u]
       /\ \A u \in ToSet(q) : u # m => prev'[u] = prev[u]
  BY <1>6, <1>8, <1>11
<1>13. Chain(r, head'[l], tail'[l], next', prev')
  <2>1. PICK nx, pv, nx2, pv2, h, e, h2, e2 :
          /\ nx = next /\ pv = prev /\ nx2 = next' /\ pv2 = prev'
          /\ h = head[l] /\ e = tail[l] /\ h2 = head'[l] /\ e2 = tail'[l]
    OBVIOUS
  <2>2. Chain(q, h, e, nx, pv)
    BY <1>3, <2>1
  <2>3. LinksIn(q, nx, nx2, t, b, m) /\ LinksIn(q, pv, pv2, t, m, b)
    BY <1>8, <1>12, <2>1 DEF LinksIn
  <2>4. Between(q, p, b, m) /\ Inserted(r, q, p, t)
    BY <1>2
  <2>5. h2 = (IF b = nil THEN t ELSE h) /\ e2 = (IF m = nil THEN t ELSE e)
    BY <1>9, <2>1
  <2>6. Chain(r, h2, e2, nx2, pv2)
    BY <1>6, <2>2, <2>3, <2>4, <2>5, ChainInsert
  <2> QED BY <2>1, <2>6
<1>15. \A x \in ToSet(r) : x = t \/ x \in ToSet(q)
  <2> SUFFICES ASSUME NEW x \in ToSet(r) PROVE x = t \/ x \in ToSet(q)
    OBVIOUS
  <2>1. PICK i \in 1 .. Len(q) + 1 : x = r[i]
    BY <1>4, LenProperties DEF ToSet
  <2>2. (i < p => i \in 1 .. Len(q)) /\ (~(i < p) /\ i # p => i - 1 \in 1 .. Len(q))
    BY <1>3, <1>4, <2>1
  <2> QED BY <1>3, <1>4, <2>1, <2>2
<1>16. ASSUME NEW k \in List, k # l
       PROVE  /\ head'[k] = head[k] /\ tail'[k] = tail[k]
              /\ \A u \in ToSet(Tasks(k)) : next'[u] = next[u] /\ prev'[u] = prev[u]
              /\ ToSet(r) \cap ToSet(Tasks(k)) = {}
  <2>1. ToSet(Tasks(k)) \cap ToSet(q) = {}
    BY <1>2, <1>16 DEF ListInv, Apart
  <2>2. ToSet(Tasks(k)) \subseteq Task
    BY ListFacts, LenProperties DEF ToSet
  <2>3. \A u \in ToSet(Tasks(k)) : u # t /\ u # b /\ u # m
    BY <1>5, <1>7, <2>1, <2>2, ListAssumption
  <2> QED BY <1>5, <1>8, <1>9, <1>15, <1>16, <2>1, <2>2, <2>3
<1> QED BY <1>10, <1>13, <1>16, OneList

\* The operators of TaskSeq are those of this module.
LEMMA SameOperators ==
  /\ Listed = Abstract!Listed
  /\ \A q : ToSet(q) = Abstract!ToSet(q)
  /\ \A q, t : Abstract!addtask(q, t) = Append(q, t)
  /\ \A q, t : Abstract!deltask(q, t) = RemoveFirst(q, t)
<1>1. \A q : ToSet(q) = Abstract!ToSet(q)
  BY DEF ToSet, Abstract!ToSet
<1>2. Listed = Abstract!Listed
  BY <1>1 DEF Listed, Abstract!Listed
<1>3. \A q, t : Abstract!addtask(q, t) = Append(q, t)
  BY DEF Abstract!addtask
<1>4. \A q, t : Abstract!deltask(q, t) = RemoveFirst(q, t)
  BY Zenon DEF Abstract!deltask, Abstract!RemoveFirst, Abstract!SelectInSeq, Abstract!RemoveAt,
              Abstract!Min, RemoveFirst, SelectInSeq, RemoveAt, Min
<1> QED BY <1>1, <1>2, <1>3, <1>4

\* deltask changes its list as the sequence operator does.
LEMMA DelStep ==
  ASSUME ListInv, NEW l \in List, NEW t \in Task, deltask(l, t)
  PROVE  ListInv' /\ Abstract!Del(l, t)
<1>1. ListTypeOK
  BY DEF ListInv
<1>2. PICK q : q = Tasks(l)
  OBVIOUS
<1>3. /\ Chain(q, head[l], tail[l], next, prev) /\ Len(q) \in Nat /\ q \in Seq(Task)
      /\ IsInjective(q)
      /\ \A i \in 1 .. Len(q) : q[i] \in ToSet(q) /\ q[i] \in Task /\ q[i] # nil
  BY <1>2, ListFacts
<1>4. t \in ToSet(q)
  BY <1>2 DEF deltask, Tasks
<1>5. PICK k \in 1 .. Len(q) : q[k] = t
  BY <1>3, <1>4, LenProperties DEF ToSet
<1>6. PICK r : r = RemoveFirst(q, t)
  OBVIOUS
<1>7. Removed(r, q, k)
  BY <1>3, <1>5, <1>6, RemoveElements DEF Removed
<1>8. PICK b, m : b = prev[t] /\ m = next[t]
  OBVIOUS
<1>9. /\ next' = set(next, b, m) /\ prev' = set(prev, m, b)
      /\ head' = IF b = nil THEN [head EXCEPT ![l] = m] ELSE head
      /\ tail' = [tail EXCEPT ![l] = IF m = nil THEN b ELSE tail[l]]
      /\ alarmtime' = alarmtime
  BY <1>8 DEF deltask, lasttask
<1> HIDE DEF Tasks
<1>10. b \in Task \cup {nil} /\ m \in Task \cup {nil} /\ nil \notin Task
  BY <1>1, <1>8, ListAssumption DEF ListTypeOK
<1>11. /\ b = IF k = 1 THEN nil ELSE q[k - 1]
       /\ m = IF k = Len(q) THEN nil ELSE q[k + 1]
  BY <1>3, <1>5, <1>8 DEF Chain, Path
<1>12. (b # nil => b \in ToSet(q)) /\ (m # nil => m \in ToSet(q))
  <2>1. (k # 1 => k - 1 \in 1 .. Len(q)) /\ (k # Len(q) => k + 1 \in 1 .. Len(q))
    BY <1>3
  <2> QED BY <1>3, <1>11, <2>1
<1>13. /\ next' \in [Task -> Task \cup {nil}] /\ prev' \in [Task -> Task \cup {nil}]
       /\ (b # nil => next'[b] = m) /\ (m # nil => prev'[m] = b)
       /\ \A u \in Task : u # b => next'[u] = next[u]
       /\ \A u \in Task : u # m => prev'[u] = prev[u]
  BY <1>1, <1>9, <1>10 DEF ListTypeOK, set
<1>14. /\ head' \in [List -> Task \cup {nil}] /\ tail' \in [List -> Task \cup {nil}]
       /\ head'[l] = (IF b = nil THEN m ELSE head[l])
       /\ tail'[l] = (IF m = nil THEN b ELSE tail[l])
       /\ \A j \in List : j # l => head'[j] = head[j] /\ tail'[j] = tail[j]
  BY <1>1, <1>9, <1>10 DEF ListTypeOK
<1>15. ListTypeOK'
  BY <1>1, <1>9, <1>13, <1>14 DEF ListTypeOK
<1>16. ToSet(q) \subseteq Task
  BY <1>3, LenProperties DEF ToSet
<1>17. Chain(r, head'[l], tail'[l], next', prev')
  <2>1. PICK nx, pv, nx2, pv2, h, e, h2, e2 :
          /\ nx = next /\ pv = prev /\ nx2 = next' /\ pv2 = prev'
          /\ h = head[l] /\ e = tail[l] /\ h2 = head'[l] /\ e2 = tail'[l]
    OBVIOUS
  <2>2. Chain(q, h, e, nx, pv) /\ Around(q, k, nx, pv, b, m)
    BY <1>3, <1>5, <1>8, <2>1 DEF Around
  <2>3. LinksOut(q, nx, nx2, b, m) /\ LinksOut(q, pv, pv2, m, b)
    BY <1>13, <1>16, <2>1 DEF LinksOut
  <2>4. h2 = (IF b = nil THEN m ELSE h) /\ e2 = (IF m = nil THEN b ELSE e)
    BY <1>14, <2>1
  <2>5. Chain(r, h2, e2, nx2, pv2)
    BY <1>7, <2>2, <2>3, <2>4, ChainDelete
  <2> QED BY <2>1, <2>5
<1>18. ToSet(r) \subseteq ToSet(q)
  <2>1. /\ r \in Seq(Task) /\ Len(r) = Len(q) - 1 /\ DOMAIN r = 1 .. Len(q) - 1
        /\ \A i \in 1 .. Len(q) - 1 : r[i] = IF i < k THEN q[i] ELSE q[i + 1]
    BY <1>7, LenProperties DEF Removed
  <2> SUFFICES ASSUME NEW x \in ToSet(r) PROVE x \in ToSet(q)
    OBVIOUS
  <2>2. PICK i \in 1 .. Len(q) - 1 : x = r[i]
    BY <2>1 DEF ToSet
  <2>3. i \in 1 .. Len(q) /\ i + 1 \in 1 .. Len(q)
    BY <1>3, <2>2
  <2> QED BY <1>3, <2>1, <2>2, <2>3
<1>19. ASSUME NEW j \in List, j # l
       PROVE  /\ head'[j] = head[j] /\ tail'[j] = tail[j]
              /\ \A u \in ToSet(Tasks(j)) : next'[u] = next[u] /\ prev'[u] = prev[u]
              /\ ToSet(r) \cap ToSet(Tasks(j)) = {}
  <2>1. ToSet(Tasks(j)) \cap ToSet(q) = {}
    BY <1>2, <1>19 DEF ListInv, Apart
  <2>2. ToSet(Tasks(j)) \subseteq Task
    BY ListFacts, LenProperties DEF ToSet
  <2>3. \A u \in ToSet(Tasks(j)) : u # b /\ u # m
    BY <1>10, <1>12, <2>1, <2>2
  <2> QED BY <1>13, <1>14, <1>18, <1>19, <2>1, <2>2, <2>3
<1>20. /\ ListInv'
       /\ [j \in List |-> Tasks(j)]' = [[j \in List |-> Tasks(j)] EXCEPT ![l] = r]
  BY <1>15, <1>17, <1>19, OneList
<1>21. r = Abstract!deltask(q, t) /\ t \in Abstract!ToSet(q)
  BY <1>4, <1>6, SameOperators
<1>22. Abstract!Del(l, t)
  <2>1. [j \in List |-> Tasks(j)][l] = q
    BY <1>2
  <2> QED BY <1>9, <1>20, <1>21, <2>1 DEF Abstract!Del, Tasks
<1> QED BY <1>20, <1>22

\* addtask links in at the tail.
LEMMA AddStep ==
  ASSUME ListInv, NEW l \in List, NEW t \in Task, addtask(l, t)
  PROVE  ListInv' /\ Abstract!Add(l, t)
<1>1. ListTypeOK
  BY DEF ListInv
<1>2. PICK q, r, p, b : q = Tasks(l) /\ r = Append(q, t) /\ p = Len(q) + 1 /\ b = tail[l]
  OBVIOUS
<1>3. /\ Len(q) \in Nat /\ q \in Seq(Task)
      /\ b = IF Len(q) = 0 THEN nil ELSE q[Len(q)]
  BY <1>2, ListFacts
<1>4. Between(q, p, b, nil)
  BY <1>2, <1>3 DEF Between
<1>5. Inserted(r, q, p, t)
  <2>1. /\ r \in Seq(Task) /\ Len(r) = Len(q) + 1
        /\ \A i \in 1 .. Len(q) + 1 : r[i] = IF i = Len(q) + 1 THEN t ELSE q[i]
    BY <1>2, <1>3, AppendProperties
  <2> QED BY <1>2, <1>3, <2>1 DEF Inserted
<1>6. /\ next' = [set(next, b, t) EXCEPT ![t] = nil]
      /\ prev' = [set(prev, nil, t) EXCEPT ![t] = b]
      /\ head' = (IF b = nil THEN [head EXCEPT ![l] = t] ELSE head)
      /\ tail' = (IF nil = nil THEN [tail EXCEPT ![l] = t] ELSE tail)
      /\ alarmtime' = alarmtime /\ t \notin Listed
  BY <1>2 DEF addtask, set
<1>7. alarmtime' \in [Task -> Nat]
  BY <1>1, <1>6 DEF ListTypeOK
<1> HIDE DEF Tasks
<1>8. Between(Tasks(l), p, b, nil) /\ Inserted(r, Tasks(l), p, t)
  BY <1>2, <1>4, <1>5
<1>9. /\ ListInv'
      /\ [j \in List |-> Tasks(j)]' = [[j \in List |-> Tasks(j)] EXCEPT ![l] = r]
  BY <1>6, <1>7, <1>8, LinkIn
<1>10. r = Abstract!addtask(q, t)
  BY <1>2, SameOperators
<1>11. Abstract!Add(l, t)
  <2>1. [j \in List |-> Tasks(j)][l] = q
    BY <1>2
  <2> QED BY <1>6, <1>9, <1>10, <2>1, SameOperators DEF Abstract!Add, Tasks
<1> QED BY <1>9, <1>11

\* taskdelay links in front of the first sleeper that is not due before t.
LEMMA DelayStep ==
  ASSUME ListInv, NEW t \in Task, NEW when \in Times, taskdelay(t, when)
  PROVE  ListInv' /\ Abstract!Delay(t, when)
<1>1. ListTypeOK /\ SleepList \in List /\ when \in Nat /\ nil \notin Task
  BY ListAssumption DEF ListInv
<1>2. PICK l, q, later : /\ l = SleepList /\ q = Tasks(SleepList)
                         /\ later = { i \in 1 .. Len(q) : alarmtime[q[i]] >= when }
  OBVIOUS
<1>3. PICK p, n, b : /\ p = (IF later = {} THEN Len(q) + 1 ELSE Min(later))
                     /\ n = (IF later = {} THEN nil ELSE q[Min(later)])
                     /\ b = (IF n # nil THEN prev[n] ELSE tail[l])
  OBVIOUS
<1>4. /\ t \notin Listed
      /\ alarmtime' = [alarmtime EXCEPT ![t] = when]
      /\ prev' = [set(prev, n, t) EXCEPT ![t] = b]
      /\ next' = [set(next, b, t) EXCEPT ![t] = n]
      /\ head' = (IF b = nil THEN [head EXCEPT ![l] = t] ELSE head)
      /\ tail' = (IF n = nil THEN [tail EXCEPT ![l] = t] ELSE tail)
  BY <1>2, <1>3, Zenon DEF taskdelay, Tasks
<1> HIDE DEF Tasks
<1>5. /\ l \in List /\ Len(q) \in Nat /\ q \in Seq(Task)
      /\ \A i \in 1 .. Len(q) : q[i] \in ToSet(q) /\ q[i] \in Task /\ q[i] # nil
      /\ tail[l] = IF Len(q) = 0 THEN nil ELSE q[Len(q)]
      /\ \A i \in 1 .. Len(q) : prev[q[i]] = IF i = 1 THEN nil ELSE q[i - 1]
  BY <1>1, <1>2, ListFacts DEF Chain
<1>6. later # {} => Min(later) \in 1 .. Len(q)
  <2>1. later \in SUBSET Nat
    BY <1>2, <1>5
  <2>2. later # {} => Min(later) \in later
    BY <2>1, LeastOf
  <2> QED BY <1>2, <2>2
<1>7. p \in 1 .. Len(q) + 1 /\ n = IF p = Len(q) + 1 THEN nil ELSE q[p]
  <2>1. CASE later = {}
    BY <1>3, <1>5, <2>1
  <2>2. CASE later # {}
    <3>1. p = Min(later) /\ n = q[p] /\ p \in 1 .. Len(q)
      BY <1>3, <1>6, <2>2
    <3> QED BY <1>5, <3>1
  <2> QED BY <2>1, <2>2
<1>8. b = IF p = 1 THEN nil ELSE q[p - 1]
  <2>1. CASE p = Len(q) + 1
    BY <1>3, <1>5, <1>7, <2>1
  <2>2. CASE p # Len(q) + 1
    <3>1. p \in 1 .. Len(q) /\ n = q[p]
      BY <1>5, <1>7, <2>2
    <3> QED BY <1>3, <1>5, <3>1
  <2> QED BY <2>1, <2>2
<1>9. Between(Tasks(l), p, b, n)
  BY <1>2, <1>7, <1>8 DEF Between
<1>10. PICK r : r = InsertAt(q, p, t)
  OBVIOUS
<1>11. Inserted(r, Tasks(l), p, t)
  <2>1. Inserted(r, q, p, t)
    <3>1. q \in Seq(Task) /\ p \in 1 .. Len(q) + 1
      BY <1>5, <1>7
    <3>2. /\ InsertAt(q, p, t) \in Seq(Task) /\ Len(InsertAt(q, p, t)) = Len(q) + 1
          /\ \A i \in 1 .. Len(q) + 1 :
               InsertAt(q, p, t)[i] = IF i < p THEN q[i] ELSE IF i = p THEN t ELSE q[i - 1]
      BY <3>1, InsertElements
    <3> QED BY <1>10, <3>2 DEF Inserted
  <2> QED BY <1>2, <2>1
<1>12. alarmtime' \in [Task -> Nat]
  BY <1>1, <1>4 DEF ListTypeOK
<1>13. /\ ListInv'
       /\ [j \in List |-> Tasks(j)]' = [[j \in List |-> Tasks(j)] EXCEPT ![l] = r]
  <2>1. l \in List
    BY <1>5
  <2> QED BY <1>4, <1>9, <1>11, <1>12, <2>1, LinkIn
<1>14. r = Abstract!delaytask(q, t, alarmtime')
  <2>1. alarmtime'[t] = when /\ \A i \in 1 .. Len(q) : alarmtime'[q[i]] = alarmtime[q[i]]
    <3>1. t \notin ToSet(q)
      BY <1>1, <1>2, <1>4 DEF Listed, Tasks
    <3> QED BY <1>1, <1>4, <1>5, <3>1 DEF ListTypeOK
  <2>2. { i \in 1 .. Len(q) : alarmtime'[q[i]] >= alarmtime'[t] } = later
    BY <1>2, <2>1
  <2>3. Abstract!delaytask(q, t, alarmtime') = Abstract!InsertAt(q, p, t)
    <3>1. PICK al : al = alarmtime'
      OBVIOUS
    <3>2. PICK L : L = { i \in 1 .. Len(q) : al[q[i]] >= al[t] }
      OBVIOUS
    <3>3. Abstract!delaytask(q, t, al)
            = Abstract!InsertAt(q, IF L = {} THEN Len(q) + 1 ELSE Abstract!Min(L), t)
      BY <3>2, Zenon DEF Abstract!delaytask
    <3>4. L = later
      BY <2>2, <3>1, <3>2
    <3>5. Abstract!Min(later) = Min(later)
      BY Zenon DEF Abstract!Min, Min
    <3> QED BY <1>3, <3>1, <3>3, <3>4, <3>5, Zenon
  <2>4. Abstract!InsertAt(q, p, t) = InsertAt(q, p, t)
    BY Zenon DEF Abstract!InsertAt, InsertAt
  <2> QED BY <1>10, <2>3, <2>4
<1>15. Abstract!Delay(t, when)
  <2>1. [j \in List |-> Tasks(j)][SleepList] = q
    BY <1>1, <1>2
  <2> QED BY <1>2, <1>4, <1>13, <1>14, <2>1, SameOperators DEF Abstract!Delay, Tasks
<1> QED BY <1>13, <1>15

\* The zeroed lists.
LEMMA InitLists ==
  ASSUME Init
  PROVE  ListInv /\ Abstract!Init
<1>1. \A l \in List : Chain(<<>>, head[l], tail[l], next, prev)
  BY EmptySeq DEF Init, Chain, Path, IsInjective
<1>2. \A l \in List : Tasks(l) = <<>>
  BY <1>1, WalkPath DEF Chain, Tasks
<1>3. ListTypeOK
  BY ListAssumption DEF Init, ListTypeOK
<1>4. Linked
  BY <1>1, <1>2 DEF Linked
<1>5. ToSet(<<>>) = {}
  BY DEF ToSet
<1>6. Apart
  BY <1>2, <1>5 DEF Apart
<1>7. Abstract!Init
  BY <1>2 DEF Init, Abstract!Init, Tasks
<1> QED BY <1>3, <1>4, <1>6, <1>7 DEF ListInv

\* Every step of the pointer code keeps the invariant and is a step of the
\* sequences, or leaves them alone.
LEMMA ListStep ==
  ASSUME ListInv, [Next]_vars
  PROVE  ListInv' /\ [Abstract!Next]_<<[l \in List |-> Walk(head[l], next)], alarmtime>>
<1>1. CASE Next
  <2>1. PICK t \in Task : \/ \E l \in List : addtask(l, t) \/ deltask(l, t)
                          \/ \E when \in Times : taskdelay(t, when)
    BY <1>1 DEF Next
  <2>2. CASE \E l \in List : addtask(l, t)
    BY <2>2, AddStep DEF Abstract!Next
  <2>3. CASE \E l \in List : deltask(l, t)
    BY <2>3, DelStep DEF Abstract!Next
  <2>4. CASE \E when \in Times : taskdelay(t, when)
    BY <2>4, DelayStep DEF Abstract!Next
  <2> QED BY <2>1, <2>2, <2>3, <2>4
<1>2. CASE UNCHANGED vars
  BY <1>2 DEF vars, ListInv, ListTypeOK, Linked, Apart, Tasks
<1> QED BY <1>1, <1>2

-----------------------------------------------------------------------------
(***************************************************************************)
(* The theorems.                                                           *)
(***************************************************************************)

\* Every list is a chain of different tasks with both kinds of links right,
\* and no task is on two lists (task.c addtask, deltask; fd.c taskdelay).
THEOREM ListInvariance == Spec => []ListInv
<1>1. Init => ListInv
  BY InitLists
<1>2. ListInv /\ [Next]_vars => ListInv'
  BY ListStep
<1> QED BY <1>1, <1>2, PTL DEF Spec

\* The prev links are the next links backwards, from the tail to the head.
THEOREM BackLinksCorrect == Spec => []BackLinks
<1>1. ListInv => BackLinks
  <2> SUFFICES ASSUME ListInv, NEW l \in List
               PROVE  Walk(tail[l], prev) = Reverse(Walk(head[l], next))
    BY DEF BackLinks
  <2>1. Path(Reverse(Tasks(l)), tail[l], prev)
    BY ListFacts, ChainReverse
  <2> QED BY <2>1, WalkPath DEF Tasks
<1> QED BY <1>1, ListInvariance, PTL

\* The pointer code implements the sequences of TaskLists: addtask, deltask
\* and taskdelay change one list as Append, RemoveFirst and the insertion in
\* alarm order do, and no other.
THEOREM TaskListsImplemented == Spec => TaskListsSpec
<1>1. Init => Abstract!Init
  BY InitLists
<1>2. ListInv /\ [Next]_vars
        => [Abstract!Next]_<<[l \in List |-> Walk(head[l], next)], alarmtime>>
  BY ListStep
<1> QED BY <1>1, <1>2, ListInvariance, PTL DEF Spec, TaskListsSpec, Abstract!Spec

=============================================================================
