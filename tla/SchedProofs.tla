---------------------------- MODULE SchedProofs ----------------------------
(***************************************************************************)
(* Lemmas about the list operators of TaskSeq and about the run queue of   *)
(* Sched, cited by the proofs about the modules built on them.             *)
(***************************************************************************)
EXTENDS Sched, SequenceTheorems, FiniteSetTheorems, TLAPS

\* addtask lengthens a list by the added task, and a list without
\* duplicates stays so when the task was not on it.
LEMMA AddTaskFacts ==
  ASSUME NEW S, NEW l \in Seq(S), NEW t \in S
  PROVE  /\ addtask(l, t) \in Seq(S)
         /\ addtask(l, t) # <<>>
         /\ ToSet(addtask(l, t)) = ToSet(l) \cup {t}
         /\ IsInjective(l) /\ t \notin ToSet(l) => IsInjective(addtask(l, t))
<1> DEFINE a == Append(l, t)
<1>1. /\ a \in Seq(S) /\ a # <<>>
      /\ Len(a) = Len(l) + 1 /\ Len(l) \in Nat
      /\ DOMAIN a = 1 .. Len(l) + 1 /\ DOMAIN l = 1 .. Len(l)
      /\ \A i \in 1 .. Len(l) : a[i] = l[i]
      /\ a[Len(l) + 1] = t
  BY AppendProperties, LenProperties
<1> HIDE DEF a
<1>2. ToSet(a) = ToSet(l) \cup {t}
  <2>1. ASSUME NEW x \in ToSet(a) PROVE x \in ToSet(l) \cup {t}
    <3>1. PICK i \in 1 .. Len(l) + 1 : x = a[i]
      BY <1>1 DEF ToSet
    <3>2. CASE i = Len(l) + 1
      BY <3>1, <3>2, <1>1
    <3>3. CASE i \in 1 .. Len(l)
      BY <3>1, <3>3, <1>1 DEF ToSet
    <3> QED BY <1>1, <3>2, <3>3
  <2>2. ASSUME NEW x \in ToSet(l) PROVE x \in ToSet(a)
    <3>1. PICK i \in 1 .. Len(l) : x = l[i]
      BY <1>1 DEF ToSet
    <3>2. i \in 1 .. Len(l) + 1 /\ x = a[i]
      BY <1>1, <3>1
    <3> QED BY <1>1, <3>2 DEF ToSet
  <2>3. t \in ToSet(a)
    <3>1. Len(l) + 1 \in 1 .. Len(l) + 1
      BY <1>1
    <3> QED BY <1>1, <3>1 DEF ToSet
  <2> QED BY <2>1, <2>2, <2>3
<1>3. ASSUME IsInjective(l), t \notin ToSet(l)
      PROVE  IsInjective(a)
  <2>1. \A i \in 1 .. Len(l) : a[i] = l[i] /\ l[i] # t
    BY <1>1, <1>3 DEF ToSet
  <2>2. \A i, j \in 1 .. Len(l) : l[i] = l[j] => i = j
    BY <1>1, <1>3 DEF IsInjective
  <2>3. \A i, j \in 1 .. Len(l) + 1 : a[i] = a[j] => i = j
    BY <1>1, <2>1, <2>2
  <2> QED BY <1>1, <2>3 DEF IsInjective
<1> QED BY <1>1, <1>2, <1>3 DEF addtask, a

\* The case that the scheduler and the locks need: a task that is on no list.
LEMMA AddNewTask ==
  ASSUME NEW S, NEW l \in Seq(S), NEW t \in S, IsInjective(l), t \notin ToSet(l)
  PROVE  /\ addtask(l, t) \in Seq(S)
         /\ ToSet(addtask(l, t)) = ToSet(l) \cup {t}
         /\ IsInjective(addtask(l, t))
  BY AddTaskFacts, ZenonT(60)

\* deltask of the head of a list is its tail; in a list without duplicates
\* the head is then gone.
LEMMA DelHeadFacts ==
  ASSUME NEW S, NEW l \in Seq(S), l # <<>>
  PROVE  /\ deltask(l, Head(l)) = Tail(l)
         /\ Tail(l) \in Seq(S)
         /\ Head(l) \in S /\ Head(l) \in ToSet(l)
         /\ ToSet(Tail(l)) \subseteq ToSet(l)
         /\ IsInjective(l) => /\ IsInjective(Tail(l))
                              /\ ToSet(Tail(l)) = ToSet(l) \ {Head(l)}
<1> DEFINE h == Head(l)
           I == { i \in 1 .. Len(l) : l[i] = h }
<1>1. /\ Len(l) \in Nat \ {0} /\ DOMAIN l = 1 .. Len(l)
      /\ h = l[1]
      /\ Tail(l) \in Seq(S) /\ h \in S
      /\ Len(Tail(l)) = Len(l) - 1 /\ DOMAIN Tail(l) = 1 .. Len(l) - 1
      /\ \A i \in 1 .. Len(l) - 1 : Tail(l)[i] = l[i + 1]
  BY EmptySeq, LenProperties, HeadTailProperties
<1>2. 1 \in I /\ \A i \in I : 1 =< i
  BY <1>1
<1>3. Min(I) = 1
  <2>1. \A x \in I : (\A y \in I : x =< y) => x = 1
    BY <1>1, <1>2
  <2> HIDE DEF I
  <2> QED BY <1>2, <2>1 DEF Min
<1>4. deltask(l, h) = Tail(l)
  <2>1. \E i \in 1 .. Len(l) : l[i] = h
    BY <1>1
  <2>2. SubSeq(l, 1, 0) = <<>>
    BY SubSeqEmpty
  <2>3. RemoveAt(l, 1) = Tail(l)
    BY <1>1, <2>2, TailIsSubSeq, ConcatEmptySeq DEF RemoveAt
  <2>4. deltask(l, h) = RemoveAt(l, IF I # {} THEN Min(I) ELSE 0)
    BY <2>1 DEF deltask, RemoveFirst, SelectInSeq
  <2> HIDE DEF I
  <2> QED BY <1>2, <1>3, <2>3, <2>4
<1>5. h \in ToSet(l)
  BY <1>1 DEF ToSet
<1>6. ToSet(Tail(l)) \subseteq ToSet(l)
  BY <1>1 DEF ToSet
<1>7. ASSUME IsInjective(l)
      PROVE  IsInjective(Tail(l)) /\ ToSet(Tail(l)) = ToSet(l) \ {h}
  <2>1. \A i, j \in 1 .. Len(l) : l[i] = l[j] => i = j
    BY <1>1, <1>7 DEF IsInjective
  <2>2. \A i, j \in 1 .. Len(l) - 1 : Tail(l)[i] = Tail(l)[j] => i = j
    BY <1>1, <2>1
  <2>3. \A x \in ToSet(Tail(l)) : x # h
    BY <1>1, <2>1 DEF ToSet
  <2>4. ASSUME NEW x \in ToSet(l), x # h PROVE x \in ToSet(Tail(l))
    <3>1. PICK i \in 1 .. Len(l) : x = l[i]
      BY <1>1 DEF ToSet
    <3>2. i # 1
      BY <1>1, <2>4, <3>1
    <3>3. i - 1 \in 1 .. Len(l) - 1 /\ Tail(l)[i - 1] = x
      BY <1>1, <3>1, <3>2
    <3> QED BY <1>1, <3>3 DEF ToSet
  <2> QED BY <1>1, <1>6, <2>2, <2>3, <2>4 DEF IsInjective
<1> QED BY <1>1, <1>4, <1>5, <1>6, <1>7

\* The members of a list are the elements it was made of.
LEMMA ToSetFacts ==
  ASSUME NEW S, NEW l \in Seq(S)
  PROVE  /\ ToSet(l) \subseteq S
         /\ ToSet(l) = {} <=> l = <<>>
<1>1. Len(l) \in Nat /\ DOMAIN l = 1 .. Len(l) /\ l \in [1 .. Len(l) -> S]
  BY LenProperties
<1>2. l # <<>> => l[1] \in ToSet(l)
  BY <1>1, EmptySeq DEF ToSet
<1>3. ToSet(<<>>) = {}
  BY DEF ToSet
<1> QED BY <1>1, <1>2, <1>3 DEF ToSet

\* Appending a list to another joins their members; two lists without
\* duplicates and without a common member give one without duplicates.
LEMMA ConcatFacts ==
  ASSUME NEW S, NEW l \in Seq(S), NEW m \in Seq(S)
  PROVE  /\ l \o m \in Seq(S)
         /\ ToSet(l \o m) = ToSet(l) \cup ToSet(m)
         /\ IsInjective(l) /\ IsInjective(m) /\ ToSet(m) \cap ToSet(l) = {}
              => IsInjective(l \o m)
<1> DEFINE c == l \o m
           k == Len(l)
           n == Len(m)
<1>1. /\ c \in Seq(S) /\ k \in Nat /\ n \in Nat
      /\ DOMAIN c = 1 .. k + n /\ DOMAIN l = 1 .. k /\ DOMAIN m = 1 .. n
      /\ \A i \in 1 .. k + n : c[i] = IF i <= k THEN l[i] ELSE m[i - k]
  BY ConcatProperties, LenProperties
<1> HIDE DEF c, k, n
<1>2. \A i \in 1 .. k + n :
        \/ i \in 1 .. k /\ c[i] = l[i]
        \/ i - k \in 1 .. n /\ c[i] = m[i - k]
  BY <1>1
<1>3. \A i \in 1 .. k : i \in 1 .. k + n /\ c[i] = l[i]
  BY <1>1
<1>4. ASSUME NEW i \in 1 .. n PROVE i + k \in 1 .. k + n /\ c[i + k] = m[i]
  <2>1. i + k \in 1 .. k + n /\ ~(i + k <= k) /\ (i + k) - k = i
    BY <1>1
  <2> QED BY <1>1, <2>1
<1>5. ToSet(c) = ToSet(l) \cup ToSet(m)
  <2>1. ToSet(c) \subseteq ToSet(l) \cup ToSet(m)
    BY <1>1, <1>2 DEF ToSet
  <2>2. ToSet(l) \subseteq ToSet(c)
    BY <1>1, <1>3 DEF ToSet
  <2>3. ASSUME NEW x \in ToSet(m) PROVE x \in ToSet(c)
    <3>1. PICK i \in 1 .. n : x = m[i]
      BY <1>1, Zenon DEF ToSet
    <3>2. i + k \in DOMAIN c /\ c[i + k] = x
      BY <1>1, <1>4, <3>1
    <3> QED BY <3>2, Zenon DEF ToSet
  <2> QED BY <2>1, <2>2, <2>3
<1>6. ASSUME IsInjective(l), IsInjective(m), ToSet(m) \cap ToSet(l) = {}
      PROVE  IsInjective(c)
  <2>1. \A i, j \in 1 .. k : l[i] = l[j] => i = j
    BY <1>1, <1>6 DEF IsInjective
  <2>2. \A i, j \in 1 .. n : m[i] = m[j] => i = j
    BY <1>1, <1>6 DEF IsInjective
  <2>3. \A i \in 1 .. k, j \in 1 .. n : l[i] # m[j]
    BY <1>1, <1>6 DEF ToSet
  <2>4. \A i, j \in 1 .. k + n : c[i] = c[j] => i = j
    BY <1>1, <1>2, <2>1, <2>2, <2>3
  <2> QED BY <1>1, <2>4 DEF IsInjective
<1> QED BY <1>1, <1>5, <1>6 DEF c

\* A list without duplicates has as many members as elements.
LEMMA InjectiveCard ==
  ASSUME NEW S, NEW l \in Seq(S), IsInjective(l)
  PROVE  IsFiniteSet(ToSet(l)) /\ Cardinality(ToSet(l)) = Len(l)
<1>1. Len(l) \in Nat /\ DOMAIN l = 1 .. Len(l) /\ l \in [1 .. Len(l) -> S]
  BY LenProperties
<1>2. l \in Bijection(1 .. Len(l), ToSet(l))
  <2>1. l \in [1 .. Len(l) -> ToSet(l)]
    BY <1>1 DEF ToSet
  <2>2. \A i, j \in 1 .. Len(l) : l[i] = l[j] => i = j
    BY <1>1 DEF IsInjective
  <2>3. \A x \in ToSet(l) : \E i \in 1 .. Len(l) : l[i] = x
    BY <1>1 DEF ToSet
  <2> QED BY <2>1, <2>2, <2>3 DEF Bijection, Injection, Surjection, IsInjective
<1>3. ExistsBijection(1 .. Len(l), ToSet(l))
  BY <1>2 DEF ExistsBijection
<1> QED BY <1>1, <1>3, FS_CountingElements, FS_NatBijection

\* Front drops the last element and nothing else.
LEMMA FrontFacts ==
  ASSUME NEW S, NEW s \in Seq(S), s # <<>>
  PROVE  /\ Front(s) \in Seq(S)
         /\ Len(Front(s)) = Len(s) - 1
         /\ DOMAIN Front(s) = 1 .. Len(s) - 1
         /\ \A i \in 1 .. Len(s) - 1 : Front(s)[i] = s[i]
<1>1. Len(s) \in Nat /\ Len(s) > 0
  BY EmptySeq
<1>2. Front(s) \in Seq(S)
  BY <1>1 DEF Front
<1>3. Len(Front(s)) = Len(s) - 1
  <2> DEFINE n == Len(s)
  <2>1. n \in Nat /\ n > 0 /\ n = Len(s)
    BY <1>1
  <2> HIDE DEF n
  <2> QED BY <2>1 DEF Front
<1>4. \A i \in 1 .. Len(s) - 1 : Front(s)[i] = s[i]
  BY <1>1 DEF Front
<1> QED BY <1>2, <1>3, <1>4, LenProperties

\* Cutting a list after its first n elements cuts its members in two.
LEMMA CutFacts ==
  ASSUME NEW S, NEW l \in Seq(S), NEW n \in 0 .. Len(l)
  PROVE  /\ SubSeq(l, 1, n) \in Seq(S) /\ SubSeq(l, n + 1, Len(l)) \in Seq(S)
         /\ Len(SubSeq(l, 1, n)) = n
         /\ \A i \in 1 .. n : SubSeq(l, 1, n)[i] = l[i]
         /\ Len(SubSeq(l, n + 1, Len(l))) = Len(l) - n
         /\ \A i \in 1 .. Len(l) - n : SubSeq(l, n + 1, Len(l))[i] = l[n + i]
         /\ ToSet(l) = ToSet(SubSeq(l, 1, n)) \cup ToSet(SubSeq(l, n + 1, Len(l)))
         /\ IsInjective(l) =>
              /\ IsInjective(SubSeq(l, 1, n)) /\ IsInjective(SubSeq(l, n + 1, Len(l)))
              /\ ToSet(SubSeq(l, 1, n)) \cap ToSet(SubSeq(l, n + 1, Len(l))) = {}
<1> DEFINE k == Len(l)
           a == SubSeq(l, 1, n)
           b == SubSeq(l, n + 1, k)
<1>1. k \in Nat /\ n \in 0 .. k /\ DOMAIN l = 1 .. k /\ l \in [1 .. k -> S]
  BY LenProperties
<1>2. /\ a \in Seq(S) /\ Len(a) = n /\ DOMAIN a = 1 .. n
      /\ \A i \in 1 .. n : a[i] = l[i]
  BY <1>1
<1>3. /\ b \in Seq(S) /\ Len(b) = k - n /\ DOMAIN b = 1 .. k - n
      /\ \A i \in 1 .. k - n : b[i] = l[n + i]
  <2>1. \A i \in n + 1 .. k : l[i] \in S
    BY <1>1
  <2>2. /\ b \in Seq(S) /\ Len(b) = (IF n + 1 <= k THEN k - (n + 1) + 1 ELSE 0)
        /\ \A i \in 1 .. k - (n + 1) + 1 : b[i] = l[(n + 1) + i - 1]
    BY <1>1, <2>1, SubSeqProperties
  <2> HIDE DEF k, b
  <2>3. Len(b) = k - n /\ k - (n + 1) + 1 = k - n
    BY <1>1, <2>2
  <2>4. \A i \in 1 .. k - n : (n + 1) + i - 1 = n + i
    BY <1>1
  <2> QED BY <2>2, <2>3, <2>4, LenProperties
<1> HIDE DEF k, a, b
<1>4. ToSet(l) = ToSet(a) \cup ToSet(b)
  <2>1. ToSet(a) \subseteq ToSet(l)
    BY <1>1, <1>2 DEF ToSet
  <2>2. \A i \in 1 .. k - n : n + i \in 1 .. k
    BY <1>1
  <2>3. ToSet(b) \subseteq ToSet(l)
    BY <1>1, <1>3, <2>2 DEF ToSet
  <2>4. ASSUME NEW i \in 1 .. k PROVE l[i] \in ToSet(a) \cup ToSet(b)
    <3>1. CASE i <= n
      BY <1>1, <1>2, <3>1 DEF ToSet
    <3>2. CASE i > n
      <4>1. i - n \in 1 .. k - n /\ b[i - n] = l[i]
        BY <1>1, <1>3, <3>2
      <4> QED BY <1>3, <4>1 DEF ToSet
    <3> QED BY <1>1, <3>1, <3>2
  <2> QED BY <1>1, <2>1, <2>3, <2>4 DEF ToSet
<1>5. ASSUME IsInjective(l)
      PROVE  IsInjective(a) /\ IsInjective(b) /\ ToSet(a) \cap ToSet(b) = {}
  <2>1. \A i, j \in 1 .. k : l[i] = l[j] => i = j
    BY <1>1, <1>5 DEF IsInjective
  <2>2. \A i, j \in 1 .. n : a[i] = a[j] => i = j
    BY <1>1, <1>2, <2>1
  <2>3. \A i, j \in 1 .. k - n : b[i] = b[j] => i = j
    <3>1. \A i \in 1 .. k - n : n + i \in 1 .. k
      BY <1>1
    <3> QED BY <1>1, <1>3, <2>1, <3>1
  <2>4. \A i \in 1 .. n, j \in 1 .. k - n : a[i] # b[j]
    BY <1>1, <1>2, <1>3, <2>1
  <2> QED BY <1>2, <1>3, <2>2, <2>3, <2>4 DEF IsInjective, ToSet
<1> QED BY <1>1, <1>2, <1>3, <1>4, <1>5 DEF a, b, k

\* Putting an element in front of a list.
LEMMA ConsFacts ==
  ASSUME NEW S, NEW l \in Seq(S), NEW x \in S
  PROVE  /\ <<x>> \o l \in Seq(S) /\ <<x>> \o l # <<>>
         /\ ToSet(<<x>> \o l) = {x} \cup ToSet(l)
         /\ Tail(<<x>> \o l) = l
         /\ \A y \in S : <<x>> \o Append(l, y) = Append(<<x>> \o l, y)
         /\ l # <<>> => l = <<Head(l)>> \o Tail(l)
<1> DEFINE c == <<x>> \o l
           n == Len(l)
<1>1. /\ <<x>> \in Seq(S) /\ Len(<<x>>) = 1 /\ <<x>>[1] = x /\ n \in Nat
      /\ ToSet(<<x>>) = {x}
  <2>1. <<x>> \in Seq(S) /\ Len(<<x>>) = 1 /\ <<x>>[1] = x /\ n \in Nat
    BY LenProperties
  <2>2. DOMAIN <<x>> = 1 .. 1
    BY <2>1, LenProperties
  <2>3. \A i \in 1 .. 1 : i = 1
    OBVIOUS
  <2> QED BY <2>1, <2>2, <2>3 DEF ToSet
<1>2. /\ c \in Seq(S) /\ Len(c) = n + 1
      /\ \A i \in 1 .. n + 1 : c[i] = IF i <= 1 THEN <<x>>[i] ELSE l[i - 1]
      /\ ToSet(c) = {x} \cup ToSet(l)
  <2>1. /\ c \in Seq(S) /\ Len(c) = Len(<<x>>) + n
        /\ \A i \in 1 .. Len(<<x>>) + n :
             c[i] = IF i <= Len(<<x>>) THEN <<x>>[i] ELSE l[i - Len(<<x>>)]
    BY <1>1, ConcatProperties
  <2>0. PICK y \in Seq(S) : y = <<x>>
    BY <1>1
  <2>2. ToSet(y \o l) = ToSet(y) \cup ToSet(l)
    BY ConcatFacts, ZenonT(60)
  <2> HIDE DEF c, n
  <2>3. 1 + n = n + 1
    BY <1>1
  <2>4. ToSet(c) = ToSet(<<x>>) \cup ToSet(l)
    BY <2>0, <2>2 DEF c
  <2> QED BY <1>1, <2>1, <2>3, <2>4
<1>3. c # <<>>
  BY <1>1, <1>2, EmptySeq
<1>4. Tail(c) = l
  <2>1. /\ Tail(c) \in Seq(S) /\ Len(Tail(c)) = n
        /\ \A i \in 1 .. n : Tail(c)[i] = c[i + 1]
    BY <1>1, <1>2, <1>3, HeadTailProperties
  <2> HIDE DEF c
  <2>2. \A i \in 1 .. n : i + 1 \in 1 .. n + 1 /\ ~(i + 1 <= 1) /\ (i + 1) - 1 = i
    BY <1>1
  <2>3. \A i \in 1 .. n : Tail(c)[i] = l[i]
    BY <1>2, <2>1, <2>2
  <2> QED BY <2>1, <2>3, SeqEqual
<1>5. ASSUME NEW y \in S PROVE <<x>> \o Append(l, y) = Append(<<x>> \o l, y)
  <2>1. Append(l, y) = l \o <<y>> /\ Append(c, y) = c \o <<y>> /\ <<y>> \in Seq(S)
    BY <1>2, AppendIsConcat
  <2> QED BY <1>1, <2>1, ConcatAssociative
<1>6. ASSUME l # <<>> PROVE l = <<Head(l)>> \o Tail(l)
  <2>1. Len(l) \in Nat \ {0}
    BY <1>6, EmptySeq
  <2>2. Head(l) = l[1] /\ Tail(l) = SubSeq(l, 2, Len(l)) /\ SubSeq(l, 1, Len(l)) = l
    BY <1>6, TailIsSubSeq, SubSeqFull
  <2>3. SubSeq(l, 1, Len(l)) = <<l[1]>> \o SubSeq(l, 1 + 1, Len(l))
    BY <2>1, SubSeqRecursiveFirst
  <2> QED BY <2>2, <2>3
<1> QED BY <1>2, <1>3, <1>4, <1>5, <1>6

-----------------------------------------------------------------------------

\* The tasks in front of t in the list q.
Before(q, t) == { q[i] : i \in { j \in DOMAIN q : \E k \in DOMAIN q : j < k /\ q[k] = t } }

\* A task added behind the others is behind all of them, and changes nothing
\* for those that were queued.
LEMMA BeforeAdd ==
  ASSUME NEW S, NEW q \in Seq(S), NEW x \in S, x \notin ToSet(q)
  PROVE  /\ \A t \in ToSet(q) : Before(addtask(q, x), t) = Before(q, t)
         /\ Before(addtask(q, x), x) = ToSet(q)
         /\ addtask(q, x)[Len(addtask(q, x))] = x
<1> DEFINE p == addtask(q, x)
           n == Len(q)
<1>1. /\ n \in Nat /\ DOMAIN q = 1 .. n /\ Len(p) = n + 1 /\ DOMAIN p = 1 .. n + 1
      /\ p[n + 1] = x /\ \A i \in 1 .. n : p[i] = q[i]
  BY AppendProperties, LenProperties DEF addtask
<1>2. \A i \in 1 .. n : q[i] # x
  BY <1>1 DEF ToSet
<1> HIDE DEF p, n
<1>3. ASSUME NEW t \in ToSet(q) PROVE Before(p, t) = Before(q, t)
  <2>1. t # x
    OBVIOUS
  <2>2. ASSUME NEW y \in Before(p, t) PROVE y \in Before(q, t)
    <3>1. PICK j \in 1 .. n + 1, k \in 1 .. n + 1 : j < k /\ p[k] = t /\ y = p[j]
      BY <1>1 DEF Before
    <3>2. k # n + 1
      BY <1>1, <2>1, <3>1
    <3>3. j \in 1 .. n /\ k \in 1 .. n
      BY <1>1, <3>1, <3>2
    <3>4. q[k] = t /\ q[j] = y
      BY <1>1, <3>1, <3>3
    <3> QED BY <1>1, <3>1, <3>3, <3>4 DEF Before
  <2>3. ASSUME NEW y \in Before(q, t) PROVE y \in Before(p, t)
    <3>1. PICK j \in 1 .. n, k \in 1 .. n : j < k /\ q[k] = t /\ y = q[j]
      BY <1>1 DEF Before
    <3>2. j \in 1 .. n + 1 /\ k \in 1 .. n + 1 /\ p[k] = t /\ y = p[j]
      BY <1>1, <3>1
    <3> QED BY <1>1, <3>1, <3>2 DEF Before
  <2> QED BY <2>2, <2>3
<1>4. Before(p, x) = ToSet(q)
  <2>1. ASSUME NEW y \in Before(p, x) PROVE y \in ToSet(q)
    <3>1. PICK j \in 1 .. n + 1, k \in 1 .. n + 1 : j < k /\ y = p[j]
      BY <1>1 DEF Before
    <3>2. j \in 1 .. n
      BY <1>1, <3>1
    <3> QED BY <1>1, <3>1, <3>2 DEF ToSet
  <2>2. ASSUME NEW y \in ToSet(q) PROVE y \in Before(p, x)
    <3>1. PICK j \in 1 .. n : y = q[j]
      BY <1>1 DEF ToSet
    <3>2. j \in 1 .. n + 1 /\ n + 1 \in 1 .. n + 1 /\ j < n + 1 /\ y = p[j]
      BY <1>1, <3>1
    <3> QED BY <1>1, <3>2 DEF Before
  <2> QED BY <2>1, <2>2
<1> QED BY <1>1, <1>3, <1>4 DEF p

\* The head of a list is in front of everybody else, and of nobody when gone.
LEMMA BeforeTail ==
  ASSUME NEW S, NEW q \in Seq(S), q # <<>>, IsInjective(q)
  PROVE  /\ Before(q, Head(q)) = {}
         /\ q[Len(q)] = Head(q) => Tail(q) = <<>>
         /\ \A t \in ToSet(q) : t # Head(q) =>
              /\ Head(q) \in Before(q, t)
              /\ Before(Tail(q), t) = Before(q, t) \ {Head(q)}
<1> DEFINE p == Tail(q)
           n == Len(q)
           h == Head(q)
<1>1. /\ n \in Nat /\ n > 0 /\ DOMAIN q = 1 .. n /\ h = q[1]
      /\ p \in Seq(S) /\ Len(p) = n - 1 /\ DOMAIN p = 1 .. n - 1
      /\ \A i \in 1 .. n - 1 : p[i] = q[i + 1]
  BY HeadTailProperties, LenProperties, EmptySeq
<1>2. \A i, j \in 1 .. n : q[i] = q[j] => i = j
  BY <1>1 DEF IsInjective
<1> HIDE DEF p, n, h
<1>3. Before(q, h) = {}
  <2> SUFFICES ASSUME NEW y \in Before(q, h) PROVE FALSE
    OBVIOUS
  <2>0. DOMAIN q = 1 .. n
    BY <1>1
  <2>1. PICK j \in DOMAIN q, k \in DOMAIN q : j < k /\ q[k] = h
    BY Zenon DEF Before
  <2>2. 1 \in 1 .. n /\ k \in 1 .. n /\ q[1] = q[k] /\ k # 1
    BY <1>1, <2>0, <2>1
  <2> QED BY <1>2, <2>2
<1>4. q[n] = h => p = <<>>
  <2>1. q[n] = h => n = 1
    BY <1>1, <1>2
  <2> QED BY <1>1, <2>1, EmptySeq
<1>5. ASSUME NEW t \in ToSet(q), t # h
      PROVE h \in Before(q, t) /\ Before(p, t) = Before(q, t) \ {h}
  <2>1. PICK m \in 1 .. n : q[m] = t /\ m # 1
    BY <1>1, <1>5 DEF ToSet
  <2>2. h \in Before(q, t)
    <3>1. 1 \in 1 .. n /\ 1 < m
      BY <1>1, <2>1
    <3> QED BY <1>1, <2>1, <3>1 DEF Before
  <2>3. ASSUME NEW y \in Before(p, t) PROVE y \in Before(q, t) \ {h}
    <3>1. PICK j \in 1 .. n - 1, k \in 1 .. n - 1 : j < k /\ p[k] = t /\ y = p[j]
      BY <1>1 DEF Before
    <3>2. /\ j + 1 \in 1 .. n /\ k + 1 \in 1 .. n /\ j + 1 < k + 1 /\ j + 1 # 1 /\ 1 \in 1 .. n
          /\ q[k + 1] = t /\ y = q[j + 1]
      BY <1>1, <3>1
    <3>3. y # h
      BY <1>1, <1>2, <3>2
    <3> QED BY <1>1, <3>2, <3>3 DEF Before
  <2>4. ASSUME NEW y \in Before(q, t), y # h PROVE y \in Before(p, t)
    <3>1. PICK j \in 1 .. n, k \in 1 .. n : j < k /\ q[k] = t /\ y = q[j]
      BY <1>1 DEF Before
    <3>2. j # 1
      BY <1>1, <2>4, <3>1
    <3>3. j - 1 \in 1 .. n - 1 /\ k - 1 \in 1 .. n - 1 /\ j - 1 < k - 1
      BY <1>1, <3>1, <3>2
    <3>4. p[k - 1] = q[k - 1 + 1] /\ p[j - 1] = q[j - 1 + 1]
      BY <1>1, <3>3
    <3>5. k - 1 + 1 = k /\ j - 1 + 1 = j
      BY <1>1
    <3>6. p[k - 1] = t /\ y = p[j - 1]
      BY <3>1, <3>4, <3>5
    <3> QED BY <1>1, <3>3, <3>6 DEF Before
  <2> QED BY <2>2, <2>3, <2>4
<1> QED BY <1>3, <1>4, <1>5 DEF p, n, h

\* SetToSeqs(S) are the lists of all members of S without duplicates.
LEMMA InitQueue ==
  ASSUME NEW S, IsFiniteSet(S), NEW q \in SetToSeqs(S)
  PROVE  q \in Seq(S) /\ IsInjective(q) /\ ToSet(q) = S
<1> DEFINE n == Cardinality(S)
<1>1. n \in Nat
  BY FS_CardinalityType
<1>2. q \in [1 .. n -> S] /\ IsInjective(q)
  BY DEF SetToSeqs, IsInjective
<1>3. q \in Seq(S)
  BY <1>1, <1>2
<1>4. Len(q) = n
  BY <1>1, <1>2, <1>3, LenProperties
<1>5. Cardinality(ToSet(q)) = n /\ ToSet(q) \in SUBSET S
  BY <1>2, <1>3, <1>4, InjectiveCard, ToSetFacts
<1>6. ToSet(q) = S
  BY <1>5, FS_Subset
<1> QED BY <1>2, <1>3, <1>6

\* What taskready does to the queue, when t is not on it.
LEMMA ReadyQueue ==
  ASSUME SchedTypeOK, QueueOK,
         NEW t \in Task, t \notin ToSet(taskrunqueue), taskready(t)
  PROVE  /\ taskrunqueue' \in Seq(Task)
         /\ ready' \in [Task -> BOOLEAN]
         /\ ToSet(taskrunqueue') = ToSet(taskrunqueue) \cup {t}
         /\ IsInjective(taskrunqueue')
         /\ \A u \in ToSet(taskrunqueue') : ready'[u]
<1>1. taskrunqueue \in Seq(Task) /\ ready \in [Task -> BOOLEAN]
  BY DEF SchedTypeOK
<1>2. taskrunqueue' = addtask(taskrunqueue, t) /\ ready' = [ready EXCEPT ![t] = TRUE]
  BY DEF taskready
<1>3. IsInjective(taskrunqueue) /\ \A u \in ToSet(taskrunqueue) : u \in Task /\ ready[u]
  BY <1>1, ToSetFacts DEF QueueOK
<1>4. /\ taskrunqueue' \in Seq(Task)
      /\ ToSet(taskrunqueue') = ToSet(taskrunqueue) \cup {t}
      /\ IsInjective(taskrunqueue')
  <2>1. /\ addtask(taskrunqueue, t) \in Seq(Task)
        /\ ToSet(addtask(taskrunqueue, t)) = ToSet(taskrunqueue) \cup {t}
        /\ IsInjective(addtask(taskrunqueue, t))
    BY <1>1, <1>3, AddNewTask
  <2> QED BY <1>2, <2>1
<1>5. \A u \in ToSet(taskrunqueue') : ready'[u]
  BY <1>1, <1>2, <1>3, <1>4
<1> QED BY <1>1, <1>2, <1>4, <1>5

\* What taskreadyeach does to the queue, when none of the tasks is on it and
\* they are distinct.
LEMMA ReadyEachQueue ==
  ASSUME SchedTypeOK, QueueOK,
         NEW s \in Seq(Task), IsInjective(s),
         ToSet(s) \cap ToSet(taskrunqueue) = {}, taskreadyeach(s)
  PROVE  /\ taskrunqueue' \in Seq(Task)
         /\ ready' \in [Task -> BOOLEAN]
         /\ ToSet(taskrunqueue') = ToSet(taskrunqueue) \cup ToSet(s)
         /\ IsInjective(taskrunqueue')
         /\ \A u \in ToSet(taskrunqueue') : ready'[u]
<1>1. taskrunqueue \in Seq(Task) /\ ready \in [Task -> BOOLEAN]
  BY DEF SchedTypeOK
<1>2. /\ taskrunqueue' = taskrunqueue \o s
      /\ ready' = [t \in Task |-> ready[t] \/ t \in ToSet(s)]
  BY DEF taskreadyeach
<1>3. IsInjective(taskrunqueue) /\ \A u \in ToSet(taskrunqueue) : u \in Task /\ ready[u]
  BY <1>1, ToSetFacts DEF QueueOK
<1>4. /\ taskrunqueue' \in Seq(Task)
      /\ ToSet(taskrunqueue') = ToSet(taskrunqueue) \cup ToSet(s)
      /\ IsInjective(taskrunqueue')
  BY <1>1, <1>2, <1>3, ConcatFacts
<1>5. \A u \in ToSet(s) : u \in Task
  BY ToSetFacts
<1>6. ready' \in [Task -> BOOLEAN]
  BY <1>2, Zenon
<1>7. \A u \in ToSet(taskrunqueue') : ready'[u]
  BY <1>2, <1>3, <1>4, <1>5, Zenon
<1> QED BY <1>4, <1>6, <1>7

\* What dispatch does to the queue.
LEMMA DispatchQueue ==
  ASSUME SchedTypeOK, QueueOK, NEW t \in Task, dispatch(t)
  PROVE  /\ taskrunqueue' \in Seq(Task)
         /\ ready' \in [Task -> BOOLEAN]
         /\ t \in ToSet(taskrunqueue)
         /\ ToSet(taskrunqueue') = ToSet(taskrunqueue) \ {t}
         /\ IsInjective(taskrunqueue')
         /\ \A u \in ToSet(taskrunqueue') : ready'[u]
<1>1. taskrunqueue \in Seq(Task) /\ ready \in [Task -> BOOLEAN]
  BY DEF SchedTypeOK
<1>2. /\ taskrunqueue # <<>> /\ t = Head(taskrunqueue)
      /\ taskrunqueue' = deltask(taskrunqueue, Head(taskrunqueue))
      /\ ready' = [ready EXCEPT ![t] = FALSE]
  BY DEF dispatch
<1>3. IsInjective(taskrunqueue) /\ \A u \in ToSet(taskrunqueue) : u \in Task /\ ready[u]
  BY <1>1, ToSetFacts DEF QueueOK
<1>4. /\ taskrunqueue' \in Seq(Task)
      /\ t \in ToSet(taskrunqueue)
      /\ ToSet(taskrunqueue') = ToSet(taskrunqueue) \ {t}
      /\ IsInjective(taskrunqueue')
  <2>1. /\ deltask(taskrunqueue, Head(taskrunqueue)) = Tail(taskrunqueue)
        /\ Tail(taskrunqueue) \in Seq(Task)
        /\ Head(taskrunqueue) \in ToSet(taskrunqueue)
        /\ IsInjective(Tail(taskrunqueue))
        /\ ToSet(Tail(taskrunqueue)) = ToSet(taskrunqueue) \ {Head(taskrunqueue)}
    BY <1>1, <1>2, <1>3, DelHeadFacts, Zenon
  <2> QED BY <1>2, <2>1, Zenon
<1>5. \A u \in ToSet(taskrunqueue') : ready'[u]
  BY <1>1, <1>2, <1>3, <1>4
<1> QED BY <1>1, <1>2, <1>4, <1>5

=============================================================================
