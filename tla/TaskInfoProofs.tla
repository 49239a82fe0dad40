--------------------------- MODULE TaskInfoProofs ---------------------------
(***************************************************************************)
(* The parts of task.c below the grain of whole operations: the SIGQUIT    *)
(* listing against every store of the program, and the start of a task.    *)
(***************************************************************************)
EXTENDS TaskInfo, Context, SequenceTheorems, WellFoundedInduction, TLAPS

-----------------------------------------------------------------------------
(***************************************************************************)
(* The listing.                                                            *)
(***************************************************************************)

InfoTypeOK ==
  /\ live \in SUBSET Task
  /\ alltask \in Block \cup {nil}
  /\ blocks \in [Block -> Seq(Task \cup {nil}) \cup {nil}]
  /\ nalltask \in Nat
  /\ alltaskslot \in [Task -> Nat]
  /\ text \in [Task -> SUBSET Nat]

\* The first n of the entries e are the tasks of S, and each knows its place.
Seats(e, slot, n, S) ==
  /\ e \in Seq(Task \cup {nil})
  /\ n \in 0 .. Len(e) /\ Len(e) % CHUNK = 0
  /\ \A i \in 1 .. n : e[i] \in S /\ slot[e[i]] = i - 1
  /\ \A u \in S : slot[u] + 1 \in 1 .. n /\ e[slot[u] + 1] = u

\* Task v, the last of n + 1 entries, has taken the place of u and does not
\* know it yet.
Moves(e, slot, n, S, u, v) ==
  LET p == slot[u] + 1
  IN  /\ e \in Seq(Task \cup {nil})
      /\ n \in Nat /\ n + 1 <= Len(e) /\ Len(e) % CHUNK = 0
      /\ u \in S /\ v \in S
      /\ p \in 1 .. n + 1 /\ (p = n + 1 <=> v = u)
      /\ e[p] = v /\ e[n + 1] = v
      /\ \A i \in 1 .. n : i # p => e[i] \in S \ {u, v} /\ slot[e[i]] = i - 1
      /\ \A x \in S \ {u, v} : slot[x] + 1 \in 1 .. n /\ slot[x] + 1 # p /\ e[slot[x] + 1] = x

Seated(b, n, S) == b \in Block /\ Seats(blocks[b], alltaskslot, n, S)

Moved(n) == alltask \in Block /\ Moves(blocks[alltask], alltaskslot, n, live, t, tmp)

\* The table between any two stores, for each of them.
AtStart == live = {} /\ nalltask = 0 /\ alltask = nil

AtRealloc ==
  /\ t \in live /\ nalltask % CHUNK = 0
  /\ \/ Seated(alltask, nalltask, live \ {t})
     \/ live = {t} /\ nalltask = 0 /\ alltask = nil

AtSetalltask ==
  /\ t \in live
  /\ tmp # nil => Seated(tmp, nalltask, live \ {t}) /\ nalltask < Len(blocks[tmp])

AtSetslot ==
  /\ t \in live
  /\ Seated(alltask, nalltask, live \ {t}) /\ nalltask < Len(blocks[alltask])

AtStore2 ==
  /\ t \in live /\ nalltask > 0 /\ alltaskslot[t] = nalltask - 1
  /\ Seated(alltask, nalltask - 1, live \ {t}) /\ nalltask <= Len(blocks[alltask])

AtMove ==
  /\ t \in live /\ nalltask > 0 /\ tmp = blocks[alltask][nalltask]
  /\ Seated(alltask, nalltask, live)

AtMove2 ==
  /\ t \in live /\ tmp = blocks[alltask][nalltask + 1]
  /\ Seated(alltask, nalltask + 1, live)

AtFree == t \in live /\ Seated(alltask, nalltask, live \ {t})

TableOK ==
  \/ pc = "start" /\ AtStart
  \/ pc \in {"idle", "exited"} /\ Seated(alltask, nalltask, live)
  \/ pc \in {"vseprint", "printed"} /\ Seated(alltask, nalltask, live) /\ t \in live
  \/ pc = "realloc" /\ AtRealloc
  \/ pc = "setalltask" /\ AtSetalltask
  \/ pc \in {"nomemory", "aborted"} /\ alltask = nil
  \/ pc = "setslot" /\ AtSetslot
  \/ pc \in {"store", "count"} /\ AtSetslot /\ alltaskslot[t] = nalltask
  \/ pc = "count2" /\ Seated(alltask, nalltask + 1, live)
  \/ pc = "store2" /\ AtStore2
  \/ pc \in {"shrink", "move"} /\ AtMove
  \/ pc = "move2" /\ AtMove2
  \/ pc = "shrink2" /\ nalltask > 0 /\ Moved(nalltask - 1)
  \/ pc = "tell" /\ Moved(nalltask)
  \/ pc = "free" /\ AtFree

\* The names between any two stores.
TextOK ==
  /\ \A u \in live : NAMELEN - 1 \in text[u]
  /\ pc = "vseprint" => w \in 0 .. NAMELEN - 1 /\ rest \in Seq(Items)

\* What the handler reads of the table is there.
Entries ==
  /\ alltask \in Block /\ blocks[alltask] \in Seq(Task \cup {nil})
  /\ nalltask <= Len(blocks[alltask])
  /\ \A i \in 1 .. nalltask : blocks[alltask][i] \in live

ListedOK ==
  listed # <<>> => Window \/ (Entries /\ listed = SubSeq(blocks[alltask], 1, nalltask))

\* The inductive invariant.  The handler may come before any store, so that it
\* says what the table looks like there.
InfoInv == InfoTypeOK /\ TableOK /\ TextOK /\ ListedOK

-----------------------------------------------------------------------------
(***************************************************************************)
(* What single stores do to the table.                                     *)
(***************************************************************************)

Slots == [Task -> Nat]

\* A multiple of c between 0 and c is 0.
LEMMA SmallMultiple ==
  ASSUME NEW c \in Nat, NEW k \in Int, 0 <= c * k, c * k < c
  PROVE  c * k = 0
<1>1. CASE k >= 1
  <2>1. k - 1 \in Nat
    BY <1>1
  <2>2. c * (k - 1) \in Nat
    BY <2>1
  <2>3. c * k = c * (k - 1) + c
    OBVIOUS
  <2> QED BY <2>2, <2>3
<1>2. CASE k <= -1
  <2>1. c * (-k) >= 0
    BY <1>2
  <2>2. c * k = -(c * (-k))
    OBVIOUS
  <2> QED BY <2>1, <2>2
<1>3. CASE k = 0
  BY <1>3
<1> QED BY <1>1, <1>2, <1>3

\* A multiple of CHUNK stays one when the table grows.
LEMMA ModPlus ==
  ASSUME NEW a \in Nat, NEW c \in Nat, c > 0, a % c = 0
  PROVE  (a + c) % c = 0
<1> DEFINE s == a + c
<1>1. a = c * (a \div c) /\ (a \div c) \in Int
  OBVIOUS
<1>2. PICK q \in Int : a = c * q
  BY <1>1
<1>3. s \in Int
  OBVIOUS
<1> HIDE DEF s
<1>6. PICK d \in Int, x \in 0 .. c - 1 : s = c * d + x /\ x = s % c
  BY <1>3
<1>7. c * (q + 1 - d) = c * q + c - c * d
  OBVIOUS
<1>8. c * (q + 1 - d) = x
  BY <1>2, <1>6, <1>7 DEF s
<1>9. x = 0
  BY <1>8, SmallMultiple
<1> QED BY <1>6, <1>9 DEF s

\* What realloc makes of n entries e.
Grown(e, n) == [i \in 1 .. n + CHUNK |-> IF i <= n THEN e[i] ELSE nil]

\* Growing the table keeps its entries and makes room.
LEMMA SeatsGrow ==
  ASSUME NEW e, NEW slot \in Slots, NEW n \in Nat, NEW S \in SUBSET Task,
         Seats(e, slot, n, S) \/ (n = 0 /\ S = {}),
         n % CHUNK = 0
  PROVE  Seats(Grown(e, n), slot, n, S) /\ n < Len(Grown(e, n))
<1> DEFINE f == Grown(e, n)
<1>1. n + CHUNK \in Nat /\ n < n + CHUNK
  BY InfoAssumption
<1>2. (n + CHUNK) % CHUNK = 0
  BY InfoAssumption, ModPlus
<1>3. \A i \in 1 .. n + CHUNK : i <= n => e[i] \in Task
  BY DEF Seats
<1>4. f \in Seq(Task \cup {nil}) /\ Len(f) = n + CHUNK
  BY <1>1, <1>3 DEF Grown
<1>5. \A i \in 1 .. n : f[i] = e[i]
  BY <1>1 DEF Grown
<1> HIDE DEF f
<1>6. ASSUME NEW i \in 1 .. n
      PROVE  f[i] \in S /\ slot[f[i]] = i - 1
  <2>1. n # 0 /\ Seats(e, slot, n, S)
    OBVIOUS
  <2>2. e[i] \in S /\ slot[e[i]] = i - 1
    BY <2>1 DEF Seats
  <2> QED BY <1>5, <2>2
<1>7. ASSUME NEW u \in S
      PROVE  slot[u] + 1 \in 1 .. n /\ f[slot[u] + 1] = u
  <2>1. slot[u] + 1 \in 1 .. n /\ e[slot[u] + 1] = u
    BY DEF Seats
  <2> QED BY <1>5, <2>1
<1>8. Seats(f, slot, n, S)
  BY <1>1, <1>2, <1>4, <1>6, <1>7 DEF Seats
<1> QED BY <1>1, <1>4, <1>8 DEF f

\* The slot of a task that is not in the table does not matter.
LEMMA SeatsOther ==
  ASSUME NEW e, NEW slot \in Slots, NEW n \in Nat, NEW S \in SUBSET Task,
         NEW u \in Task, NEW k \in Nat, Seats(e, slot, n, S), u \notin S
  PROVE  Seats(e, [slot EXCEPT ![u] = k], n, S)
<1>1. \A x \in S : [slot EXCEPT ![u] = k][x] = slot[x]
  BY DEF Slots
<1> QED BY <1>1 DEF Seats

\* A new task takes the first free place.
LEMMA SeatsAdd ==
  ASSUME NEW e, NEW slot \in Slots, NEW n \in Nat, NEW S \in SUBSET Task,
         NEW u \in Task, Seats(e, slot, n, S), u \notin S, slot[u] = n, n < Len(e)
  PROVE  Seats([e EXCEPT ![n + 1] = u], slot, n + 1, S \cup {u})
<1> DEFINE f == [e EXCEPT ![n + 1] = u]
<1>1. e \in Seq(Task \cup {nil}) /\ Len(e) \in Nat
  BY DEF Seats
<1>2. f \in Seq(Task \cup {nil}) /\ Len(f) = Len(e)
  BY <1>1
<1>3. f[n + 1] = u /\ \A i \in 1 .. n : f[i] = e[i]
  BY <1>1
<1> HIDE DEF f
<1>4. \A i \in 1 .. n + 1 : f[i] \in S \cup {u} /\ slot[f[i]] = i - 1
  <2> TAKE i \in 1 .. n + 1
  <2>1. CASE i = n + 1
    BY <1>3, <2>1
  <2>2. CASE i # n + 1
    <3>1. i \in 1 .. n
      BY <2>2
    <3> QED BY <1>3, <3>1 DEF Seats
  <2> QED BY <2>1, <2>2
<1>5. \A x \in S \cup {u} : slot[x] + 1 \in 1 .. n + 1 /\ f[slot[x] + 1] = x
  BY <1>3 DEF Seats
<1>6. n + 1 \in 0 .. Len(f) /\ Len(f) % CHUNK = 0
  BY <1>1, <1>2 DEF Seats
<1>7. Seats(f, slot, n + 1, S \cup {u})
  BY <1>2, <1>4, <1>5, <1>6 DEF Seats
<1> QED BY <1>7 DEF f

\* The last entry is stored over the one of the task that leaves.
LEMMA MovesStart ==
  ASSUME NEW e, NEW slot \in Slots, NEW n \in Nat, NEW S \in SUBSET Task,
         NEW u \in S, Seats(e, slot, n + 1, S)
  PROVE  Moves([e EXCEPT ![slot[u] + 1] = e[n + 1]], slot, n, S, u, e[n + 1])
<1> DEFINE p == slot[u] + 1
           v == e[n + 1]
           f == [e EXCEPT ![p] = v]
<1>1. e \in Seq(Task \cup {nil}) /\ Len(e) \in Nat /\ n + 1 <= Len(e) /\ Len(e) % CHUNK = 0
  BY DEF Seats
<1>2. p \in 1 .. n + 1 /\ e[p] = u
  BY DEF Seats
<1>3. v \in S /\ slot[v] = n
  BY DEF Seats
<1>4. f \in Seq(Task \cup {nil}) /\ Len(f) = Len(e)
  BY <1>1, <1>2, <1>3
<1>5. f[p] = v /\ \A i \in 1 .. n + 1 : i # p => f[i] = e[i]
  BY <1>1, <1>2
<1>6. p = n + 1 <=> v = u
  BY <1>2, <1>3 DEF Slots
<1> HIDE DEF f
<1>7. f[n + 1] = v
  BY <1>5
<1>8. ASSUME NEW i \in 1 .. n, i # p
      PROVE  f[i] \in S \ {u, v} /\ slot[f[i]] = i - 1
  <2>1. i \in 1 .. n + 1 /\ i - 1 # slot[u] /\ i - 1 # n
    BY <1>2, <1>8 DEF Slots
  <2>2. f[i] = e[i] /\ e[i] \in S /\ slot[e[i]] = i - 1
    BY <1>5, <1>8, <2>1 DEF Seats
  <2> QED BY <1>3, <2>1, <2>2
<1>9. ASSUME NEW x \in S \ {u, v}
      PROVE  slot[x] + 1 \in 1 .. n /\ slot[x] + 1 # p /\ f[slot[x] + 1] = x
  <2>1. slot[x] \in Nat /\ slot[x] + 1 \in 1 .. n + 1 /\ e[slot[x] + 1] = x
    BY DEF Seats, Slots
  <2>2. slot[x] + 1 # n + 1 /\ slot[x] + 1 # p
    BY <1>2, <2>1
  <2>3. f[slot[x] + 1] = x
    BY <1>5, <2>1, <2>2
  <2> QED BY <2>1, <2>2, <2>3
<1>10. Moves(f, slot, n, S, u, v)
  BY <1>1, <1>2, <1>3, <1>4, <1>5, <1>6, <1>7, <1>8, <1>9 DEF Moves
<1> QED BY <1>10 DEF f

\* Once the moved task knows its place, the table is whole without the other.
LEMMA MovesEnd ==
  ASSUME NEW e, NEW slot \in Slots, NEW n \in Nat, NEW S \in SUBSET Task,
         NEW u \in S, NEW v \in S, Moves(e, slot, n, S, u, v)
  PROVE  Seats(e, [slot EXCEPT ![v] = slot[u]], n, S \ {u})
<1> DEFINE p == slot[u] + 1
           new == [slot EXCEPT ![v] = slot[u]]
<1>1. e \in Seq(Task \cup {nil}) /\ Len(e) \in Nat /\ n \in 0 .. Len(e) /\ Len(e) % CHUNK = 0
  BY DEF Moves
<1>2. new[v] = slot[u] /\ \A x \in S \ {v} : new[x] = slot[x]
  BY DEF Slots
<1> HIDE DEF new
<1>3. \A i \in 1 .. n : e[i] \in S \ {u} /\ new[e[i]] = i - 1
  <2> TAKE i \in 1 .. n
  <2>1. CASE i = p
    BY <1>2, <2>1 DEF Moves, Slots
  <2>2. CASE i # p
    BY <1>2, <2>2 DEF Moves, Slots
  <2> QED BY <2>1, <2>2
<1>4. \A x \in S \ {u} : new[x] + 1 \in 1 .. n /\ e[new[x] + 1] = x
  <2> TAKE x \in S \ {u}
  <2>1. CASE x = v
    BY <1>2, <2>1 DEF Moves, Slots
  <2>2. CASE x # v
    BY <1>2, <2>2 DEF Moves, Slots
  <2> QED BY <2>1, <2>2
<1>5. Seats(e, new, n, S \ {u})
  BY <1>1, <1>3, <1>4 DEF Seats
<1> QED BY <1>5 DEF new

-----------------------------------------------------------------------------
(***************************************************************************)
(* Recursive functions.                                                    *)
(***************************************************************************)

\* A set of natural numbers with a member has a least one.
LEMMA LeastOf ==
  ASSUME NEW T \in SUBSET Nat, T # {}
  PROVE  \E x \in T : \A y \in T : x <= y
<1> DEFINE R == OpToRel(<, Nat)
<1>1. IsWellFoundedOn(R, Nat)
  BY NatLessThanWellFounded
<1>2. \A x, y \in Nat : y < x => <<y, x>> \in R
  BY DEF OpToRel
<1> HIDE DEF R
<1>3. PICK x \in T : \A y \in T : ~(<<y, x>> \in R)
  BY <1>1, WFMin
<1>4. ASSUME NEW y \in T PROVE x <= y
  <2>1. x \in Nat /\ y \in Nat
    OBVIOUS
  <2>2. ~(y < x)
    BY <1>2, <1>3, <2>1
  <2> QED BY <2>1, <2>2
<1> QED BY <1>4

\* What the function of loop satisfies.
Loops(d, m, base) ==
  d = [n \in 0 .. m |-> IF n = 0 THEN <<>> ELSE Append(d[n \div base], n % base)]

\* The bases of the directives.
Bases == {8, 10, 16}

LEMMA DivBase ==
  ASSUME NEW base \in Bases, NEW n \in Nat, n > 0
  PROVE  /\ n \div base \in 0 .. n - 1 /\ n % base \in 0 .. base - 1
         /\ (n \div base) * base + (n % base) = n
         /\ n \div base = 0 => n % base # 0
<1>1. CASE base = 8
  BY <1>1
<1>2. CASE base = 10
  BY <1>2
<1>3. CASE base = 16
  BY <1>3
<1> QED BY <1>1, <1>2, <1>3 DEF Bases

\* There is such a function, by extension from m - 1 to m.
LEMMA LoopsExist ==
  ASSUME NEW base \in Bases, NEW m \in Nat
  PROVE  \E d : Loops(d, m, base)
<1> DEFINE Bad == { k \in Nat : ~ \E d : Loops(d, k, base) }
<1>1. Bad = {}
  <2> SUFFICES ASSUME Bad # {} PROVE FALSE
    OBVIOUS
  <2>1. PICK k \in Bad : \A y \in Bad : k <= y
    BY LeastOf
  <2>2. k \in Nat /\ ~ \E d : Loops(d, k, base)
    BY <2>1
  <2>3. k # 0
    <3>1. Loops([n \in 0 .. 0 |-> <<>>], 0, base)
      BY DEF Loops
    <3> QED BY <2>2, <3>1
  <2>4. PICK d : Loops(d, k - 1, base)
    <3>1. k - 1 \in Nat /\ ~(k <= k - 1)
      BY <2>2, <2>3
    <3> QED BY <2>1, <3>1
  <2>5. PICK h : h = [n \in 0 .. k |-> IF n = k THEN Append(d[k \div base], k % base) ELSE d[n]]
    OBVIOUS
  <2>6. \A n \in 0 .. k - 1 : d[n] = IF n = 0 THEN <<>> ELSE Append(d[n \div base], n % base)
    BY <2>4, Zenon DEF Loops
  <2>7. h = [n \in 0 .. k |-> h[n]] /\ h[k] = Append(d[k \div base], k % base)
        /\ \A n \in 0 .. k - 1 : h[n] = d[n]
    BY <2>2, <2>3, <2>5
  <2>8. ASSUME NEW n \in 0 .. k
        PROVE  h[n] = IF n = 0 THEN <<>> ELSE Append(h[n \div base], n % base)
    <3>1. n # 0 => n \div base \in 0 .. n - 1
      BY <2>2, DivBase
    <3>2. CASE n = k
      <4>1. n \div base \in 0 .. k - 1
        BY <2>3, <3>1, <3>2
      <4> QED BY <2>3, <2>7, <3>2, <4>1
    <3>3. CASE n # k /\ n # 0
      <4>1. n \div base \in 0 .. k - 1 /\ n \in 0 .. k - 1
        BY <2>2, <3>1, <3>3
      <4> QED BY <2>6, <2>7, <3>3, <4>1
    <3>4. CASE n # k /\ n = 0
      <4>1. n \in 0 .. k - 1
        BY <2>2, <2>3, <3>4
      <4> QED BY <2>6, <2>7, <3>4, <4>1
    <3> QED BY <3>2, <3>3, <3>4
  <2>9. Loops(h, k, base)
    BY <2>7, <2>8 DEF Loops
  <2> QED BY <2>2, <2>9
<1> QED BY <1>1

LEMMA LoopLoops ==
  ASSUME NEW base \in Bases, NEW m \in Nat
  PROVE  Loops(loop(m, base), m, base)
<1>1. PICK d : Loops(d, m, base)
  BY LoopsExist
<1> QED BY <1>1, Zenon DEF loop, Loops

\* What the function of Number satisfies.
Values(v, s, base) ==
  v = [i \in 0 .. Len(s) |-> IF i = 0 THEN 0 ELSE v[i - 1] * base + s[i]]

\* The same for the first k digits.
ValuesOf(v, k, s, base) ==
  v = [i \in 0 .. k |-> IF i = 0 THEN 0 ELSE v[i - 1] * base + s[i]]

LEMMA ValuesExist ==
  ASSUME NEW s, NEW base, NEW m \in Nat
  PROVE  \E v : ValuesOf(v, m, s, base)
<1> DEFINE Bad == { k \in Nat : ~ \E v : ValuesOf(v, k, s, base) }
<1>1. Bad = {}
  <2> SUFFICES ASSUME Bad # {} PROVE FALSE
    OBVIOUS
  <2>1. PICK k \in Bad : \A y \in Bad : k <= y
    BY LeastOf
  <2>2. k \in Nat /\ ~ \E v : ValuesOf(v, k, s, base)
    BY <2>1
  <2>3. k # 0
    <3>1. ValuesOf([i \in 0 .. 0 |-> 0], 0, s, base)
      BY DEF ValuesOf
    <3> QED BY <2>2, <3>1
  <2>4. PICK v : ValuesOf(v, k - 1, s, base)
    <3>1. k - 1 \in Nat /\ ~(k <= k - 1)
      BY <2>2, <2>3
    <3> QED BY <2>1, <3>1
  <2>5. PICK h : h = [i \in 0 .. k |-> IF i = k THEN v[k - 1] * base + s[k] ELSE v[i]]
    OBVIOUS
  <2>6. \A i \in 0 .. k - 1 : v[i] = IF i = 0 THEN 0 ELSE v[i - 1] * base + s[i]
    BY <2>4, Zenon DEF ValuesOf
  <2>7. h = [i \in 0 .. k |-> h[i]] /\ h[k] = v[k - 1] * base + s[k]
        /\ \A i \in 0 .. k - 1 : h[i] = v[i]
    BY <2>2, <2>3, <2>5
  <2>8. ASSUME NEW i \in 0 .. k
        PROVE  h[i] = IF i = 0 THEN 0 ELSE h[i - 1] * base + s[i]
    <3>1. i # 0 => i - 1 \in 0 .. k - 1
      BY <2>2
    <3>2. CASE i = k
      BY <2>3, <2>7, <3>1, <3>2
    <3>3. CASE i # k
      <4>1. i \in 0 .. k - 1
        BY <2>2, <3>3
      <4> QED BY <2>6, <2>7, <3>1, <4>1
    <3> QED BY <3>2, <3>3
  <2>9. ValuesOf(h, k, s, base)
    BY <2>7, <2>8 DEF ValuesOf
  <2> QED BY <2>2, <2>9
<1> QED BY <1>1

\* Number, by its equation.
LEMMA NumberValues ==
  ASSUME NEW s \in Seq(Nat), NEW base
  PROVE  \E v : Values(v, s, base) /\ Number(s, base) = v[Len(s)]
<1>1. Len(s) \in Nat
  OBVIOUS
<1>2. PICK v : Values(v, s, base)
  BY <1>1, ValuesExist DEF Values, ValuesOf
<1>3. PICK u : u = CHOOSE x : Values(x, s, base)
  OBVIOUS
<1>4. Values(u, s, base)
  BY <1>2, <1>3, Zenon
<1>5. Number(s, base) = u[Len(s)]
  BY <1>3, Zenon DEF Number, Values
<1> QED BY <1>4, <1>5

-----------------------------------------------------------------------------
(***************************************************************************)
(* Numbers and their digits.                                               *)
(***************************************************************************)

\* What the places of an appended sequence hold.
LEMMA AppendPlaces ==
  ASSUME NEW S, NEW s \in Seq(S), NEW x \in S
  PROVE  /\ Append(s, x) \in Seq(S) /\ Len(s) \in Nat /\ Len(Append(s, x)) = Len(s) + 1
         /\ \A i \in 1 .. Len(s) : Append(s, x)[i] = s[i]
         /\ Append(s, x)[Len(s) + 1] = x
  OBVIOUS

\* Digits are taken in from the left.
LEMMA NumberAppend ==
  ASSUME NEW s \in Seq(Nat), NEW x \in Nat, NEW base \in Nat
  PROVE  Number(Append(s, x), base) = Number(s, base) * base + x
<1> DEFINE k == Len(s)
<1>1. PICK a : a = Append(s, x)
  OBVIOUS
<1>2. /\ k \in Nat /\ a \in Seq(Nat) /\ Len(a) = k + 1
      /\ \A i \in 1 .. k : a[i] = s[i]
      /\ a[k + 1] = x
  BY <1>1, AppendPlaces
<1>3. PICK v : Values(v, s, base) /\ Number(s, base) = v[Len(s)]
  BY NumberValues
<1>4. PICK u : Values(u, a, base) /\ Number(a, base) = u[Len(a)]
  BY <1>2, NumberValues
<1>5. \A i \in 0 .. k : v[i] = IF i = 0 THEN 0 ELSE v[i - 1] * base + s[i]
  BY <1>3, Zenon DEF Values
<1>6. u = [i \in 0 .. k + 1 |-> IF i = 0 THEN 0 ELSE u[i - 1] * base + a[i]]
  BY <1>2, <1>4 DEF Values
<1>7. \A i \in 0 .. k + 1 : u[i] = IF i = 0 THEN 0 ELSE u[i - 1] * base + a[i]
  BY <1>6, Zenon
<1> HIDE DEF k
<1> DEFINE Bad == { i \in 0 .. k : u[i] # v[i] }
<1>8. Bad = {}
  <2> SUFFICES ASSUME Bad # {} PROVE FALSE
    OBVIOUS
  <2>1. Bad \in SUBSET Nat
    BY <1>2
  <2>2. PICK m \in Bad : \A y \in Bad : m <= y
    BY <2>1, LeastOf
  <2>3. m \in 0 .. k /\ u[m] # v[m] /\ m \in 0 .. k + 1
    BY <1>2, <2>2
  <2>4. m # 0
    BY <1>5, <1>7, <2>3
  <2>5. m - 1 \in 0 .. k /\ ~(m <= m - 1) /\ m \in 1 .. k
    BY <1>2, <2>3, <2>4
  <2>6. u[m - 1] = v[m - 1]
    BY <2>2, <2>5
  <2>7. u[m] = u[m - 1] * base + a[m]
    BY <1>7, <2>3, <2>4
  <2>8. v[m] = v[m - 1] * base + s[m]
    BY <1>5, <2>3, <2>4
  <2>9. a[m] = s[m]
    BY <1>2, <2>5
  <2> QED BY <2>3, <2>6, <2>7, <2>8, <2>9
<1>9. u[k] = v[k]
  <2>1. k \in 0 .. k
    BY <1>2
  <2> QED BY <1>8, <2>1
<1>10. u[k + 1] = u[k] * base + x
  <2>1. k + 1 \in 0 .. k + 1 /\ k + 1 # 0 /\ (k + 1) - 1 = k
    BY <1>2
  <2> QED BY <1>2, <1>7, <2>1
<1>11. Number(s, base) = v[k] /\ Number(a, base) = u[k + 1]
  BY <1>2, <1>3, <1>4 DEF k
<1> QED BY <1>1, <1>9, <1>10, <1>11

LEMMA NumberEmpty == ASSUME NEW base PROVE Number(<<>>, base) = 0
<1>1. <<>> \in Seq(Nat) /\ Len(<<>>) = 0
  OBVIOUS
<1>2. PICK v : Values(v, <<>>, base) /\ Number(<<>>, base) = v[Len(<<>>)]
  BY <1>1, NumberValues
<1>3. v = [i \in 0 .. 0 |-> IF i = 0 THEN 0 ELSE v[i - 1] * base + <<>>[i]]
  BY <1>1, <1>2 DEF Values
<1>4. v[0] = 0
  BY <1>3
<1> QED BY <1>1, <1>2, <1>4

LEMMA NumberZero == ASSUME NEW base \in Nat PROVE Number(<<0>>, base) = 0
<1>1. PICK z, y : z = <<0>> /\ y = <<>>
  OBVIOUS
<1>2. y \in Seq(Nat) /\ z = Append(y, 0)
  BY <1>1
<1>3. Number(y, base) = 0
  BY <1>1, NumberEmpty
<1>4. Number(Append(y, 0), base) = Number(y, base) * base + 0
  BY <1>2, NumberAppend
<1> QED BY <1>1, <1>2, <1>3, <1>4

\* s are the digits of n, without a leading 0.
Spells(s, n, base) ==
  /\ s \in Seq(0 .. base - 1)
  /\ n # 0 => s # <<>> /\ s[1] \in 1 .. base - 1
  /\ n = 0 => s = <<>>
  /\ Number(s, base) = n

\* The loop takes a number apart into its digits.
LEMMA LoopSpells ==
  ASSUME NEW base \in Bases, NEW m \in Nat, NEW k \in 0 .. m
  PROVE  Spells(loop(m, base)[k], k, base)
<1>1. PICK d : d = loop(m, base)
  OBVIOUS
<1>2. Loops(d, m, base)
  BY <1>1, LoopLoops
<1>3. \A n \in 0 .. m : d[n] = IF n = 0 THEN <<>> ELSE Append(d[n \div base], n % base)
  BY <1>2, Zenon DEF Loops
<1> DEFINE Bad == { n \in 0 .. m : ~ Spells(d[n], n, base) }
<1>4. Bad = {}
  <2> SUFFICES ASSUME Bad # {} PROVE FALSE
    OBVIOUS
  <2>1. Bad \in SUBSET Nat
    OBVIOUS
  <2>2. PICK n \in Bad : \A y \in Bad : n <= y
    BY <2>1, LeastOf
  <2>3. n \in 0 .. m /\ ~ Spells(d[n], n, base)
    BY <2>2
  <2>4. CASE n = 0
    <3>1. d[n] = <<>> /\ Number(<<>>, base) = 0 /\ <<>> \in Seq(0 .. base - 1)
      BY <1>3, <2>3, <2>4, NumberEmpty
    <3> QED BY <2>3, <2>4, <3>1 DEF Spells
  <2>5. CASE n # 0
    <3>1. PICK q, x : q = n \div base /\ x = n % base
      OBVIOUS
    <3>2. /\ q \in 0 .. n - 1 /\ x \in 0 .. base - 1
          /\ q * base + x = n /\ (q = 0 => x # 0)
      <4>1. n \in Nat /\ n > 0
        BY <2>3, <2>5
      <4> QED BY <3>1, <4>1, DivBase
    <3>3. q \in 0 .. m /\ ~(n <= q)
      BY <2>3, <3>2
    <3>4. Spells(d[q], q, base)
      BY <2>2, <3>3
    <3>5. d[n] = Append(d[q], x)
      BY <1>3, <2>3, <2>5, <3>1
    <3>6. base \in Nat /\ x \in Nat /\ d[q] \in Seq(0 .. base - 1)
      BY <3>2, <3>4 DEF Bases, Spells
    <3>7. d[q] \in Seq(Nat)
      BY <3>6
    <3>8. Number(d[n], base) = n
      <4>1. Number(d[n], base) = Number(d[q], base) * base + x
        BY <3>5, <3>6, <3>7, NumberAppend
      <4> QED BY <3>2, <3>4, <4>1 DEF Spells
    <3>9. /\ d[n] \in Seq(0 .. base - 1) /\ Len(d[q]) \in Nat /\ Len(d[n]) = Len(d[q]) + 1
          /\ \A i \in 1 .. Len(d[q]) : d[n][i] = d[q][i]
          /\ d[n][Len(d[q]) + 1] = x
      BY <3>2, <3>5, <3>6, AppendPlaces
    <3>10. d[n] # <<>>
      BY <3>9
    <3>11. d[n][1] \in 1 .. base - 1
      <4>1. CASE q = 0
        <5>1. Len(d[q]) = 0
          BY <3>4, <4>1 DEF Spells
        <5> QED BY <3>2, <3>9, <4>1, <5>1
      <4>2. CASE q # 0
        <5>1. d[q] # <<>> /\ d[q][1] \in 1 .. base - 1
          BY <3>4, <4>2 DEF Spells
        <5>2. 1 \in 1 .. Len(d[q])
          BY <3>6, <5>1
        <5> QED BY <3>9, <5>1, <5>2
      <4> QED BY <4>1, <4>2
    <3> QED BY <2>3, <2>5, <3>8, <3>9, <3>10, <3>11 DEF Spells
  <2> QED BY <2>4, <2>5
<1>5. Spells(d[k], k, base)
  BY <1>4
<1> QED BY <1>1, <1>5

LEMMA DigitsSpell ==
  ASSUME NEW base \in Bases, NEW m \in Nat
  PROVE  Spells(digits(m, base), m, base)
<1>1. m \in 0 .. m
  OBVIOUS
<1> QED BY <1>1, LoopSpells DEF digits

\* A sequence is empty or has a last element.
LEMMA LastOf ==
  ASSUME NEW S, NEW s \in Seq(S), s # <<>>
  PROVE  \E p \in Seq(S), x \in S : s = Append(p, x) /\ Len(s) = Len(p) + 1
<1>1. PICK k \in Nat : Len(s) = k + 1
  BY EmptySeq
<1>2. PICK p : p = SubSeq(s, 1, k)
  OBVIOUS
<1>3. p \in Seq(S) /\ Len(p) = k /\ \A i \in 1 .. k : p[i] = s[i]
  BY <1>1, <1>2
<1>4. s[k + 1] \in S
  BY <1>1
<1>5. /\ Append(p, s[k + 1]) \in Seq(S) /\ Len(Append(p, s[k + 1])) = Len(s)
      /\ \A i \in 1 .. Len(s) : Append(p, s[k + 1])[i] = s[i]
  BY <1>1, <1>3, <1>4, AppendPlaces
<1>6. Append(p, s[k + 1]) = s
  BY <1>5, SeqEqual
<1> QED BY <1>1, <1>3, <1>4, <1>6

LEMMA NumberNat ==
  ASSUME NEW s \in Seq(Nat), NEW base \in Nat
  PROVE  Number(s, base) \in Nat
<1>1. PICK v : Values(v, s, base) /\ Number(s, base) = v[Len(s)]
  BY NumberValues
<1>2. \A i \in 0 .. Len(s) : v[i] = IF i = 0 THEN 0 ELSE v[i - 1] * base + s[i]
  BY <1>1, Zenon DEF Values
<1> DEFINE Bad == { i \in 0 .. Len(s) : v[i] \notin Nat }
<1>3. Bad = {}
  <2> SUFFICES ASSUME Bad # {} PROVE FALSE
    OBVIOUS
  <2>1. Bad \in SUBSET Nat
    OBVIOUS
  <2>2. PICK k \in Bad : \A y \in Bad : k <= y
    BY <2>1, LeastOf
  <2>3. k \in 0 .. Len(s) /\ v[k] \notin Nat /\ k # 0
    BY <1>2, <2>2
  <2>4. k - 1 \in 0 .. Len(s) /\ ~(k <= k - 1) /\ s[k] \in Nat
    BY <2>3
  <2>5. v[k - 1] \in Nat
    BY <2>2, <2>4
  <2>6. v[k] = v[k - 1] * base + s[k]
    BY <1>2, <2>3
  <2>7. v[k - 1] * base \in Nat
    BY <2>5
  <2> QED BY <2>3, <2>4, <2>6, <2>7
<1>4. Len(s) \in 0 .. Len(s)
  OBVIOUS
<1> QED BY <1>1, <1>3, <1>4

\* Division with a remainder has one result.
LEMMA DivUnique ==
  ASSUME NEW base \in Bases, NEW q \in Nat, NEW x \in 0 .. base - 1
  PROVE  (q * base + x) \div base = q
<1>1. CASE base = 8
  BY <1>1
<1>2. CASE base = 10
  BY <1>2
<1>3. CASE base = 16
  BY <1>3
<1> QED BY <1>1, <1>2, <1>3 DEF Bases

\* No sequence of digits that stands for m is shorter than the loop's.
LEMMA DigitsShortest ==
  ASSUME NEW base \in Bases, NEW m \in Nat
  PROVE  /\ Len(digits(m, base)) \in 0 .. m
         /\ \A s \in Seq(0 .. base - 1) : Number(s, base) = m => Len(digits(m, base)) <= Len(s)
<1> DEFINE Short(d, n) ==
             /\ Len(d) \in 0 .. n
             /\ \A s \in Seq(0 .. base - 1) : Number(s, base) = n => Len(d) <= Len(s)
<1>1. PICK d : d = loop(m, base)
  OBVIOUS
<1>2. Loops(d, m, base)
  BY <1>1, LoopLoops
<1>3. \A n \in 0 .. m : d[n] = IF n = 0 THEN <<>> ELSE Append(d[n \div base], n % base)
  BY <1>2, Zenon DEF Loops
<1>4. \A n \in 0 .. m : d[n] \in Seq(0 .. base - 1)
  BY <1>1, LoopSpells DEF Spells
<1> DEFINE Bad == { n \in 0 .. m : ~ Short(d[n], n) }
<1>5. Bad = {}
  <2> SUFFICES ASSUME Bad # {} PROVE FALSE
    OBVIOUS
  <2>1. Bad \in SUBSET Nat
    OBVIOUS
  <2>2. PICK n \in Bad : \A y \in Bad : n <= y
    BY <2>1, LeastOf
  <2>3. n \in 0 .. m /\ ~ Short(d[n], n)
    BY <2>2
  <2>4. CASE n = 0
    <3>1. d[n] = <<>> /\ Len(<<>>) = 0
      BY <1>3, <2>3, <2>4
    <3>2. \A s \in Seq(0 .. base - 1) : Len(s) \in Nat
      OBVIOUS
    <3> QED BY <2>3, <2>4, <3>1, <3>2
  <2>5. CASE n # 0
    <3>1. PICK q : q = n \div base
      OBVIOUS
    <3>2. n % base \in 0 .. base - 1 /\ q \in 0 .. n - 1
      BY <2>3, <2>5, <3>1, DivBase
    <3>3. q \in 0 .. m /\ ~(n <= q)
      BY <2>3, <3>2
    <3>4. Short(d[q], q)
      BY <2>2, <3>3
    <3>5. d[n] = Append(d[q], n % base)
      BY <1>3, <2>3, <2>5, <3>1
    <3>6. Len(d[n]) = Len(d[q]) + 1
      BY <1>4, <3>2, <3>3, <3>5, AppendPlaces
    <3>7. Len(d[n]) \in 0 .. n
      BY <3>2, <3>4, <3>6
    <3>8. ASSUME NEW s \in Seq(0 .. base - 1), Number(s, base) = n
          PROVE  Len(d[n]) <= Len(s)
      <4>1. s # <<>>
        BY <2>5, <3>8, NumberEmpty
      <4>2. PICK p \in Seq(0 .. base - 1), x \in 0 .. base - 1 :
              s = Append(p, x) /\ Len(s) = Len(p) + 1
        BY <4>1, LastOf
      <4>3. base \in Nat
        BY DEF Bases
      <4>4. p \in Seq(Nat) /\ x \in Nat
        BY <4>3
      <4>5. n = Number(p, base) * base + x /\ Number(p, base) \in Nat
        BY <3>8, <4>2, <4>3, <4>4, NumberAppend, NumberNat
      <4>6. Number(p, base) = q
        BY <3>1, <4>5, DivUnique
      <4>7. Len(d[q]) <= Len(p)
        BY <3>4, <4>6
      <4>8. Len(p) \in Nat /\ Len(d[q]) \in Nat
        BY <3>2, <3>4
      <4> QED BY <3>6, <4>2, <4>7, <4>8
    <3> QED BY <2>3, <3>7, <3>8
  <2> QED BY <2>4, <2>5
<1>6. m \in 0 .. m
  OBVIOUS
<1>7. Short(d[m], m)
  BY <1>5, <1>6
<1> QED BY <1>1, <1>7 DEF digits

\* The numbers that the directives %d, %o, %x and %p print.
Numeric(e) ==
  /\ e.base \in Bases /\ e.unsigned \in BOOLEAN /\ e.long \in BOOLEAN
  /\ e.v \in Int /\ -range(e) <= 2 * e.v /\ 2 * e.v < range(e)

Magnitude(e) == IF e.v >= 0 THEN e.v ELSE IF e.unsigned THEN range(e) + e.v ELSE -e.v

\* A number within a range, modulo the range.
LEMMA ModRange ==
  ASSUME NEW v \in Int, NEW U \in Nat, U > 0
  PROVE  /\ 0 <= v /\ v < U => v % U = v
         /\ -U <= v /\ v < 0 => v % U = v + U
<1>1. PICK q \in Int, x \in 0 .. U - 1 : v = U * q + x /\ x = v % U
  OBVIOUS
<1>2. CASE 0 <= v /\ v < U
  <2>1. q = 0
    <3>1. CASE q >= 1
      <4>1. q - 1 \in Nat
        BY <3>1
      <4>2. U * (q - 1) \in Nat /\ U * q = U * (q - 1) + U
        BY <4>1
      <4> QED BY <1>1, <1>2, <4>2
    <3>2. CASE q <= -1
      <4>1. -q - 1 \in Nat
        BY <3>2
      <4>2. U * (-q - 1) \in Nat /\ U * q = -(U * (-q - 1)) - U
        BY <4>1
      <4> QED BY <1>1, <1>2, <4>2
    <3> QED BY <1>1, <3>1, <3>2
  <2> QED BY <1>1, <1>2, <2>1
<1>3. CASE -U <= v /\ v < 0
  <2>1. q = -1
    <3>1. CASE q >= 0
      <4>1. q \in Nat
        BY <1>1, <3>1
      <4>2. U * q \in Nat
        BY <4>1
      <4> QED BY <1>1, <1>3, <4>2
    <3>2. CASE q <= -2
      <4>1. -q - 2 \in Nat
        BY <3>2
      <4>2. U * (-q - 2) \in Nat /\ U * q = -(U * (-q - 2)) - 2 * U
        BY <4>1
      <4> QED BY <1>1, <1>3, <4>2
    <3> QED BY <1>1, <3>1, <3>2
  <2>2. U * q = -U
    BY <2>1
  <2> QED BY <1>1, <1>3, <2>1, <2>2
<1> QED BY <1>2, <1>3

\* What magnitude makes of the argument, sign extension included.
LEMMA MagnitudeRight ==
  ASSUME NEW e, Numeric(e)
  PROVE  /\ magnitude(e) = Magnitude(e) /\ Magnitude(e) \in Nat
         /\ Magnitude(e) = 0 <=> e.v = 0
<1> DEFINE v == e.v
           u == UVLONG
           h == UVLONG \div 2
<1>1. /\ v \in Int /\ u \in Nat /\ UINT \in Nat /\ h \in Nat /\ u = 2 * h /\ u > 0 /\ UINT > 0
      /\ e.unsigned \in BOOLEAN /\ e.long \in BOOLEAN /\ UINT <= u
  <2>1. u \in Nat /\ u % 2 = 0 /\ UINT \in Nat /\ 1 < UINT /\ UINT <= u
    BY FormatAssumption
  <2>2. h \in Nat /\ u = 2 * h
    BY <2>1
  <2> QED BY <2>1, <2>2 DEF Numeric
<1>2. range(e) = (IF e.long THEN u ELSE UINT) /\ -range(e) <= 2 * v /\ 2 * v < range(e)
  BY DEF Numeric, range
<1>3. PICK r : r = range(e)
  OBVIOUS
<1>4. r \in Nat /\ r > 0 /\ r <= u /\ -r <= 2 * v /\ 2 * v < r
  BY <1>1, <1>2, <1>3
<1>5. vaarg(e) = IF e.unsigned /\ ~e.long THEN v % UINT ELSE v % u
  BY DEF vaarg
<1>6. magnitude(e) = IF ~e.unsigned /\ vaarg(e) >= h THEN (u - vaarg(e)) % u ELSE vaarg(e)
  BY DEF magnitude
<1>7. Magnitude(e) = IF v >= 0 THEN v ELSE IF e.unsigned THEN r + v ELSE -v
  BY <1>3 DEF Magnitude
<1> HIDE DEF v, u, h
<1>8. CASE e.unsigned
  <2>1. magnitude(e) = v % r
    BY <1>2, <1>3, <1>5, <1>6, <1>8, Zenon
  <2>2. (v >= 0 => 0 <= v /\ v < r) /\ (~(v >= 0) => -r <= v /\ v < 0)
    BY <1>1, <1>4
  <2>3. v >= 0 => v % r = v
    BY <1>1, <1>4, <2>2, ModRange
  <2>4. ~(v >= 0) => v % r = v + r
    BY <1>1, <1>4, <2>2, ModRange
  <2>5. v % r = Magnitude(e)
    BY <1>1, <1>4, <1>7, <1>8, <2>3, <2>4
  <2> QED BY <1>1, <1>4, <1>7, <1>8, <2>1, <2>5 DEF v
<1>9. CASE ~e.unsigned
  <2>1. vaarg(e) = v % u
    BY <1>5, <1>9, Zenon
  <2>2. CASE v >= 0
    <3>1. v < h /\ 0 <= v /\ v < u
      BY <1>1, <1>4, <2>2
    <3>2. v % u = v
      BY <1>1, <3>1, ModRange
    <3>3. magnitude(e) = v
      BY <1>1, <1>6, <2>1, <3>1, <3>2
    <3> QED BY <1>1, <1>7, <2>2, <3>3 DEF v
  <2>3. CASE ~(v >= 0)
    <3>1. -u <= v /\ v < 0 /\ v + u >= h /\ 0 <= -v /\ -v < u /\ -v \in Int
      BY <1>1, <1>4, <2>3
    <3>2. v % u = v + u
      BY <1>1, <3>1, ModRange
    <3>3. u - (v + u) = -v
      BY <1>1
    <3>4. (-v) % u = -v
      BY <1>1, <3>1, ModRange
    <3>5. magnitude(e) = (u - (v + u)) % u
      BY <1>6, <1>9, <2>1, <3>1, <3>2
    <3>6. magnitude(e) = -v
      BY <3>3, <3>4, <3>5
    <3> QED BY <1>1, <1>7, <1>9, <2>3, <3>1, <3>6 DEF v
  <2> QED BY <2>2, <2>3
<1> QED BY <1>1, <1>8, <1>9

\* Two sequences one behind the other.
LEMMA BehindPrefix ==
  ASSUME NEW p \in Seq(Nat), NEW s \in Seq(Nat)
  PROVE  /\ p \o s \in Seq(Nat) /\ Len(p \o s) \in Nat
         /\ SubSeq(p \o s, 1, Len(p)) = p
         /\ SubSeq(p \o s, Len(p) + 1, Len(p \o s)) = s
<1>1. PICK c : c = p \o s
  OBVIOUS
<1>2. /\ c \in Seq(Nat) /\ Len(p) \in Nat /\ Len(s) \in Nat /\ Len(c) = Len(p) + Len(s)
      /\ \A i \in 1 .. Len(s) : c[Len(p) + i] = s[i]
      /\ \A i \in 1 .. Len(p) : c[i] = p[i]
  BY <1>1
<1>3. PICK x : x = SubSeq(c, Len(p) + 1, Len(c))
  OBVIOUS
<1>4. x = [i \in 1 .. Len(s) |-> c[Len(p) + i]]
  BY <1>2, <1>3
<1>5. s = [i \in 1 .. Len(s) |-> s[i]]
  OBVIOUS
<1>6. SubSeq(c, 1, Len(p)) = p
  <2>1. PICK y : y = SubSeq(c, 1, Len(p))
    OBVIOUS
  <2>2. y \in Seq(Nat) /\ Len(y) = Len(p) /\ \A i \in 1 .. Len(p) : y[i] = p[i]
    BY <1>2, <2>1
  <2>3. y = p
    BY <2>2, SeqEqual
  <2> QED BY <2>1, <2>3
<1> QED BY <1>1, <1>2, <1>3, <1>4, <1>5, <1>6

LEMMA NumParts ==
  ASSUME NEW e, Numeric(e)
  PROVE  /\ prefix(e) \in Seq(Nat)
         /\ digits(magnitude(e), e.base) \in Seq(Nat)
         /\ e.v # 0 => num(e) = prefix(e) \o digits(magnitude(e), e.base)
         /\ e.v = 0 => num(e) = IF e.base = 16 THEN <<0, 0, letterx>> ELSE <<0>>
<1>1. PICK s : s = digits(magnitude(e), e.base)
  OBVIOUS
<1>2. Spells(s, Magnitude(e), e.base) /\ magnitude(e) = Magnitude(e)
  BY <1>1, MagnitudeRight, DigitsSpell DEF Numeric
<1>3. s \in Seq(Nat) /\ (e.v = 0 => s = <<>>)
  <2>1. s \in Seq(0 .. e.base - 1) /\ e.base \in Nat
    BY <1>2 DEF Spells, Numeric, Bases
  <2>2. e.v = 0 => s = <<>>
    BY <1>2, MagnitudeRight DEF Spells
  <2> QED BY <2>1, <2>2
<1>4. num(e) = ((IF e.base = 8 \/ e.v = 0 THEN <<0>> ELSE <<>>)
                  \o (IF e.base = 16 THEN <<0, letterx>> ELSE <<>>)) \o s
  <2>1. magnitude(e) = 0 <=> e.v = 0
    BY <1>2, MagnitudeRight
  <2> QED BY <1>1, <2>1, Zenon DEF num
<1>5. /\ <<0>> \o <<>> = <<0>> /\ <<>> \o <<>> = <<>>
      /\ <<0>> \o <<0, letterx>> = <<0, 0, letterx>> /\ <<>> \o <<0, letterx>> = <<0, letterx>>
      /\ <<0, 0, letterx>> \o <<>> = <<0, 0, letterx>>
      /\ <<0>> \in Seq(Nat) /\ <<0, letterx>> \in Seq(Nat) /\ <<>> \in Seq(Nat)
  <2>1. <<0>> \o <<>> = <<0>> /\ <<>> \o <<>> = <<>>
    OBVIOUS
  <2>2. <<0>> \o <<0, letterx>> = <<0, 0, letterx>>
    <3>1. PICK a, b, c : a = <<0>> /\ b = <<0, letterx>> /\ c = <<0, 0, letterx>>
      OBVIOUS
    <3>2. /\ a \in Seq(Nat) /\ b \in Seq(Nat) /\ c \in Seq(Nat)
          /\ Len(a) = 1 /\ Len(b) = 2 /\ Len(c) = 3
          /\ a[1] = 0 /\ b[1] = 0 /\ b[2] = letterx
          /\ c[1] = 0 /\ c[2] = 0 /\ c[3] = letterx
      BY <3>1 DEF letterx
    <3>3. /\ a \o b \in Seq(Nat) /\ Len(a \o b) = Len(a) + Len(b)
          /\ \A i \in 1 .. Len(a) + Len(b) :
               (a \o b)[i] = IF i <= Len(a) THEN a[i] ELSE b[i - Len(a)]
      <4>1. a \in Seq(Nat) /\ b \in Seq(Nat)
        BY <3>2
      <4> QED BY <4>1, ConcatProperties
    <3>4. Len(a \o b) = Len(c) /\ \A i \in 1 .. Len(a \o b) : (a \o b)[i] = c[i]
      BY <3>2, <3>3
    <3>5. a \o b = c
      BY <3>2, <3>3, <3>4, SeqEqual
    <3> QED BY <3>1, <3>5
  <2>3. <<>> \o <<0, letterx>> = <<0, letterx>>
    OBVIOUS
  <2>4. <<0, 0, letterx>> \o <<>> = <<0, 0, letterx>>
    OBVIOUS
  <2>5. letterx \in Nat
    BY DEF letterx
  <2>6. <<0>> \in Seq(Nat) /\ <<0, letterx>> \in Seq(Nat) /\ <<>> \in Seq(Nat)
    BY <2>5
  <2> QED BY <2>1, <2>2, <2>3, <2>4, <2>6
<1>6. CASE e.base = 8
  <2>1. num(e) = (<<0>> \o <<>>) \o s
    <3>1. ~(e.base = 16)
      BY <1>6
    <3> QED BY <1>4, <1>6, <3>1, Zenon
  <2>2. num(e) = <<0>> \o s
    BY <1>5, <2>1
  <2>3. e.v = 0 => num(e) = <<0>>
    BY <1>3, <1>5, <2>2
  <2>4. prefix(e) = <<0>> /\ ~(e.base = 16)
    BY <1>6 DEF prefix
  <2> QED BY <1>1, <1>3, <1>5, <2>2, <2>3, <2>4
<1>7. CASE e.base = 10
  <2>1. ~(e.base = 8) /\ ~(e.base = 16)
    BY <1>7
  <2>2. e.v # 0 => num(e) = (<<>> \o <<>>) \o s
    BY <1>4, <2>1, Zenon
  <2>3. e.v = 0 => num(e) = (<<0>> \o <<>>) \o <<>>
    BY <1>3, <1>4, <2>1, Zenon
  <2>4. e.v = 0 => num(e) = <<0>>
    BY <1>5, <2>3
  <2> QED BY <1>1, <1>3, <1>5, <2>1, <2>2, <2>4 DEF prefix
<1>8. CASE e.base = 16
  <2>1. ~(e.base = 8)
    BY <1>8
  <2>2. e.v # 0 => num(e) = (<<>> \o <<0, letterx>>) \o s
    BY <1>4, <1>8, <2>1, Zenon
  <2>3. e.v = 0 => num(e) = (<<0>> \o <<0, letterx>>) \o <<>>
    BY <1>3, <1>4, <1>8, Zenon
  <2>4. e.v = 0 => num(e) = <<0, 0, letterx>>
    BY <1>5, <2>3
  <2> QED BY <1>1, <1>3, <1>5, <1>8, <2>1, <2>2, <2>4 DEF prefix
<1> QED BY <1>6, <1>7, <1>8 DEF Numeric, Bases

\* The text of a number has a length, ...
LEMMA NumberLength == ASSUME NEW e, Numeric(e) PROVE Len(num(e)) \in Nat
<1>1. CASE e.v # 0
  BY <1>1, NumParts, BehindPrefix
<1>2. CASE e.v = 0
  <2>1. num(e) = <<0>> \/ num(e) = <<0, 0, letterx>>
    BY <1>2, NumParts, Zenon
  <2>2. Len(<<0>>) = 1 /\ Len(<<0, 0, letterx>>) = 3
    OBVIOUS
  <2> QED BY <2>1, <2>2
<1> QED BY <1>1, <1>2

\* ... and but for the sign, it is what printf prints.
LEMMA NumberUsual ==
  ASSUME NEW e, Numeric(e), usual(e)
  PROVE  Printf(num(e), e, <<>>)
<1>1. printed(e) = Magnitude(e) /\ Magnitude(e) \in Nat /\ (Magnitude(e) = 0 <=> e.v = 0)
  BY MagnitudeRight DEF printed, usual, signed, Magnitude, Numeric
<1>2. ASSUME NEW p \in Seq(Nat), NEW s \in Seq(Nat), num(e) = p \o s,
             p \in {<<>>, IF e.v = 0 THEN <<>> ELSE prefix(e)}, Writes(s, printed(e), e.base)
      PROVE  Printf(num(e), e, <<>>)
  <2>1. SubSeq(num(e), 1, Len(p)) = p /\ SubSeq(num(e), Len(p) + 1, Len(num(e))) = s
    BY <1>2, BehindPrefix
  <2>2. <<>> \o p = p /\ Len(<<>>) + Len(p) = Len(p)
    OBVIOUS
  <2> QED BY <1>2, <2>1, <2>2 DEF Printf
<1>3. CASE e.v = 0
  <2>1. PICK z : z = <<0>>
    OBVIOUS
  <2>2. z \in Seq(Nat) /\ Len(z) = 1 /\ z # <<>> /\ z[1] = 0 /\ DOMAIN z = 1 .. 1
    BY <2>1
  <2>3. num(e) = <<>> \o z /\ <<>> \in Seq(Nat)
    <3>1. num(e) = z
      BY <1>3, <2>1, NumParts DEF usual
    <3> QED BY <2>2, <3>1
  <2>4. e.base \in Nat /\ e.base > 0 /\ Number(z, e.base) = 0
    BY <2>1, NumberZero DEF Numeric, Bases
  <2>5. Writes(z, 0, e.base)
    BY <2>2, <2>4 DEF Writes
  <2> QED BY <1>1, <1>2, <1>3, <2>2, <2>3, <2>5
<1>4. CASE e.v # 0
  <2>1. PICK s, p : s = digits(magnitude(e), e.base) /\ p = prefix(e)
    OBVIOUS
  <2>2. num(e) = p \o s /\ p \in Seq(Nat) /\ s \in Seq(Nat)
    BY <1>4, <2>1, NumParts
  <2>3. Spells(s, printed(e), e.base) /\ printed(e) # 0
    BY <1>1, <1>4, <2>1, MagnitudeRight, DigitsSpell DEF Numeric
  <2>4. Writes(s, printed(e), e.base)
    <3>1. s # <<>> /\ s[1] \in 1 .. e.base - 1 /\ s \in Seq(0 .. e.base - 1)
          /\ Number(s, e.base) = printed(e)
      BY <2>3 DEF Spells
    <3>2. ~(s[1] = 0)
      <4>1. e.base \in Int
        BY DEF Numeric, Bases
      <4> QED BY <3>1, <4>1
    <3>3. \A k \in DOMAIN s : s[k] \in 0 .. e.base - 1
      <4>1. PICK D : D = 0 .. e.base - 1
        OBVIOUS
      <4>2. s \in Seq(D)
        BY <3>1, <4>1
      <4>3. \A k \in DOMAIN s : s[k] \in D
        BY <4>2
      <4> QED BY <4>1, <4>3, Zenon
    <3> QED BY <3>1, <3>2, <3>3, Zenon DEF Writes
  <2> QED BY <1>2, <1>4, <2>1, <2>2, <2>4
<1> QED BY <1>3, <1>4

\* decimals is the length of what the loop makes of a number other than 0.
LEMMA DecimalsRight ==
  ASSUME NEW n \in Nat
  PROVE  decimals(n) = IF n = 0 THEN 1 ELSE Len(digits(n, 10))
<1> DEFINE Least(k) == spells(k, n) /\ \A j \in 1 .. k - 1 : ~spells(j, n)
<1>1. PICK d, m : d = digits(n, 10) /\ m = IF n = 0 THEN 1 ELSE Len(d)
  OBVIOUS
<1>2. /\ d \in Seq(0 .. 9) /\ Number(d, 10) = n /\ (n # 0 => d # <<>>)
      /\ Len(d) \in 0 .. n
      /\ \A s \in Seq(0 .. 9) : Number(s, 10) = n => Len(d) <= Len(s)
  <2>1. 10 \in Bases /\ 10 - 1 = 9
    BY DEF Bases
  <2> QED BY <1>1, <2>1, DigitsSpell, DigitsShortest DEF Spells
<1>3. m \in 1 .. n + 1
  BY <1>1, <1>2
<1>4. spells(m, n)
  <2>1. CASE n = 0
    <3>1. <<0>> \in [1 .. 1 -> 0 .. 9]
      OBVIOUS
    <3>2. Number(<<0>>, 10) = 0
      BY NumberZero
    <3> QED BY <1>1, <2>1, <3>1, <3>2 DEF spells
  <2>2. CASE n # 0
    <3>1. d \in [1 .. m -> 0 .. 9]
      BY <1>1, <1>2, <2>2
    <3> QED BY <1>2, <3>1 DEF spells
  <2> QED BY <2>1, <2>2
<1>5. ASSUME NEW j \in 1 .. m - 1, spells(j, n)
      PROVE  FALSE
  <2>1. PICK s \in [1 .. j -> 0 .. 9] : Number(s, 10) = n
    BY <1>5 DEF spells
  <2>2. j \in Nat /\ j < m /\ n # 0
    BY <1>1, <1>3, <1>5
  <2>3. s \in Seq(0 .. 9) /\ Len(s) = j
    BY <2>1, <2>2
  <2> QED BY <1>1, <1>2, <2>1, <2>2, <2>3
<1>6. Least(m)
  BY <1>4, <1>5
<1>7. PICK k : k = decimals(n)
  OBVIOUS
<1>8. k \in 1 .. n + 1 /\ Least(k)
  BY <1>3, <1>6, <1>7, Zenon DEF decimals
<1>9. k = m
  <2>1. CASE k < m
    <3>1. k \in 1 .. m - 1
      BY <1>3, <1>8, <2>1
    <3> QED BY <1>6, <1>8, <3>1
  <2>2. CASE m < k
    <3>1. m \in 1 .. k - 1
      BY <1>3, <1>8, <2>2
    <3> QED BY <1>6, <1>8, <3>1
  <2> QED BY <1>3, <1>8, <2>1, <2>2
<1> QED BY <1>1, <1>7, <1>9

\* The arguments of a format's items.
LEMMA Arguments ==
  ASSUME NEW e \in Items, e.kind \in {"str", "num"}
  PROVE  arglen(e) \in Nat /\ e.size \in Int
<1>1. e.kind = "num" => Numeric(e)
  BY InfoAssumption DEF Numeric, Bases
<1>2. e.kind = "num" => Len(num(e)) \in Nat
  BY <1>1, NumberLength
<1> QED BY <1>2, InfoAssumption DEF arglen

-----------------------------------------------------------------------------
(***************************************************************************)
(* What one round of vseprint writes.                                      *)
(***************************************************************************)

\* The wider of the argument and its field.
LEMMA MaxOfThree ==
  ASSUME NEW a \in Int, NEW b \in Int, NEW c \in Int
  PROVE  Max({a, b, c}) \in Int /\ Max({a, b, c}) >= a
<1>1. \E x \in {a, b, c} : \A y \in {a, b, c} : x >= y
  OBVIOUS
<1>2. Max({a, b, c}) \in {a, b, c} /\ \A y \in {a, b, c} : Max({a, b, c}) >= y
  BY <1>1, Zenon DEF Max
<1> QED BY <1>2

\* That, or the room that is left.
LEMMA MinOfTwo ==
  ASSUME NEW a \in Int, NEW b \in Int
  PROVE  Min({a, b}) \in {a, b} /\ Min({a, b}) <= b
<1>1. \E x \in {a, b} : \A y \in {a, b} : x <= y
  OBVIOUS
<1>2. Min({a, b}) \in {a, b} /\ \A y \in {a, b} : Min({a, b}) <= y
  BY <1>1, Zenon DEF Min
<1> QED BY <1>2

\* printstr keeps the last of the places for the NUL.
LEMMA PrintstrRoom ==
  ASSUME NEW room \in Nat, room > 0, NEW l \in Nat, NEW size \in Int
  PROVE  printstr(room, l, size) \in 0 .. room - 1
<1> DEFINE m == Max({l, size, -size})
<1>1. m \in Int /\ m >= l
  BY MaxOfThree
<1> HIDE DEF m
<1>2. room - 1 \in Int
  OBVIOUS
<1>3. Min({m, room - 1}) \in {m, room - 1} /\ Min({m, room - 1}) <= room - 1
  BY <1>1, <1>2, MinOfTwo
<1>4. printstr(room, l, size) = Min({m, room - 1})
  BY DEF printstr, m
<1> QED BY <1>1, <1>3, <1>4

\* Whatever the item, a round of the loop fills no more places than there are,
\* less the last one.
LEMMA FilledRoom ==
  ASSUME NEW r \in Seq(Items), NEW k \in Nat, printing(NAMELEN, r, k)
  PROVE  filled(NAMELEN, r, k) \in 0 .. NAMELEN - 1 - k
<1>1. r[1] \in Items /\ k < NAMELEN - 1 /\ NAMELEN \in Nat
  BY InfoAssumption DEF printing
<1>2. CASE r[1].kind = "letter"
  BY <1>1, <1>2 DEF filled
<1>3. CASE r[1].kind \in {"str", "num"}
  <2>1. arglen(r[1]) \in Nat /\ r[1].size \in Int
    BY <1>1, <1>3, Arguments
  <2>2. NAMELEN - k \in Nat /\ NAMELEN - k > 0
    BY <1>1
  <2>3. printstr(NAMELEN - k, arglen(r[1]), r[1].size) \in 0 .. NAMELEN - k - 1
    BY <2>1, <2>2, PrintstrRoom
  <2>4. filled(NAMELEN, r, k) = printstr(NAMELEN - k, arglen(r[1]), r[1].size)
    BY <1>3 DEF filled
  <2> QED BY <1>1, <2>3, <2>4
<1>4. CASE r[1].kind \notin {"letter", "str", "num"}
  BY <1>1, <1>4 DEF filled
<1> QED BY <1>2, <1>3, <1>4

\* The loop goes on with items of formats only.
LEMMA GoesonItems ==
  ASSUME NEW r \in Seq(Items), r # <<>>, NEW x \in goeson(r)
  PROVE  x \in Seq(Items)
<1>1. [kind |-> "letter"] \in Items
  BY Zenon DEF Items
<1>2. badverb \in Seq(Items)
  BY <1>1 DEF badverb
<1>3. Tail(r) \in Seq(Items)
  OBVIOUS
<1>4. Behind \subseteq Seq(Items)
  BY InfoAssumption
<1> QED BY <1>2, <1>3, <1>4 DEF goeson

-----------------------------------------------------------------------------
(***************************************************************************)
(* Each operation preserves the invariant.                                 *)
(***************************************************************************)

\* A store of the program makes an earlier listing history.
LEMMA ListedNone == ASSUME listed' = <<>> PROVE ListedOK'
  BY DEF ListedOK

\* Outside vseprint the names stay as they are.
LEMMA TextSame ==
  ASSUME TextOK, live' = live, text' = text, pc' # "vseprint"
  PROVE  TextOK'
  BY DEF TextOK

LEMMA InfoInit == Init => InfoInv
<1> SUFFICES ASSUME Init PROVE InfoInv
  OBVIOUS
<1>1. InfoTypeOK
  BY DEF Init, InfoTypeOK
<1>2. TableOK /\ TextOK /\ ListedOK
  BY DEF Init, TableOK, AtStart, TextOK, ListedOK
<1> QED BY <1>1, <1>2 DEF InfoInv

LEMMA TaskallocInv ==
  ASSUME InfoInv, NEW u \in Task, taskalloc(u)
  PROVE  InfoInv'
<1> USE DEF InfoInv
<1>1. /\ u \notin live /\ live' = live \cup {u} /\ t' = u
      /\ text' = [text EXCEPT ![u] = cleared]
      /\ UNCHANGED <<alltask, blocks, nalltask, alltaskslot>>
      /\ listed' = <<>>
      /\ pc' = IF nalltask % CHUNK = 0 THEN "realloc" ELSE "setslot"
  BY DEF taskalloc, goto
<1>2. cleared \in SUBSET Nat /\ NAMELEN - 1 \in cleared
  BY InfoAssumption DEF cleared
<1>3. InfoTypeOK'
  BY <1>1, <1>2 DEF InfoTypeOK
<1>4. live' \ {t'} = live
  BY <1>1
<1>5. TableOK'
  <2>1. CASE pc = "start"
    <3>1. live = {} /\ nalltask = 0 /\ alltask = nil
      BY <2>1 DEF TableOK, AtStart
    <3>2. 0 % CHUNK = 0
      BY InfoAssumption
    <3>3. AtRealloc'
      BY <1>1, <3>1, <3>2 DEF AtRealloc
    <3> QED BY <1>1, <3>1, <3>2, <3>3 DEF TableOK
  <2>2. CASE pc = "idle"
    <3>1. Seated(alltask, nalltask, live)
      BY <2>2 DEF TableOK
    <3>2. CASE nalltask % CHUNK = 0
      <4>1. AtRealloc'
        BY <1>1, <1>4, <3>1, <3>2 DEF AtRealloc, Seated
      <4> QED BY <1>1, <3>2, <4>1 DEF TableOK
    <3>3. CASE nalltask % CHUNK # 0
      <4>1. Len(blocks[alltask]) \in Nat /\ nalltask < Len(blocks[alltask])
        BY <3>1, <3>3 DEF Seated, Seats
      <4>2. AtSetslot'
        BY <1>1, <1>4, <3>1, <4>1 DEF AtSetslot, Seated
      <4> QED BY <1>1, <3>3, <4>2 DEF TableOK
    <3> QED BY <3>2, <3>3
  <2> QED BY <2>1, <2>2 DEF taskalloc
<1>6. TextOK'
  BY <1>1, <1>2 DEF TextOK, InfoTypeOK
<1> QED BY <1>1, <1>3, <1>5, <1>6, ListedNone

LEMMA ReallocInv ==
  ASSUME InfoInv, realloc
  PROVE  InfoInv'
<1> USE DEF InfoInv
<1>1. /\ pc' = "setalltask" /\ listed' = <<>>
      /\ UNCHANGED <<live, alltask, nalltask, alltaskslot, text, t>>
  BY DEF realloc, goto, printvars
<1>2. AtRealloc /\ alltaskslot \in Slots /\ nalltask \in Nat /\ live \ {t} \in SUBSET Task
  BY DEF realloc, TableOK, InfoTypeOK, Slots
<1>3. CASE tmp' = nil /\ UNCHANGED blocks
  <2>1. InfoTypeOK'
    BY <1>1, <1>3 DEF InfoTypeOK
  <2>2. AtSetalltask'
    BY <1>1, <1>2, <1>3 DEF AtSetalltask, AtRealloc
  <2>3. TableOK'
    BY <1>1, <2>2 DEF TableOK
  <2> QED BY <1>1, <2>1, <2>3, ListedNone, TextSame
<1>4. ASSUME NEW b \in Block,
             blocks' = [c \in Block |->
                          IF c = b THEN [i \in 1 .. nalltask + CHUNK |->
                                           IF i <= nalltask THEN blocks[alltask][i] ELSE garbage]
                          ELSE IF c = alltask THEN nil ELSE blocks[c]],
             tmp' = b
      PROVE  InfoInv'
  <2> DEFINE e == blocks[alltask]
  <2>1. PICK f : f = Grown(e, nalltask)
    OBVIOUS
  <2>2. blocks' = [c \in Block |-> IF c = b THEN f ELSE IF c = alltask THEN nil ELSE blocks[c]]
    BY <1>4, <2>1 DEF garbage, Grown
  <2>3. Seats(e, alltaskslot, nalltask, live \ {t}) \/ (nalltask = 0 /\ live \ {t} = {})
    BY <1>2 DEF AtRealloc, Seated
  <2>4. nalltask % CHUNK = 0
    BY <1>2 DEF AtRealloc
  <2> HIDE DEF e
  <2>5. Seats(f, alltaskslot, nalltask, live \ {t}) /\ nalltask < Len(f)
    BY <1>2, <2>1, <2>3, <2>4, SeatsGrow
  <2>6. f \in Seq(Task \cup {nil})
    BY <2>5 DEF Seats
  <2>7. InfoTypeOK'
    <3>1. \A c \in Block : blocks'[c] \in Seq(Task \cup {nil}) \cup {nil}
      BY <2>2, <2>6 DEF InfoTypeOK
    <3>2. blocks' \in [Block -> Seq(Task \cup {nil}) \cup {nil}]
      BY <2>2, <3>1
    <3> QED BY <1>1, <3>2 DEF InfoTypeOK
  <2>8. AtSetalltask'
    BY <1>1, <1>2, <1>4, <2>2, <2>5 DEF AtSetalltask, AtRealloc, Seated
  <2>9. TableOK'
    BY <1>1, <2>8 DEF TableOK
  <2> QED BY <1>1, <2>7, <2>9, ListedNone, TextSame
<1> QED BY <1>3, <1>4 DEF realloc

LEMMA SetalltaskInv ==
  ASSUME InfoInv, setalltask
  PROVE  InfoInv'
<1> USE DEF InfoInv
<1>1. /\ pc' = (IF tmp = nil THEN "nomemory" ELSE "setslot") /\ listed' = <<>>
      /\ alltask' = tmp
      /\ UNCHANGED <<live, blocks, nalltask, alltaskslot, text, t>>
  BY DEF setalltask, goto, printvars
<1>2. AtSetalltask
  BY DEF setalltask, TableOK
<1>3. CASE tmp = nil
  BY <1>1, <1>3, ListedNone, TextSame DEF InfoTypeOK, TableOK
<1>4. CASE tmp # nil
  <2>1. Seated(tmp, nalltask, live \ {t}) /\ nalltask < Len(blocks[tmp]) /\ tmp \in Block
    BY <1>2, <1>4 DEF AtSetalltask, Seated
  <2>2. InfoTypeOK'
    BY <1>1, <2>1 DEF InfoTypeOK
  <2>3. AtSetslot'
    BY <1>1, <1>2, <2>1 DEF AtSetalltask, AtSetslot, Seated
  <2>4. TableOK'
    BY <1>1, <1>4, <2>3 DEF TableOK
  <2> QED BY <1>1, <1>4, <2>2, <2>4, ListedNone, TextSame
<1> QED BY <1>3, <1>4

LEMMA SetslotInv ==
  ASSUME InfoInv, setslot
  PROVE  InfoInv'
<1> USE DEF InfoInv
<1>1. /\ pc' \in {"store", "count"} /\ listed' = <<>>
      /\ alltaskslot' = [alltaskslot EXCEPT ![t] = nalltask]
      /\ UNCHANGED <<live, alltask, blocks, nalltask, text, t>>
  BY DEF setslot, goto, printvars
<1>2. AtSetslot /\ alltaskslot \in Slots /\ nalltask \in Nat /\ live \in SUBSET Task
  BY DEF setslot, TableOK, InfoTypeOK, Slots
<1>3. t \in Task /\ live \ {t} \in SUBSET Task /\ t \notin live \ {t}
  BY <1>2 DEF AtSetslot
<1>4. alltask \in Block /\ Seats(blocks[alltask], alltaskslot, nalltask, live \ {t})
  BY <1>2 DEF AtSetslot, Seated
<1>5. Seats(blocks[alltask], [alltaskslot EXCEPT ![t] = nalltask], nalltask, live \ {t})
  BY <1>2, <1>3, <1>4, SeatsOther
<1>6. InfoTypeOK'
  BY <1>1, <1>2 DEF InfoTypeOK, Slots
<1>7. AtSetslot' /\ alltaskslot'[t'] = nalltask'
  BY <1>1, <1>2, <1>3, <1>4, <1>5 DEF AtSetslot, Seated, Slots
<1>8. TableOK'
  BY <1>1, <1>7 DEF TableOK
<1> QED BY <1>1, <1>6, <1>8, ListedNone, TextSame

\* Storing one entry changes one block.
LEMMA StoreType ==
  ASSUME InfoTypeOK, alltask \in Block, blocks[alltask] \in Seq(Task \cup {nil}),
         NEW i \in 1 .. Len(blocks[alltask]), NEW u \in Task,
         blocks' = [blocks EXCEPT ![alltask][i] = u]
  PROVE  /\ blocks' \in [Block -> Seq(Task \cup {nil}) \cup {nil}]
         /\ blocks'[alltask] = [blocks[alltask] EXCEPT ![i] = u]
<1>1. [blocks[alltask] EXCEPT ![i] = u] \in Seq(Task \cup {nil})
  OBVIOUS
<1> QED BY <1>1 DEF InfoTypeOK

LEMMA EnrollInv ==
  ASSUME InfoInv, enroll
  PROVE  InfoInv'
<1> USE DEF InfoInv
<1>0. /\ alltaskslot \in Slots /\ nalltask \in Nat /\ nalltask + 1 \in Nat
      /\ live \in SUBSET Task /\ live \ {t} \in SUBSET Task
  BY DEF InfoTypeOK, Slots
<1>1. CASE pc = "store" /\ store(nalltask + 1, stay("count2"))
  <2>1. /\ pc' = "count2" /\ listed' = <<>>
        /\ blocks' = [blocks EXCEPT ![alltask][nalltask + 1] = t]
        /\ UNCHANGED <<live, alltask, nalltask, alltaskslot, text>>
    BY <1>1 DEF store, stay, goto, printvars
  <2>2. AtSetslot /\ alltaskslot[t] = nalltask
    BY <1>1 DEF TableOK
  <2>3. /\ t \in live /\ t \in Task /\ t \notin live \ {t} /\ alltask \in Block
        /\ Seats(blocks[alltask], alltaskslot, nalltask, live \ {t})
        /\ nalltask < Len(blocks[alltask])
    BY <1>0, <2>2 DEF AtSetslot, Seated
  <2>4. blocks[alltask] \in Seq(Task \cup {nil}) /\ nalltask + 1 \in 1 .. Len(blocks[alltask])
    BY <1>0, <2>3 DEF Seats
  <2>5. /\ blocks' \in [Block -> Seq(Task \cup {nil}) \cup {nil}]
        /\ blocks'[alltask] = [blocks[alltask] EXCEPT ![nalltask + 1] = t]
    BY <2>1, <2>3, <2>4, StoreType
  <2>6. Seats([blocks[alltask] EXCEPT ![nalltask + 1] = t], alltaskslot, nalltask + 1,
              (live \ {t}) \cup {t})
    BY <1>0, <2>2, <2>3, SeatsAdd
  <2>7. (live \ {t}) \cup {t} = live
    BY <2>3
  <2>8. Seated(alltask, nalltask + 1, live)'
    BY <2>1, <2>3, <2>5, <2>6, <2>7 DEF Seated
  <2>9. InfoTypeOK'
    BY <2>1, <2>5 DEF InfoTypeOK
  <2>10. TableOK'
    BY <2>1, <2>8 DEF TableOK
  <2> QED BY <2>1, <2>9, <2>10, ListedNone, TextSame
<1>2. CASE pc = "count2" /\ count(idle)
  <2>1. /\ pc' = "idle" /\ listed' = <<>> /\ nalltask' = nalltask + 1
        /\ UNCHANGED <<live, alltask, blocks, alltaskslot, text>>
    BY <1>2 DEF count, idle, goto, printvars
  <2>2. Seated(alltask, nalltask + 1, live)
    BY <1>2 DEF TableOK
  <2>3. Seated(alltask, nalltask, live)'
    BY <2>1, <2>2 DEF Seated
  <2>4. InfoTypeOK' /\ TableOK'
    BY <1>0, <2>1, <2>3 DEF InfoTypeOK, TableOK
  <2> QED BY <2>1, <2>4, ListedNone, TextSame
<1>3. CASE pc = "count" /\ count(stay("store2"))
  <2>1. /\ pc' = "store2" /\ listed' = <<>> /\ nalltask' = nalltask + 1
        /\ UNCHANGED <<live, alltask, blocks, alltaskslot, text, t>>
    BY <1>3 DEF count, stay, goto, printvars
  <2>2. AtSetslot /\ alltaskslot[t] = nalltask
    BY <1>3 DEF TableOK
  <2>3. Len(blocks[alltask]) \in Nat /\ nalltask < Len(blocks[alltask])
    BY <2>2 DEF AtSetslot, Seated, Seats
  <2>4. nalltask' - 1 = nalltask /\ nalltask' > 0 /\ nalltask' <= Len(blocks[alltask])
    BY <1>0, <2>1, <2>3
  <2>5. AtStore2'
    BY <2>1, <2>2, <2>4 DEF AtSetslot, AtStore2, Seated
  <2>6. InfoTypeOK' /\ TableOK'
    BY <1>0, <2>1, <2>5 DEF InfoTypeOK, TableOK
  <2> QED BY <2>1, <2>6, ListedNone, TextSame
<1>4. CASE pc = "store2" /\ store(nalltask, idle)
  <2>1. /\ pc' = "idle" /\ listed' = <<>>
        /\ blocks' = [blocks EXCEPT ![alltask][nalltask] = t]
        /\ UNCHANGED <<live, alltask, nalltask, alltaskslot, text>>
    BY <1>4 DEF store, idle, goto, printvars
  <2>2. AtStore2
    BY <1>4 DEF TableOK
  <2> DEFINE n == nalltask - 1
  <2>3. n \in Nat /\ n + 1 = nalltask
    BY <1>0, <2>2 DEF AtStore2
  <2>4. /\ t \in live /\ t \in Task /\ t \notin live \ {t} /\ alltask \in Block
        /\ Seats(blocks[alltask], alltaskslot, n, live \ {t}) /\ alltaskslot[t] = n
        /\ nalltask <= Len(blocks[alltask])
    BY <1>0, <2>2 DEF AtStore2, Seated
  <2> HIDE DEF n
  <2>5. blocks[alltask] \in Seq(Task \cup {nil}) /\ Len(blocks[alltask]) \in Nat
    BY <2>4 DEF Seats
  <2>6. nalltask \in 1 .. Len(blocks[alltask]) /\ n < Len(blocks[alltask])
    BY <2>3, <2>4, <2>5
  <2>7. /\ blocks' \in [Block -> Seq(Task \cup {nil}) \cup {nil}]
        /\ blocks'[alltask] = [blocks[alltask] EXCEPT ![nalltask] = t]
    BY <2>1, <2>4, <2>5, <2>6, StoreType
  <2>8. Seats([blocks[alltask] EXCEPT ![n + 1] = t], alltaskslot, n + 1, (live \ {t}) \cup {t})
    BY <1>0, <2>3, <2>4, <2>6, SeatsAdd
  <2>9. (live \ {t}) \cup {t} = live
    BY <2>4
  <2>10. Seated(alltask, nalltask, live)'
    BY <2>1, <2>3, <2>4, <2>7, <2>8, <2>9 DEF Seated
  <2>11. InfoTypeOK'
    BY <2>1, <2>7 DEF InfoTypeOK
  <2>12. TableOK'
    BY <2>1, <2>10 DEF TableOK
  <2> QED BY <2>1, <2>11, <2>12, ListedNone, TextSame
<1> QED BY <1>1, <1>2, <1>3, <1>4 DEF enroll

LEMMA RemoveInv ==
  ASSUME InfoInv, NEW u \in Task, remove(u)
  PROVE  InfoInv'
<1> USE DEF InfoInv
<1>1. /\ pc' \in {"shrink", "move"} /\ listed' = <<>> /\ t' = u
      /\ tmp' = blocks[alltask][nalltask]
      /\ UNCHANGED <<live, alltask, blocks, nalltask, alltaskslot, text>>
  BY DEF remove, goto, printvars, tablevars
<1>2. Seated(alltask, nalltask, live) /\ alltask # nil /\ nalltask \in Nat
  BY InfoAssumption DEF remove, TableOK, Seated, InfoTypeOK
<1>3. PICK i \in 1 .. nalltask : u = blocks[alltask][i]
  BY <1>2 DEF remove, Table
<1>4. u \in live /\ nalltask > 0
  BY <1>2, <1>3 DEF Seated, Seats
<1>5. AtMove'
  BY <1>1, <1>2, <1>4 DEF AtMove, Seated
<1>6. InfoTypeOK' /\ TableOK'
  BY <1>1, <1>5 DEF InfoTypeOK, TableOK
<1> QED BY <1>1, <1>6, ListedNone, TextSame

\* The store over the entry of the task that leaves, when m entries are left.
LEMMA MoveInv ==
  ASSUME InfoTypeOK, NEW m \in Nat, t \in live, Seated(alltask, m + 1, live),
         tmp = blocks[alltask][m + 1],
         blocks' = [blocks EXCEPT ![alltask][alltaskslot[t] + 1] = tmp],
         UNCHANGED <<live, alltask, alltaskslot, t, tmp>>
  PROVE  /\ blocks' \in [Block -> Seq(Task \cup {nil}) \cup {nil}]
         /\ alltask' \in Block
         /\ Moves(blocks'[alltask'], alltaskslot', m, live', t', tmp')
<1>1. alltaskslot \in Slots /\ live \in SUBSET Task
  BY DEF InfoTypeOK, Slots
<1>2. alltask \in Block /\ Seats(blocks[alltask], alltaskslot, m + 1, live)
  BY DEF Seated
<1>3. blocks[alltask] \in Seq(Task \cup {nil}) /\ Len(blocks[alltask]) \in Nat
  BY <1>2 DEF Seats
<1>4. alltaskslot[t] + 1 \in 1 .. Len(blocks[alltask]) /\ tmp \in Task
  BY <1>1, <1>2, <1>3 DEF Seats
<1>5. /\ blocks' \in [Block -> Seq(Task \cup {nil}) \cup {nil}]
      /\ blocks'[alltask] = [blocks[alltask] EXCEPT ![alltaskslot[t] + 1] = tmp]
  BY <1>2, <1>3, <1>4, StoreType
<1>6. Moves([blocks[alltask] EXCEPT ![alltaskslot[t] + 1] = blocks[alltask][m + 1]],
            alltaskslot, m, live, t, blocks[alltask][m + 1])
  BY <1>1, <1>2, MovesStart
<1> QED BY <1>2, <1>5, <1>6

LEMMA DelistInv ==
  ASSUME InfoInv, delist
  PROVE  InfoInv'
<1> USE DEF InfoInv
<1>0. alltaskslot \in Slots /\ nalltask \in Nat /\ live \in SUBSET Task
  BY DEF InfoTypeOK, Slots
<1>1. CASE /\ pc = "shrink" /\ shrink("move2")
           /\ UNCHANGED <<live, alltask, alltaskslot, printvars, t, tmp>>
  <2>1. /\ pc' = "move2" /\ listed' = <<>> /\ nalltask' = nalltask - 1
        /\ UNCHANGED <<live, alltask, blocks, alltaskslot, text, t, tmp>>
    BY <1>1 DEF shrink, goto, printvars
  <2>2. AtMove
    BY <1>1 DEF TableOK
  <2>3. nalltask' \in Nat /\ nalltask' + 1 = nalltask
    BY <1>0, <2>1, <2>2 DEF AtMove
  <2>4. AtMove2'
    BY <2>1, <2>2, <2>3 DEF AtMove, AtMove2, Seated
  <2>5. InfoTypeOK' /\ TableOK'
    BY <2>1, <2>3, <2>4 DEF InfoTypeOK, TableOK
  <2> QED BY <2>1, <2>5, ListedNone, TextSame
<1>2. CASE /\ pc = "move2" /\ move("tell")
           /\ UNCHANGED <<live, alltask, alltaskslot, printvars, t, tmp>>
  <2>1. /\ pc' = "tell" /\ listed' = <<>>
        /\ blocks' = [blocks EXCEPT ![alltask][alltaskslot[t] + 1] = tmp]
        /\ UNCHANGED <<live, alltask, nalltask, alltaskslot, text, t, tmp>>
    BY <1>2 DEF move, goto, printvars
  <2>2. t \in live /\ tmp = blocks[alltask][nalltask + 1] /\ Seated(alltask, nalltask + 1, live)
    BY <1>2 DEF TableOK, AtMove2
  <2>3. /\ blocks' \in [Block -> Seq(Task \cup {nil}) \cup {nil}]
        /\ alltask' \in Block
        /\ Moves(blocks'[alltask'], alltaskslot', nalltask, live', t', tmp')
    BY <1>0, <2>1, <2>2, MoveInv
  <2>4. Moved(nalltask)'
    BY <2>1, <2>3 DEF Moved
  <2>5. InfoTypeOK' /\ TableOK'
    BY <2>1, <2>3, <2>4 DEF InfoTypeOK, TableOK
  <2> QED BY <2>1, <2>5, ListedNone, TextSame
<1>3. CASE /\ pc = "move" /\ move("shrink2")
           /\ UNCHANGED <<live, alltask, alltaskslot, printvars, t, tmp>>
  <2>1. /\ pc' = "shrink2" /\ listed' = <<>>
        /\ blocks' = [blocks EXCEPT ![alltask][alltaskslot[t] + 1] = tmp]
        /\ UNCHANGED <<live, alltask, nalltask, alltaskslot, text, t, tmp>>
    BY <1>3 DEF move, goto, printvars
  <2>2. AtMove
    BY <1>3 DEF TableOK
  <2>3. PICK m \in Nat : m = nalltask - 1 /\ m + 1 = nalltask
    BY <1>0, <2>2 DEF AtMove
  <2>4. t \in live /\ tmp = blocks[alltask][m + 1] /\ Seated(alltask, m + 1, live)
    BY <2>2, <2>3 DEF AtMove
  <2>5. /\ blocks' \in [Block -> Seq(Task \cup {nil}) \cup {nil}]
        /\ alltask' \in Block
        /\ Moves(blocks'[alltask'], alltaskslot', m, live', t', tmp')
    BY <2>1, <2>4, MoveInv
  <2>6. nalltask' > 0 /\ Moved(nalltask - 1)'
    BY <2>1, <2>2, <2>3, <2>5 DEF Moved, AtMove
  <2>7. InfoTypeOK' /\ TableOK'
    BY <2>1, <2>5, <2>6 DEF InfoTypeOK, TableOK
  <2> QED BY <2>1, <2>7, ListedNone, TextSame
<1>4. CASE /\ pc = "shrink2" /\ shrink("tell")
           /\ UNCHANGED <<live, alltask, alltaskslot, printvars, t, tmp>>
  <2>1. /\ pc' = "tell" /\ listed' = <<>> /\ nalltask' = nalltask - 1
        /\ UNCHANGED <<live, alltask, blocks, alltaskslot, text, t, tmp>>
    BY <1>4 DEF shrink, goto, printvars
  <2>2. nalltask > 0 /\ Moved(nalltask - 1)
    BY <1>4 DEF TableOK
  <2>3. Moved(nalltask)'
    BY <2>1, <2>2 DEF Moved
  <2>4. nalltask' \in Nat
    BY <1>0, <2>1, <2>2
  <2>5. InfoTypeOK' /\ TableOK'
    BY <2>1, <2>3, <2>4 DEF InfoTypeOK, TableOK
  <2> QED BY <2>1, <2>5, ListedNone, TextSame
<1>5. CASE /\ pc = "tell"
           /\ alltaskslot' = [alltaskslot EXCEPT ![tmp] = alltaskslot[t]]
           /\ goto("free")
           /\ UNCHANGED <<live, alltask, blocks, nalltask, printvars, t, tmp>>
  <2>1. /\ pc' = "free" /\ listed' = <<>>
        /\ alltaskslot' = [alltaskslot EXCEPT ![tmp] = alltaskslot[t]]
        /\ UNCHANGED <<live, alltask, blocks, nalltask, text, t>>
    BY <1>5 DEF goto, printvars
  <2>2. alltask \in Block /\ Moves(blocks[alltask], alltaskslot, nalltask, live, t, tmp)
    BY <1>5 DEF TableOK, Moved
  <2>3. t \in live /\ tmp \in live
    BY <2>2 DEF Moves
  <2>4. Seats(blocks[alltask], [alltaskslot EXCEPT ![tmp] = alltaskslot[t]], nalltask, live \ {t})
    BY <1>0, <2>2, <2>3, MovesEnd
  <2>5. AtFree'
    BY <2>1, <2>2, <2>3, <2>4 DEF AtFree, Seated
  <2>6. alltaskslot' \in [Task -> Nat]
    BY <1>0, <2>1, <2>3 DEF Slots
  <2>7. InfoTypeOK' /\ TableOK'
    BY <2>1, <2>5, <2>6 DEF InfoTypeOK, TableOK
  <2> QED BY <2>1, <2>7, ListedNone, TextSame
<1> QED BY <1>1, <1>2, <1>3, <1>4, <1>5 DEF delist

LEMMA FreeInv ==
  ASSUME InfoInv, free
  PROVE  InfoInv'
<1> USE DEF InfoInv
<1>1. /\ pc' = "idle" /\ listed' = <<>> /\ live' = live \ {t}
      /\ text' = [text EXCEPT ![t] = {}]
      /\ alltaskslot' = [alltaskslot EXCEPT ![t] = 0]
      /\ UNCHANGED <<alltask, blocks, nalltask>>
  BY DEF free, idle, goto
<1>2. alltaskslot \in Slots /\ nalltask \in Nat /\ live \ {t} \in SUBSET Task
  BY DEF InfoTypeOK, Slots
<1>3. /\ alltask \in Block /\ t \in Task /\ t \notin live \ {t} /\ 0 \in Nat
      /\ Seats(blocks[alltask], alltaskslot, nalltask, live \ {t})
  BY DEF free, TableOK, AtFree, Seated, InfoTypeOK
<1>4. Seats(blocks[alltask], [alltaskslot EXCEPT ![t] = 0], nalltask, live \ {t})
  BY <1>2, <1>3, SeatsOther
<1>5. Seated(alltask, nalltask, live)'
  BY <1>1, <1>3, <1>4 DEF Seated
<1>6. InfoTypeOK'
  BY <1>1 DEF InfoTypeOK
<1>7. TableOK'
  BY <1>1, <1>5 DEF TableOK
<1>8. TextOK'
  BY <1>1 DEF TextOK, InfoTypeOK
<1> QED BY <1>1, <1>6, <1>7, <1>8, ListedNone

LEMMA TasknameInv ==
  ASSUME InfoInv, NEW u \in Task, NEW f \in Fmts, taskname(u, f)
  PROVE  InfoInv'
<1> USE DEF InfoInv
<1>1. /\ pc' = "vseprint" /\ listed' = <<>> /\ t' = u /\ rest' = f /\ w' = 0
      /\ UNCHANGED <<live, alltask, blocks, nalltask, alltaskslot, text>>
  BY DEF taskname, goto, tablevars
<1>2. Seated(alltask, nalltask, live) /\ alltask # nil
  BY InfoAssumption DEF taskname, TableOK, Seated
<1>3. PICK i \in 1 .. nalltask : u = blocks[alltask][i]
  BY <1>2 DEF taskname, Table
<1>4. u \in live
  BY <1>2, <1>3 DEF Seated, Seats
<1>5. Seated(alltask, nalltask, live)'
  BY <1>1, <1>2 DEF Seated
<1>6. InfoTypeOK' /\ TableOK'
  BY <1>1, <1>4, <1>5 DEF InfoTypeOK, TableOK
<1>7. 0 \in 0 .. NAMELEN - 1 /\ f \in Seq(Items)
  BY InfoAssumption
<1>8. TextOK'
  BY <1>1, <1>7 DEF TextOK
<1> QED BY <1>1, <1>6, <1>8, ListedNone

LEMMA VseprintInv ==
  ASSUME InfoInv, vseprint
  PROVE  InfoInv'
<1> USE DEF InfoInv
<1> DEFINE n == filled(NAMELEN, rest, w)
<1>1. /\ pc = "vseprint" /\ pc' = "vseprint" /\ listed' = <<>>
      /\ text' = [text EXCEPT ![t] = @ \ (w .. w + n - 1)]
      /\ w' = w + n
      /\ rest' \in goeson(rest)
      /\ UNCHANGED <<live, alltask, blocks, nalltask, alltaskslot, t>>
  BY DEF vseprint, stay, goto, tablevars
<1>2. Seated(alltask, nalltask, live) /\ t \in live
  BY <1>1 DEF TableOK
<1>3. w \in 0 .. NAMELEN - 1 /\ rest \in Seq(Items) /\ rest # <<>> /\ printing(NAMELEN, rest, w)
  BY <1>1 DEF TextOK, vseprint, printing
<1>4. n \in 0 .. NAMELEN - 1 - w
  BY <1>3, FilledRoom
<1>5. rest' \in Seq(Items)
  BY <1>1, <1>3, GoesonItems
<1> HIDE DEF n
<1>6. w + n \in 0 .. NAMELEN - 1 /\ NAMELEN - 1 \notin w .. w + n - 1
  BY <1>3, <1>4, InfoAssumption
<1>7. Seated(alltask, nalltask, live)'
  BY <1>1, <1>2 DEF Seated
<1>8. InfoTypeOK' /\ TableOK'
  BY <1>1, <1>2, <1>7 DEF InfoTypeOK, TableOK
<1>9. \A u \in live' : NAMELEN - 1 \in text'[u]
  BY <1>1, <1>6 DEF TextOK, InfoTypeOK
<1>10. TextOK'
  BY <1>1, <1>5, <1>6, <1>9 DEF TextOK
<1> QED BY <1>1, <1>8, <1>10, ListedNone

LEMMA VseprintendInv ==
  ASSUME InfoInv, vseprintend
  PROVE  InfoInv'
<1> USE DEF InfoInv
<1>1. pc = "vseprint" /\ w \in 0 .. NAMELEN - 1 /\ NAMELEN \in Nat
  BY InfoAssumption DEF vseprintend, TextOK
<1>2. w < NAMELEN /\ w \in Nat
  BY <1>1
<1>3. /\ pc' = "printed" /\ listed' = <<>>
      /\ text' = [text EXCEPT ![t] = @ \cup {w}]
      /\ UNCHANGED <<live, alltask, blocks, nalltask, alltaskslot, t>>
  BY <1>2 DEF vseprintend, stay, goto, tablevars
<1>4. Seated(alltask, nalltask, live) /\ t \in live
  BY <1>1 DEF TableOK
<1>5. Seated(alltask, nalltask, live)'
  BY <1>3, <1>4 DEF Seated
<1>6. InfoTypeOK' /\ TableOK'
  BY <1>2, <1>3, <1>4, <1>5 DEF InfoTypeOK, TableOK
<1>7. TextOK'
  BY <1>3 DEF TextOK, InfoTypeOK
<1> QED BY <1>3, <1>6, <1>7, ListedNone

LEMMA TasknamereturnInv ==
  ASSUME InfoInv, tasknamereturn
  PROVE  InfoInv'
<1> USE DEF InfoInv
<1>1. /\ pc = "printed" /\ pc' = "idle" /\ listed' = <<>>
      /\ UNCHANGED <<live, alltask, blocks, nalltask, alltaskslot, text>>
  BY DEF tasknamereturn, idle, goto, tablevars
<1>2. Seated(alltask, nalltask, live)'
  BY <1>1 DEF TableOK, Seated
<1>3. InfoTypeOK' /\ TableOK'
  BY <1>1, <1>2 DEF InfoTypeOK, TableOK
<1> QED BY <1>1, <1>3, ListedNone, TextSame

\* Wherever the program is, outside the windows the entries the handler reads
\* are live tasks.
LEMMA EntriesThere ==
  ASSUME InfoInv, pc \notin {"aborted", "exited"}, nalltask > 0, ~Window
  PROVE  Entries
<1> USE DEF InfoInv
<1>0. nalltask \in Nat
  BY DEF InfoTypeOK
<1>1. ASSUME NEW n \in Nat, n >= nalltask, NEW S \in SUBSET live, Seated(alltask, n, S)
      PROVE  Entries
  <2>1. /\ alltask \in Block /\ blocks[alltask] \in Seq(Task \cup {nil})
        /\ Len(blocks[alltask]) \in Nat /\ n <= Len(blocks[alltask])
    BY <1>1 DEF Seated, Seats
  <2>2. nalltask <= Len(blocks[alltask])
    BY <1>0, <1>1, <2>1
  <2>3. \A i \in 1 .. nalltask : i \in 1 .. n
    BY <1>0, <1>1
  <2>4. \A i \in 1 .. nalltask : blocks[alltask][i] \in live
    BY <1>1, <2>3 DEF Seated, Seats
  <2> QED BY <2>1, <2>2, <2>4 DEF Entries
<1>2. ASSUME NEW n \in Nat, n + 1 >= nalltask, Moved(n)
      PROVE  Entries
  <2>1. /\ alltask \in Block /\ blocks[alltask] \in Seq(Task \cup {nil})
        /\ Len(blocks[alltask]) \in Nat /\ n + 1 <= Len(blocks[alltask])
    BY <1>2 DEF Moved, Moves
  <2>2. nalltask <= Len(blocks[alltask])
    BY <1>0, <1>2, <2>1
  <2>3. ASSUME NEW i \in 1 .. nalltask
        PROVE  blocks[alltask][i] \in live
    <3>1. CASE i = alltaskslot[t] + 1 \/ i = n + 1
      BY <1>2, <3>1 DEF Moved, Moves
    <3>2. CASE i # alltaskslot[t] + 1 /\ i # n + 1
      <4>1. i \in 1 .. n
        BY <1>0, <1>2, <3>2
      <4> QED BY <1>2, <3>2, <4>1 DEF Moved, Moves
    <3> QED BY <3>1, <3>2
  <2> QED BY <2>1, <2>2, <2>3 DEF Entries
<1>3. live \ {t} \in SUBSET live /\ live \in SUBSET live /\ nalltask + 1 \in Nat
      /\ nalltask - 1 \in Nat
  BY <1>0
<1>4. nalltask >= nalltask /\ nalltask + 1 >= nalltask /\ (nalltask - 1) + 1 >= nalltask
  BY <1>0
<1>5. \/ Seated(alltask, nalltask, live) \/ Seated(alltask, nalltask, live \ {t})
      \/ Seated(alltask, nalltask + 1, live)
      \/ Moved(nalltask - 1) \/ Moved(nalltask)
  BY <1>0 DEF TableOK, Window, AtStart, AtRealloc, AtSetslot, AtMove, AtMove2, AtFree
<1> QED BY <1>0, <1>1, <1>2, <1>3, <1>4, <1>5

LEMMA TaskinfoInv ==
  ASSUME InfoInv, taskinfo
  PROVE  InfoInv'
<1> USE DEF InfoInv
<1>1. /\ UNCHANGED <<live, alltask, blocks, nalltask, alltaskslot, text, fmt, rest, w, pc, t, tmp>>
      /\ pc \notin {"aborted", "exited"} /\ nalltask > 0
  BY DEF taskinfo, tablevars, printvars
<1>2. InfoTypeOK'
  BY <1>1 DEF InfoTypeOK
<1>3. TableOK'
  BY <1>1 DEF TableOK, AtStart, AtRealloc, AtSetalltask, AtSetslot, AtStore2, AtMove, AtMove2,
              AtFree, Seated, Moved
<1>4. TextOK'
  BY <1>1 DEF TextOK
<1>5. ListedOK'
  <2>1. CASE Window
    BY <1>1, <2>1 DEF Window, ListedOK
  <2>2. CASE ~Window
    <3>1. Entries
      BY <1>1, <2>2, EntriesThere
    <3>2. alltask # nil /\ blocks[alltask] # nil
      BY <3>1, InfoAssumption DEF Entries
    <3>3. \A i \in 1 .. nalltask : readable(blocks[alltask][i])
      BY <3>1 DEF Entries, readable, TextOK
    <3>4. listed' = SubSeq(blocks[alltask], 1, nalltask)
      BY <3>1, <3>2, <3>3 DEF taskinfo, Entries
    <3>5. Entries'
      BY <1>1, <3>1 DEF Entries
    <3> QED BY <1>1, <3>4, <3>5 DEF ListedOK
  <2> QED BY <2>1, <2>2
<1> QED BY <1>2, <1>3, <1>4, <1>5

LEMMA FinishInv ==
  ASSUME InfoInv, finish
  PROVE  InfoInv'
<1> USE DEF InfoInv
<1>1. /\ pc' = (IF pc = "nomemory" THEN "aborted" ELSE "exited") /\ listed' = <<>>
      /\ pc \in {"nomemory", "idle"}
      /\ UNCHANGED <<live, alltask, blocks, nalltask, alltaskslot, text>>
  BY DEF finish, stay, goto, tablevars, printvars
<1>2. InfoTypeOK'
  BY <1>1 DEF InfoTypeOK
<1>3. TableOK'
  BY <1>1 DEF TableOK, Seated
<1> QED BY <1>1, <1>2, <1>3, ListedNone, TextSame

LEMMA InfoStutter ==
  ASSUME InfoInv, UNCHANGED vars
  PROVE  InfoInv'
<1> USE DEF InfoInv
<1>1. /\ UNCHANGED <<live, alltask, blocks, nalltask, alltaskslot, text, fmt, rest, w, pc, t, tmp>>
      /\ listed' = listed
  BY DEF vars, tablevars, printvars
<1>2. InfoTypeOK' /\ TextOK'
  BY <1>1 DEF InfoTypeOK, TextOK
<1>3. TableOK'
  BY <1>1 DEF TableOK, AtStart, AtRealloc, AtSetalltask, AtSetslot, AtStore2, AtMove, AtMove2,
              AtFree, Seated, Moved
<1>4. ListedOK'
  BY <1>1 DEF ListedOK, Window, Entries
<1> QED BY <1>2, <1>3, <1>4

-----------------------------------------------------------------------------

\* The invariant holds whichever store the handler comes between, for every
\* number of tasks, growth of alltask[], buffer size and format.
THEOREM InfoInvariance == Spec => []InfoInv
<1>1. Init => InfoInv
  BY InfoInit
<1>2. InfoInv /\ [Next]_vars => InfoInv'
  <2> SUFFICES ASSUME InfoInv, [Next]_vars
               PROVE  InfoInv'
    OBVIOUS
  <2>1. ASSUME NEW u \in Task, taskalloc(u) \/ remove(u) \/ \E f \in Fmts : taskname(u, f)
        PROVE  InfoInv'
    BY <2>1, TaskallocInv, RemoveInv, TasknameInv
  <2>2. CASE realloc \/ setalltask \/ setslot \/ enroll
    BY <2>2, ReallocInv, SetalltaskInv, SetslotInv, EnrollInv
  <2>3. CASE delist \/ free
    BY <2>3, DelistInv, FreeInv
  <2>4. CASE vseprint \/ vseprintend \/ tasknamereturn
    BY <2>4, VseprintInv, VseprintendInv, TasknamereturnInv
  <2>5. CASE taskinfo \/ finish
    BY <2>5, TaskinfoInv, FinishInv
  <2>6. CASE Terminated \/ UNCHANGED vars
    BY <2>6, InfoStutter DEF Terminated
  <2> QED BY <2>1, <2>2, <2>3, <2>4, <2>5, <2>6 DEF Next
<1> QED BY <1>1, <1>2, PTL DEF Spec

\* On SIGQUIT the handler prints each task once when the program is between two
\* operations, and reads nothing but live Task structures and terminated
\* strings outside the windows.
THEOREM ListingCorrect == Spec => []ListingSafe
<1>1. InfoInv => ListingSafe
  <2> SUFFICES ASSUME InfoInv
               PROVE  ListingSafe
    OBVIOUS
  <2> USE DEF InfoInv
  <2> DEFINE e == blocks[alltask]
  <2>1. ASSUME Entries
        PROVE  /\ DOMAIN SubSeq(e, 1, nalltask) = 1 .. nalltask
               /\ \A i \in 1 .. nalltask : SubSeq(e, 1, nalltask)[i] = e[i]
    BY <2>1 DEF Entries, InfoTypeOK
  <2>2. ASSUME listed = fault, ~Window
        PROVE  FALSE
    <3>1. listed # <<>> /\ Len(listed) = 1 /\ listed[1] = nil /\ DOMAIN listed = 1 .. 1
      BY <2>2 DEF fault
    <3>2. Entries /\ listed = SubSeq(e, 1, nalltask)
      BY <2>2, <3>1 DEF ListedOK
    <3>3. nalltask \in Nat /\ 1 .. nalltask = 1 .. 1
      BY <2>1, <3>1, <3>2 DEF InfoTypeOK
    <3>4. 1 \in 1 .. nalltask
      BY <3>3
    <3>5. listed[1] \in Task
      BY <2>1, <3>2, <3>4 DEF Entries, InfoTypeOK
    <3> QED BY <3>1, <3>5, InfoAssumption
  <2>3. ASSUME pc = "idle", listed # <<>>
        PROVE  IsInjective(listed) /\ ToSet(listed) = live
    <3>1. Entries /\ listed = SubSeq(e, 1, nalltask)
      BY <2>3 DEF ListedOK, Window
    <3>2. Seats(e, alltaskslot, nalltask, live)
      BY <2>3 DEF TableOK, Seated
    <3>3. DOMAIN listed = 1 .. nalltask /\ \A i \in 1 .. nalltask : listed[i] = e[i]
      BY <2>1, <3>1
    <3> HIDE DEF e
    <3>4. IsInjective(listed)
      <4> SUFFICES ASSUME NEW i \in DOMAIN listed, NEW j \in DOMAIN listed, listed[i] = listed[j]
                   PROVE  i = j
        BY DEF IsInjective
      <4>1. alltaskslot[listed[i]] = i - 1 /\ alltaskslot[listed[j]] = j - 1
        BY <3>2, <3>3 DEF Seats
      <4> QED BY <3>3, <4>1
    <3>5. ASSUME NEW u \in ToSet(listed)
          PROVE  u \in live
      <4>1. PICK i \in DOMAIN listed : u = listed[i]
        BY DEF ToSet
      <4> QED BY <3>2, <3>3, <4>1 DEF Seats
    <3>6. ASSUME NEW u \in live
          PROVE  u \in ToSet(listed)
      <4>1. alltaskslot[u] + 1 \in 1 .. nalltask /\ e[alltaskslot[u] + 1] = u
        BY <3>2 DEF Seats
      <4>2. alltaskslot[u] + 1 \in DOMAIN listed /\ listed[alltaskslot[u] + 1] = u
        BY <3>3, <4>1
      <4> QED BY <4>2, Zenon DEF ToSet
    <3> QED BY <3>4, <3>5, <3>6
  <2> QED BY <2>2, <2>3 DEF ListingSafe
<1> QED BY <1>1, InfoInvariance, PTL

\* vseprint's assertion (print.c:172) never fails, and a task's name and state
\* end with a NUL at every moment, also while they are being written.
THEOREM TerminatesCorrect == Spec => []Terminates
<1>1. InfoInv => Terminates
  BY DEF InfoInv, Terminates, TextOK, TableOK
<1> QED BY <1>1, InfoInvariance, PTL

-----------------------------------------------------------------------------
(***************************************************************************)
(* The length of a text, and the numbers in it.                            *)
(***************************************************************************)

\* What the function of lengths satisfies, for the first m items.
Sums(n, m, f) == n = [i \in 0 .. m |-> IF i = 0 THEN 0 ELSE n[i - 1] + width(f[i])]

LEMMA SumsExist ==
  ASSUME NEW f, NEW m \in Nat
  PROVE  \E n : Sums(n, m, f)
<1> DEFINE Bad == { k \in Nat : ~ \E n : Sums(n, k, f) }
<1>1. Bad = {}
  <2> SUFFICES ASSUME Bad # {} PROVE FALSE
    OBVIOUS
  <2>1. PICK k \in Bad : \A y \in Bad : k <= y
    BY LeastOf
  <2>2. k \in Nat /\ ~ \E n : Sums(n, k, f)
    BY <2>1
  <2>3. k # 0
    <3>1. Sums([i \in 0 .. 0 |-> 0], 0, f)
      BY DEF Sums
    <3> QED BY <2>2, <3>1
  <2>4. PICK n : Sums(n, k - 1, f)
    <3>1. k - 1 \in Nat /\ ~(k <= k - 1)
      BY <2>2, <2>3
    <3> QED BY <2>1, <3>1
  <2>5. PICK h : h = [i \in 0 .. k |-> IF i = k THEN n[k - 1] + width(f[k]) ELSE n[i]]
    OBVIOUS
  <2>6. \A i \in 0 .. k - 1 : n[i] = IF i = 0 THEN 0 ELSE n[i - 1] + width(f[i])
    BY <2>4, Zenon DEF Sums
  <2>7. h = [i \in 0 .. k |-> h[i]] /\ h[k] = n[k - 1] + width(f[k])
        /\ \A i \in 0 .. k - 1 : h[i] = n[i]
    BY <2>2, <2>3, <2>5
  <2>8. ASSUME NEW i \in 0 .. k
        PROVE  h[i] = IF i = 0 THEN 0 ELSE h[i - 1] + width(f[i])
    <3>1. i # 0 => i - 1 \in 0 .. k - 1
      BY <2>2
    <3>2. CASE i = k
      BY <2>3, <2>7, <3>1, <3>2
    <3>3. CASE i # k
      <4>1. i \in 0 .. k - 1
        BY <2>2, <3>3
      <4> QED BY <2>6, <2>7, <3>1, <4>1
    <3> QED BY <3>2, <3>3
  <2>9. Sums(h, k, f)
    BY <2>7, <2>8 DEF Sums
  <2> QED BY <2>2, <2>9
<1> QED BY <1>1

\* The items of a plain format, ...
Simple(e) ==
  \/ e.kind \in {"letter", "str"}
  \/ e.kind = "num" /\ e.base = 10 /\ (e.unsigned \/ e.v >= 0)

\* ... whose lengths vseprint finds ...
LEMMA WidthIs ==
  ASSUME NEW e \in Items, Simple(e), e.kind # "letter"
  PROVE  width(e) = Max({arglen(e), e.size, -e.size})
<1>1. CASE e.kind = "str"
  BY <1>1 DEF width, arglen
<1>2. CASE e.kind = "num"
  <2>1. Numeric(e) /\ e.base = 10 /\ (e.unsigned \/ e.v >= 0)
    BY <1>2, InfoAssumption DEF Simple, Numeric, Bases
  <2>2. /\ magnitude(e) = Magnitude(e) /\ Magnitude(e) \in Nat /\ (Magnitude(e) = 0 <=> e.v = 0)
        /\ printed(e) = Magnitude(e)
    BY <2>1, MagnitudeRight DEF printed, signed, Magnitude
  <2>3. decimals(printed(e)) = Len(num(e))
    <3>1. CASE e.v = 0
      <4>1. num(e) = <<0>> /\ Len(<<0>>) = 1
        BY <2>1, <3>1, NumParts
      <4> QED BY <2>2, <3>1, <4>1, DecimalsRight
    <3>2. CASE e.v # 0
      <4>1. PICK s : s = digits(magnitude(e), 10)
        OBVIOUS
      <4>2. num(e) = <<>> \o s /\ s \in Seq(Nat)
        <5>1. prefix(e) = <<>>
          BY <2>1 DEF prefix
        <5> QED BY <2>1, <3>2, <4>1, <5>1, NumParts
      <4>3. num(e) = s
        BY <4>2
      <4> QED BY <2>2, <3>2, <4>1, <4>3, DecimalsRight
    <3> QED BY <3>1, <3>2
  <2>4. arglen(e) = Len(num(e))
    BY <1>2 DEF arglen
  <2> QED BY <1>2, <2>3, <2>4 DEF width
<1> QED BY <1>1, <1>2 DEF Simple

LEMMA WidthNat ==
  ASSUME NEW e \in Items, Simple(e)
  PROVE  width(e) \in Nat
<1>1. CASE e.kind = "letter"
  BY <1>1 DEF width
<1>2. CASE e.kind # "letter"
  <2>1. arglen(e) \in Nat /\ e.size \in Int
    BY <1>2, Arguments DEF Simple
  <2>2. Max({arglen(e), e.size, -e.size}) \in Int /\ Max({arglen(e), e.size, -e.size}) >= arglen(e)
    BY <2>1, MaxOfThree
  <2>3. width(e) = Max({arglen(e), e.size, -e.size})
    BY <1>2, WidthIs
  <2> QED BY <2>1, <2>2, <2>3
<1> QED BY <1>1, <1>2

\* The lengths of a plain format's beginnings grow from 0.
LEMMA LengthsFacts ==
  ASSUME NEW f \in Seq(Items), Plain(f)
  PROVE  /\ lengths(f)[0] = 0
         /\ \A i \in 1 .. Len(f) : lengths(f)[i] = lengths(f)[i - 1] + width(f[i])
         /\ \A i \in 0 .. Len(f) : lengths(f)[i] \in Nat /\ lengths(f)[i] <= lengths(f)[Len(f)]
<1> DEFINE m == Len(f)
<1>1. PICK n : n = lengths(f)
  OBVIOUS
<1>2. m \in Nat /\ DOMAIN f = 1 .. m /\ \A i \in 1 .. m : f[i] \in Items
  OBVIOUS
<1>3. Sums(n, m, f)
  <2>1. PICK x : Sums(x, m, f)
    BY <1>2, SumsExist
  <2> QED BY <1>1, <2>1, Zenon DEF lengths, Sums
<1>4. \A i \in 0 .. m : n[i] = IF i = 0 THEN 0 ELSE n[i - 1] + width(f[i])
  BY <1>3, Zenon DEF Sums
<1>5. \A i \in 1 .. m : width(f[i]) \in Nat
  BY <1>2, WidthNat DEF Plain, Simple
<1> HIDE DEF m
<1>6. n[0] = 0 /\ \A i \in 1 .. m : n[i] = n[i - 1] + width(f[i])
  BY <1>2, <1>4
<1>7. \A i \in 0 .. m : n[i] \in Nat
  <2> DEFINE Bad == { i \in 0 .. m : n[i] \notin Nat }
  <2> SUFFICES ASSUME Bad # {} PROVE FALSE
    OBVIOUS
  <2>1. Bad \in SUBSET Nat
    BY <1>2
  <2>2. PICK k \in Bad : \A y \in Bad : k <= y
    BY <2>1, LeastOf
  <2>3. k \in 0 .. m /\ n[k] \notin Nat
    BY <2>2
  <2>4. k # 0
    BY <1>6, <2>3
  <2>5. k - 1 \in 0 .. m /\ ~(k <= k - 1) /\ k \in 1 .. m
    BY <1>2, <2>3, <2>4
  <2>6. n[k - 1] \in Nat
    BY <2>2, <2>5
  <2> QED BY <1>5, <1>6, <2>3, <2>5, <2>6
<1>8. \A i \in 0 .. m : n[i] <= n[m]
  <2> DEFINE Bad == { d \in 0 .. m : ~(n[m - d] <= n[m]) }
  <2>1. Bad = {}
    <3> SUFFICES ASSUME Bad # {} PROVE FALSE
      OBVIOUS
    <3>1. Bad \in SUBSET Nat
      BY <1>2
    <3>2. PICK d \in Bad : \A y \in Bad : d <= y
      BY <3>1, LeastOf
    <3>3. d \in 0 .. m /\ ~(n[m - d] <= n[m])
      BY <3>2
    <3>4. d # 0
      <4>1. m - 0 = m /\ m \in 0 .. m
        BY <1>2
      <4> QED BY <1>7, <3>3, <4>1
    <3>5. d - 1 \in 0 .. m /\ ~(d <= d - 1)
      BY <1>2, <3>3, <3>4
    <3>6. n[m - (d - 1)] <= n[m]
      BY <3>2, <3>5
    <3>7. PICK i : i = m - (d - 1)
      OBVIOUS
    <3>8. i \in 1 .. m /\ i - 1 = m - d /\ i - 1 \in 0 .. m
      BY <1>2, <3>3, <3>4, <3>7
    <3>9. n[i] = n[i - 1] + width(f[i]) /\ width(f[i]) \in Nat /\ n[i - 1] \in Nat
      BY <1>5, <1>6, <1>7, <3>8
    <3>10. n[i] <= n[m] /\ ~(n[i - 1] <= n[m]) /\ n[m] \in Nat
      BY <1>2, <1>7, <3>3, <3>6, <3>7, <3>8
    <3> QED BY <3>9, <3>10
  <2>2. ASSUME NEW i \in 0 .. m PROVE n[i] <= n[m]
    <3>1. m - i \in 0 .. m /\ m - (m - i) = i
      BY <1>2
    <3> QED BY <2>1, <3>1
  <2> QED BY <2>2
<1> QED BY <1>1, <1>6, <1>7, <1>8 DEF m

\* How far vseprint has come in a plain format: k items, which fill the places
\* they ask for if there are as many.
Written(k) ==
  /\ k \in 0 .. Len(fmt)
  /\ pc = "vseprint" => rest = SubSeq(fmt, k + 1, Len(fmt))
  /\ w = Min({lengths(fmt)[k], NAMELEN - 1})
  /\ pc = "printed" => k = Len(fmt) \/ w = NAMELEN - 1

\* The text so far.
WrittenOK ==
  /\ fmt \in Seq(Items)
  /\ pc \in {"vseprint", "printed"} =>
       /\ \A j \in text[t] : j >= w
       /\ Plain(fmt) => \E k \in Nat : Written(k)
  /\ pc = "printed" => w \in Nat /\ w \in text[t]

\* The smaller of two numbers.
LEMMA MinIs ==
  ASSUME NEW a \in Int, NEW b \in Int
  PROVE  Min({a, b}) = IF a <= b THEN a ELSE b
<1>1. Min({a, b}) \in {a, b} /\ Min({a, b}) <= b
  BY MinOfTwo
<1>2. {a, b} = {b, a}
  OBVIOUS
<1>3. Min({b, a}) \in {b, a} /\ Min({b, a}) <= a
  BY MinOfTwo
<1>4. PICK m : m = Min({a, b}) /\ m = Min({b, a})
  BY <1>2
<1>5. m \in {a, b} /\ m <= b /\ m <= a
  BY <1>1, <1>3, <1>4
<1> QED BY <1>4, <1>5

\* What is left of a format behind its first k items.
LEMMA RestOf ==
  ASSUME NEW f \in Seq(Items), NEW k \in 0 .. Len(f)
  PROVE  /\ SubSeq(f, k + 1, Len(f)) = <<>> <=> k = Len(f)
         /\ k # Len(f) => /\ SubSeq(f, k + 1, Len(f))[1] = f[k + 1]
                          /\ Tail(SubSeq(f, k + 1, Len(f))) = SubSeq(f, k + 2, Len(f))
<1>1. Len(f) \in Nat /\ k \in 0 .. Len(f) /\ \A i \in k + 1 .. Len(f) : f[i] \in Items
  OBVIOUS
<1>2. PICK r : r = SubSeq(f, k + 1, Len(f))
  OBVIOUS
<1>3. /\ r \in Seq(Items) /\ Len(r) = Len(f) - k
      /\ \A i \in 1 .. Len(f) - k : r[i] = f[k + i]
  BY <1>1, <1>2
<1>4. r = <<>> <=> k = Len(f)
  BY <1>1, <1>3, EmptySeq
<1>5. ASSUME k # Len(f)
      PROVE  r[1] = f[k + 1] /\ Tail(r) = SubSeq(f, k + 2, Len(f))
  <2>1. r[1] = f[k + 1] /\ r # <<>>
    BY <1>1, <1>3, <1>4, <1>5
  <2>2. PICK x, y : x = Tail(r) /\ y = SubSeq(f, k + 2, Len(f))
    OBVIOUS
  <2>3. /\ x \in Seq(Items) /\ Len(x) = Len(f) - k - 1
        /\ \A i \in 1 .. Len(f) - k - 1 : x[i] = r[i + 1]
    BY <1>1, <1>3, <1>5, <2>1, <2>2
  <2>4. /\ y \in Seq(Items) /\ Len(y) = Len(f) - k - 1
        /\ \A i \in 1 .. Len(f) - k - 1 : y[i] = f[k + 1 + i]
    BY <1>1, <1>5, <2>2
  <2>5. \A i \in 1 .. Len(f) - k - 1 : x[i] = y[i]
    <3> SUFFICES ASSUME NEW i \in 1 .. Len(f) - k - 1 PROVE x[i] = y[i]
      OBVIOUS
    <3>1. i + 1 \in 1 .. Len(f) - k /\ k + (i + 1) = k + 1 + i
      BY <1>1
    <3> QED BY <1>3, <2>3, <2>4, <3>1
  <2>6. x = y
    BY <2>3, <2>4, <2>5, SeqEqual
  <2> QED BY <2>1, <2>2, <2>6
<1> QED BY <1>2, <1>4, <1>5

LEMMA TasknameWritten ==
  ASSUME InfoInv, WrittenOK, NEW u \in Task, NEW f \in Fmts, taskname(u, f)
  PROVE  WrittenOK'
<1>1. /\ pc' = "vseprint" /\ t' = u /\ fmt' = f /\ rest' = f /\ w' = 0 /\ text' = text
  BY DEF taskname, goto
<1>2. f \in Seq(Items) /\ NAMELEN - 1 \in Nat
  BY InfoAssumption
<1>3. \A j \in text'[t'] : j >= 0
  BY <1>1 DEF InfoInv, InfoTypeOK
<1>4. ASSUME Plain(f) PROVE Written(0)'
  <2>1. lengths(f)[0] = 0 /\ Min({0, NAMELEN - 1}) = 0
    BY <1>2, <1>4, LengthsFacts, MinIs
  <2>2. Len(f) \in Nat /\ SubSeq(f, 0 + 1, Len(f)) = f
    BY <1>2
  <2> QED BY <1>1, <2>1, <2>2 DEF Written
<1>5. Plain(fmt') => \E k \in Nat : Written(k)'
  BY <1>1, <1>4
<1> QED BY <1>1, <1>2, <1>3, <1>5 DEF WrittenOK

\* A round of the loop adds the next item, or what there is room for.
LEMMA VseprintWritten ==
  ASSUME InfoInv, WrittenOK, vseprint
  PROVE  WrittenOK'
<1> DEFINE n == filled(NAMELEN, rest, w)
<1>1. /\ pc = "vseprint" /\ pc' = "vseprint" /\ printing(NAMELEN, rest, w)
      /\ text' = [text EXCEPT ![t] = @ \ (w .. w + n - 1)]
      /\ w' = w + n /\ rest' \in goeson(rest) /\ fmt' = fmt /\ t' = t
  BY DEF vseprint, stay, goto
<1>2. /\ w \in 0 .. NAMELEN - 1 /\ rest \in Seq(Items) /\ t \in Task /\ fmt \in Seq(Items)
      /\ text \in [Task -> SUBSET Nat] /\ NAMELEN \in Nat
  BY <1>1, InfoAssumption DEF InfoInv, InfoTypeOK, TextOK, TableOK, WrittenOK
<1>3. rest # <<>> /\ w < NAMELEN - 1 /\ n \in 0 .. NAMELEN - 1 - w
  BY <1>1, <1>2, FilledRoom DEF printing
<1>4. PICK x : x = n
  OBVIOUS
<1>5. x \in Nat /\ w' = w + x /\ text'[t'] = text[t] \ (w .. w + x - 1)
  BY <1>1, <1>2, <1>3, <1>4
<1> HIDE DEF n
<1>6. ASSUME NEW j \in text'[t'] PROVE j >= w'
  <2>1. j \in text[t] /\ j \notin w .. w + x - 1 /\ j \in Nat
    BY <1>2, <1>5
  <2>2. j >= w
    BY <1>1, <2>1 DEF WrittenOK
  <2> QED BY <1>2, <1>5, <2>1, <2>2
<1>7. ASSUME Plain(fmt) PROVE \E k \in Nat : Written(k)'
  <2>1. PICK k \in Nat : Written(k)
    BY <1>1, <1>7 DEF WrittenOK
  <2>2. /\ k \in 0 .. Len(fmt) /\ rest = SubSeq(fmt, k + 1, Len(fmt))
        /\ w = Min({lengths(fmt)[k], NAMELEN - 1})
    BY <1>1, <2>1 DEF Written
  <2>3. k # Len(fmt) /\ rest[1] = fmt[k + 1] /\ Tail(rest) = SubSeq(fmt, k + 2, Len(fmt))
    BY <1>2, <1>3, <2>2, RestOf
  <2>4. Len(fmt) \in Nat /\ k + 1 \in 1 .. Len(fmt)
    BY <1>2, <2>2, <2>3
  <2>5. PICK e : e = fmt[k + 1]
    OBVIOUS
  <2>6. e \in Items /\ Simple(e) /\ e.kind \in {"letter", "str", "num"} /\ rest[1] = e
    BY <1>2, <1>7, <2>3, <2>4, <2>5 DEF Plain, Simple
  <2>7. rest' = SubSeq(fmt, k + 2, Len(fmt))
    BY <1>1, <2>3, <2>6 DEF goeson
  <2>8. PICK a, b : a = lengths(fmt)[k] /\ b = lengths(fmt)[k + 1]
    OBVIOUS
  <2>9. a \in Nat /\ width(e) \in Nat /\ b = a + width(e)
    <3>1. /\ \A i \in 1 .. Len(fmt) : lengths(fmt)[i] = lengths(fmt)[i - 1] + width(fmt[i])
          /\ \A i \in 0 .. Len(fmt) : lengths(fmt)[i] \in Nat
      BY <1>2, <1>7, LengthsFacts
    <3>2. (k + 1) - 1 = k
      OBVIOUS
    <3> QED BY <2>2, <2>4, <2>5, <2>6, <2>8, <3>1, <3>2, WidthNat
  <2>10. w = a
    <3>1. w = IF a <= NAMELEN - 1 THEN a ELSE NAMELEN - 1
      BY <1>2, <2>2, <2>8, <2>9, MinIs
    <3> QED BY <1>2, <1>3, <2>9, <3>1
  <2>11. x = IF width(e) <= NAMELEN - w - 1 THEN width(e) ELSE NAMELEN - w - 1
    <3>1. CASE e.kind = "letter"
      <4>1. x = 1 /\ width(e) = 1
        BY <1>4, <2>6, <3>1 DEF n, filled, width
      <4> QED BY <1>2, <1>3, <4>1
    <3>2. CASE e.kind \in {"str", "num"}
      <4>1. x = printstr(NAMELEN - w, arglen(e), e.size)
        BY <1>4, <2>6, <3>2 DEF n, filled
      <4>2. ~(NAMELEN - w <= 0)
        BY <1>2, <1>3
      <4>3. x = Min({Max({arglen(e), e.size, -e.size}), NAMELEN - w - 1})
        BY <4>1, <4>2 DEF printstr
      <4>4. width(e) = Max({arglen(e), e.size, -e.size})
        BY <2>6, <3>2, WidthIs
      <4>5. x = Min({width(e), NAMELEN - w - 1})
        BY <4>3, <4>4
      <4>6. width(e) \in Int /\ NAMELEN - w - 1 \in Int
        BY <1>2, <2>9
      <4> QED BY <4>5, <4>6, MinIs
    <3> QED BY <2>6, <3>1, <3>2
  <2>12. w' = IF b <= NAMELEN - 1 THEN b ELSE NAMELEN - 1
    BY <1>2, <1>3, <1>5, <2>9, <2>10, <2>11
  <2>13. w' = Min({b, NAMELEN - 1})
    BY <1>2, <2>9, <2>12, MinIs
  <2>14. Written(k + 1)'
    <3>1. (k + 1) + 1 = k + 2 /\ k + 1 \in 0 .. Len(fmt)
      BY <2>2, <2>4
    <3> QED BY <1>1, <2>7, <2>8, <2>13, <3>1 DEF Written
  <2>15. k + 1 \in Nat
    OBVIOUS
  <2> QED BY <2>14, <2>15
<1> QED BY <1>1, <1>2, <1>6, <1>7 DEF WrittenOK

\* The loop ends when the format or the room does.
LEMMA VseprintendWritten ==
  ASSUME InfoInv, WrittenOK, vseprintend
  PROVE  WrittenOK'
<1>1. /\ pc = "vseprint" /\ ~printing(NAMELEN, rest, w) /\ fmt' = fmt /\ rest' = rest /\ w' = w
  BY DEF vseprintend
<1>2. /\ w \in 0 .. NAMELEN - 1 /\ t \in Task /\ fmt \in Seq(Items)
      /\ text \in [Task -> SUBSET Nat] /\ NAMELEN \in Nat
  BY <1>1, InfoAssumption DEF InfoInv, InfoTypeOK, TextOK, TableOK, WrittenOK
<1>3. w < NAMELEN /\ w \in Nat
  BY <1>2
<1>4. pc' = "printed" /\ t' = t /\ text' = [text EXCEPT ![t] = @ \cup {w}]
  BY <1>3 DEF vseprintend, stay, goto
<1>5. text'[t'] = text[t] \cup {w}
  BY <1>2, <1>4
<1>6. \A j \in text'[t'] : j >= w'
  BY <1>1, <1>3, <1>5 DEF WrittenOK
<1>7. ASSUME Plain(fmt) PROVE \E k \in Nat : Written(k)'
  <2>1. PICK k \in Nat : Written(k)
    BY <1>1, <1>7 DEF WrittenOK
  <2>2. /\ k \in 0 .. Len(fmt) /\ rest = SubSeq(fmt, k + 1, Len(fmt))
        /\ w = Min({lengths(fmt)[k], NAMELEN - 1})
    BY <1>1, <2>1 DEF Written
  <2>3. k = Len(fmt) \/ w = NAMELEN - 1
    <3>1. rest = <<>> \/ ~(w < NAMELEN - 1)
      BY <1>1 DEF printing
    <3>2. rest = <<>> => k = Len(fmt)
      BY <1>2, <2>2, RestOf
    <3> QED BY <1>2, <3>1, <3>2
  <2>4. Written(k)'
    BY <1>1, <1>4, <2>2, <2>3 DEF Written
  <2> QED BY <2>4
<1> QED BY <1>1, <1>2, <1>3, <1>4, <1>5, <1>6, <1>7 DEF WrittenOK

\* Nothing else touches the text that is being written.
LEMMA OthersWritten ==
  ASSUME WrittenOK,
         \/ pc' \notin {"vseprint", "printed"} /\ fmt' \in {fmt, <<>>}
         \/ UNCHANGED <<pc, t, text, fmt, rest, w>>
  PROVE  WrittenOK'
<1>1. CASE pc' \notin {"vseprint", "printed"} /\ fmt' \in {fmt, <<>>}
  <2>1. fmt \in Seq(Items) /\ <<>> \in Seq(Items)
    BY EmptySeq DEF WrittenOK
  <2>2. fmt' \in Seq(Items)
    BY <1>1, <2>1
  <2> QED BY <1>1, <2>2 DEF WrittenOK
<1>2. CASE UNCHANGED <<pc, t, text, fmt, rest, w>>
  BY <1>2 DEF WrittenOK, Written
<1> QED BY <1>1, <1>2

LEMMA WrittenStep ==
  ASSUME InfoInv, WrittenOK, [Next]_vars
  PROVE  WrittenOK'
<1>1. ASSUME NEW u \in Task, taskalloc(u) \/ remove(u) PROVE WrittenOK'
  <2>1. pc' \in {"realloc", "setslot", "shrink", "move"} /\ fmt' = fmt
    BY <1>1 DEF taskalloc, remove, goto, printvars
  <2> QED BY <2>1, OthersWritten
<1>2. ASSUME NEW u \in Task, NEW f \in Fmts, taskname(u, f) PROVE WrittenOK'
  BY <1>2, TasknameWritten
<1>3. CASE realloc \/ setalltask \/ setslot
  <2>1. pc' \in {"setalltask", "nomemory", "setslot", "store", "count"} /\ fmt' = fmt
    BY <1>3 DEF realloc, setalltask, setslot, goto, printvars
  <2> QED BY <2>1, OthersWritten
<1>4. CASE enroll
  <2>1. pc' \in {"count2", "idle", "store2"} /\ fmt' = fmt
    BY <1>4 DEF enroll, store, count, stay, idle, goto, printvars
  <2> QED BY <2>1, OthersWritten
<1>5. CASE delist \/ free
  <2>1. pc' \in {"move2", "tell", "shrink2", "free", "idle"} /\ fmt' = fmt
    BY <1>5 DEF delist, free, shrink, move, idle, goto, printvars
  <2> QED BY <2>1, OthersWritten
<1>6. CASE vseprint \/ vseprintend
  BY <1>6, VseprintWritten, VseprintendWritten
<1>7. CASE tasknamereturn
  <2>1. pc' = "idle" /\ fmt' = <<>>
    BY <1>7 DEF tasknamereturn, idle, goto
  <2> QED BY <2>1, OthersWritten
<1>8. CASE finish
  <2>1. pc' \in {"aborted", "exited"} /\ fmt' = fmt
    BY <1>8 DEF finish, stay, goto, printvars
  <2> QED BY <2>1, OthersWritten
<1>9. CASE taskinfo \/ Terminated \/ UNCHANGED vars
  <2>1. UNCHANGED <<pc, t, text, fmt, rest, w>>
    BY <1>9 DEF taskinfo, Terminated, vars, printvars
  <2> QED BY <2>1, OthersWritten
<1> QED BY <1>1, <1>2, <1>3, <1>4, <1>5, <1>6, <1>7, <1>8, <1>9 DEF Next

LEMMA WrittenInvariance == Spec => []WrittenOK
<1>1. Init => WrittenOK
  BY DEF Init, WrittenOK
<1>2. InfoInv /\ WrittenOK /\ [Next]_vars => WrittenOK'
  BY WrittenStep
<1> QED BY <1>1, <1>2, InfoInvariance, PTL DEF Spec

\* A text of strings and decimal numbers without a sign has the length that
\* printf would give it, or is cut where the buffer ends and fills it up to its
\* last place (print.c vseprint, printstr).
THEOREM PrintCorrect == Spec => []PrintBounded
<1>1. InfoInv /\ WrittenOK /\ Terminates => PrintBounded
  <2> SUFFICES ASSUME InfoInv, WrittenOK, pc = "printed", Plain(fmt)
               PROVE  Min(text[t]) = Min({wanted, NAMELEN - 1})
    BY DEF PrintBounded
  <2>1. /\ t \in Task /\ fmt \in Seq(Items) /\ NAMELEN - 1 \in Int
        /\ text[t] \in SUBSET Nat /\ w \in Nat /\ w \in text[t] /\ \A j \in text[t] : j >= w
    BY InfoAssumption DEF InfoInv, InfoTypeOK, TableOK, WrittenOK
  <2>2. Min(text[t]) = w
    <3>1. PICK m : m = Min(text[t])
      OBVIOUS
    <3>2. w \in text[t] /\ \A j \in text[t] : w <= j
      BY <2>1
    <3>3. m \in text[t] /\ \A j \in text[t] : m <= j
      BY <3>1, <3>2, Zenon DEF Min
    <3>4. m \in Nat /\ m <= w /\ w <= m
      BY <2>1, <3>2, <3>3
    <3> QED BY <2>1, <3>1, <3>4
  <2>3. PICK k \in Nat : Written(k)
    BY DEF WrittenOK
  <2>4. PICK a : a = lengths(fmt)[k]
    OBVIOUS
  <2>5. /\ k \in 0 .. Len(fmt) /\ w = Min({a, NAMELEN - 1})
        /\ k = Len(fmt) \/ w = NAMELEN - 1
    BY <2>3, <2>4 DEF Written
  <2>6. a \in Nat /\ a <= wanted /\ wanted \in Nat /\ (k = Len(fmt) => a = wanted)
    <3>1. \A i \in 0 .. Len(fmt) :
            lengths(fmt)[i] \in Nat /\ lengths(fmt)[i] <= lengths(fmt)[Len(fmt)]
      BY <2>1, LengthsFacts
    <3>2. Len(fmt) \in 0 .. Len(fmt)
      BY <2>1
    <3> QED BY <2>4, <2>5, <3>1, <3>2 DEF wanted
  <2>7. w = IF a <= NAMELEN - 1 THEN a ELSE NAMELEN - 1
    BY <2>1, <2>5, <2>6, MinIs
  <2>8. Min({wanted, NAMELEN - 1}) = IF wanted <= NAMELEN - 1 THEN wanted ELSE NAMELEN - 1
    BY <2>1, <2>6, MinIs
  <2> QED BY <2>1, <2>2, <2>5, <2>6, <2>7, <2>8
<1> QED BY <1>1, InfoInvariance, WrittenInvariance, TerminatesCorrect, PTL

\* But for the sign, every number that printf knows too comes out as printf
\* would print it, for all values of its type (print.c vseprint, the label num).
THEOREM NumberCorrect == Spec => []NumberText
<1>1. WrittenOK => NumberText
  <2> SUFFICES ASSUME WrittenOK, NEW i \in DOMAIN fmt, fmt[i].kind = "num", usual(fmt[i])
               PROVE  Printf(num(fmt[i]), fmt[i], <<>>)
    BY Zenon DEF NumberText
  <2>1. fmt[i] \in Items
    BY DEF WrittenOK
  <2>2. Numeric(fmt[i])
    BY <2>1, InfoAssumption DEF Numeric, Bases
  <2> QED BY <2>2, NumberUsual
<1> QED BY <1>1, WrittenInvariance, PTL

-----------------------------------------------------------------------------
(***************************************************************************)
(* The start of a task.                                                    *)
(***************************************************************************)

\* A task starts with its own Task structure as long as addresses have at most
\* 48 bits, as those of a user program on amd64 do: the shift in uint drops
\* the 16 bits above them.
THEOREM TaskstartExact ==
  ASSUME NEW z \in Nat, z < W32 * W16
  PROVE  taskstart(argy(z), argx(z)) = z
<1> DEFINE h == z \div W32
           y == z % W32
<1>1. h \in Nat /\ y \in Nat /\ y < W32 /\ z = h * W32 + y
  BY SMT DEF W32
<1>2. h < W16
  BY <1>1, SMT DEF W16, W32
<1>3. (z \div W16) \div W16 = h
  BY SMT DEF W16, W32
<1> HIDE DEF h, y
<1>4. h % W32 = h
  BY <1>1, <1>2, SMT DEF W16, W32
<1>5. argy(z) = y /\ argx(z) = h
  BY <1>3, <1>4 DEF argy, argx, y
<1>6. (h * W16) % W32 = h * W16
  BY <1>1, <1>2, SMT DEF W16, W32
<1>7. taskstart(y, h) = (h * W16) * W16 + y
  BY <1>6 DEF taskstart
<1>8. (h * W16) * W16 = h * W32
  BY <1>1, SMT DEF W16, W32
<1> QED BY <1>1, <1>5, <1>7, <1>8

\* Rounding a stack to whole words loses less than one.
LEMMA TosFacts ==
  ASSUME NEW sp \in Nat, NEW size \in Nat, NEW word \in {4, 8}
  PROVE  /\ tos(sp, size, word) \in Nat
         /\ tos(sp, size, word) <= sp + size
         /\ tos(sp, size, word) > sp + size - word
<1>1. CASE word = 4
  BY <1>1 DEF tos
<1>2. CASE word = 8
  BY <1>2 DEF tos
<1> QED BY <1>1, <1>2

\* For a stack of 112 bytes or more, makecontext's stores, the two arguments
\* and the return address, are inside the memory that taskalloc got for it,
\* and the function starts with the alignment that the calling conventions
\* ask for.  Below 64 bytes, n - 64 would wrap around.
THEOREM StackInside ==
  ASSUME NEW stk \in Nat, NEW n \in Nat, 112 <= n, n < W32, NEW word \in {4, 8}
  PROVE  LET sp == makecontext(ss_sp(stk), ss_size(n), word, 2)
         IN  /\ stk + 8 <= sp /\ sp + 3 * word <= stk + n
             /\ (sp + word) % 16 = 0
<1> DEFINE size == n - 64
           top == tos(stk + 8, size, word)
           a == top - 2 * word
<1>1. size \in Nat /\ ss_size(n) = size /\ stk + 8 \in Nat
  BY SMT DEF ss_size, W32
<1>2. top \in Nat /\ top <= stk + 8 + size /\ top > stk + 8 + size - word
  BY <1>1, TosFacts, Zenon
<1> HIDE DEF top
<1>3. a \in Nat /\ a <= stk + n - 56 - 2 * word /\ a > stk + n - 56 - 3 * word
  BY <1>2
<1> HIDE DEF a
<1>4. align16(a) <= a /\ align16(a) > a - 16 /\ (align16(a) % 16) = 0 /\ align16(a) \in Int
  BY <1>3 DEF align16
<1>5. makecontext(ss_sp(stk), ss_size(n), word, 2) = align16(a) - word
  BY <1>1 DEF makecontext, ss_sp, top, a
<1>6. stk + 8 <= align16(a) - word /\ align16(a) - word + 3 * word <= stk + n
  BY <1>3, <1>4
<1> QED BY <1>4, <1>5, <1>6

\* On the machines that pass the arguments in registers the stack begins at its
\* end; the 56 bytes left open behind it hold the 16 bytes that a MIPS callee
\* may store its arguments in.  On power, 16 words are left above the pointer.
THEOREM StackInsideRegisters ==
  ASSUME NEW stk \in Nat, NEW n \in Nat, 200 <= n, n < W32, NEW word \in {4, 8}
  PROVE  /\ LET sp == makecontextArm(ss_sp(stk), ss_size(n))
            IN  stk + 8 <= sp /\ sp + 16 <= stk + n
         /\ LET sp == makecontextPower(ss_sp(stk), ss_size(n), word)
            IN  stk + 8 <= sp /\ sp + 16 * word <= stk + n
<1> DEFINE size == n - 64
           top(v) == tos(stk + 8, size, v)
<1>1. size \in Nat /\ ss_size(n) = size /\ stk + 8 \in Nat
  BY SMT DEF ss_size, W32
<1>2. ASSUME NEW v \in {4, 8}
      PROVE  top(v) \in Nat /\ top(v) <= stk + 8 + size /\ top(v) > stk + 8 + size - v
  BY <1>1, TosFacts, Zenon
<1>3. makecontextArm(ss_sp(stk), ss_size(n)) = top(4)
  BY <1>1 DEF makecontextArm, ss_sp
<1>4. makecontextPower(ss_sp(stk), ss_size(n), word) = top(word) - 16 * word
  BY <1>1 DEF makecontextPower, ss_sp
<1> HIDE DEF top
<1>5. stk + 8 <= top(4) /\ top(4) + 16 <= stk + n
  BY <1>2
<1>6. stk + 8 <= top(word) - 16 * word /\ top(word) - 16 * word + 16 * word <= stk + n
  BY <1>2
<1> QED BY <1>3, <1>4, <1>5, <1>6

\* What a task has left when it starts, less what needstack keeps in reserve:
\* needstack(k) succeeds in the start function's frame if the frame takes at
\* most d bytes and the stack has d + k + 376 or more.
THEOREM StackEnough ==
  ASSUME NEW stk \in Nat, NEW n \in Nat, NEW k \in Nat, NEW d \in Nat,
         d + k + 376 <= n, n < W32, NEW word \in {4, 8}
  PROVE  enough(makecontext(ss_sp(stk), ss_size(n), word, 2) - d, stk, k)
<1> DEFINE size == n - 64
           top == tos(stk + 8, size, word)
           a == top - 2 * word
<1>1. size \in Nat /\ ss_size(n) = size /\ stk + 8 \in Nat
  BY SMT DEF ss_size, W32
<1>2. top \in Nat /\ top <= stk + 8 + size /\ top > stk + 8 + size - word
  BY <1>1, TosFacts, Zenon
<1> HIDE DEF top
<1>3. a \in Int /\ a > stk + n - 56 - 3 * word
  BY <1>2
<1> HIDE DEF a
<1>4. align16(a) > a - 16 /\ align16(a) \in Int
  BY <1>3 DEF align16
<1>5. makecontext(ss_sp(stk), ss_size(n), word, 2) = align16(a) - word
  BY <1>1 DEF makecontext, ss_sp, top, a
<1>6. align16(a) - word - d > stk + 256 + k
  BY <1>3, <1>4
<1> QED BY <1>4, <1>5, <1>6 DEF enough

=============================================================================
