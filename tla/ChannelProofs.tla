---------------------------- MODULE ChannelProofs ----------------------------
(***************************************************************************)
(* The safety of chanalt for any tasks, channels, buffer sizes and arrays  *)
(* of operations, and the refinement of ChanFifo.                          *)
(***************************************************************************)
EXTENDS Channel, SchedProofs

(***************************************************************************)
(* The ring buffer of a channel.                                           *)
(***************************************************************************)

\* The n values from place o on in a buffer b of N places.
Ring(b, o, n, N) == [ i \in 1 .. n |-> b[(o + i - 1) % N] ]

LEMMA ModFacts ==
  ASSUME NEW N \in Nat, N > 0, NEW x \in Nat, x < N + N
  PROVE  (x % N) = (IF x < N THEN x ELSE x - N) /\ (x % N) \in 0 .. N - 1
  OBVIOUS

LEMMA RingType ==
  ASSUME NEW N \in Nat, NEW o \in Nat, NEW n \in Nat, NEW b \in [0 .. N - 1 -> Msg],
         o < N, n <= N
  PROVE  Ring(b, o, n, N) \in Seq(Msg) /\ Len(Ring(b, o, n, N)) = n
<1> DEFINE q == Ring(b, o, n, N)
<1>1. \A i \in 1 .. n : (o + i - 1) % N \in 0 .. N - 1
  <2> SUFFICES ASSUME NEW i \in 1 .. n PROVE (o + i - 1) % N \in 0 .. N - 1
    OBVIOUS
  <2> DEFINE x == o + i - 1
  <2>1. x \in Nat /\ x < N + N /\ N > 0
    OBVIOUS
  <2> HIDE DEF x
  <2>2. (x % N) \in 0 .. N - 1
    BY <2>1, ModFacts
  <2> QED BY <2>2 DEF x
<1>3. q \in [1 .. n -> Msg]
  BY <1>1 DEF Ring
<1>4. q \in Seq(Msg)
  BY <1>3
<1>5. Len(q) = n
  BY <1>3, <1>4, LenProperties
<1> QED BY <1>4, <1>5

\* A value put behind the last one.
PutOK(b, o, n, N, v) ==
  /\ [b EXCEPT ![(o + n) % N] = v] \in [0 .. N - 1 -> Msg]
  /\ Ring([b EXCEPT ![(o + n) % N] = v], o, n + 1, N) = Append(Ring(b, o, n, N), v)

LEMMA RingPut ==
  ASSUME NEW N \in Nat, NEW o \in Nat, NEW n \in Nat, NEW b \in [0 .. N - 1 -> Msg],
         NEW v \in Msg, o < N, n < N
  PROVE  PutOK(b, o, n, N, v)
<1> DEFINE k == (o + n) % N
           d == [b EXCEPT ![k] = v]
           q == Ring(b, o, n, N)
           p == Ring(d, o, n + 1, N)
<1>1. k = (IF o + n < N THEN o + n ELSE o + n - N) /\ k \in 0 .. N - 1
  BY ModFacts
<1> HIDE DEF k
<1>2. /\ d \in [0 .. N - 1 -> Msg] /\ d[k] = v
      /\ \A x \in 0 .. N - 1 : x # k => d[x] = b[x]
  BY <1>1
<1> HIDE DEF d
<1>3. /\ q \in Seq(Msg) /\ Len(q) = n
      /\ \A i \in 1 .. n : q[i] = b[(o + i - 1) % N]
  <2>1. \A i \in 1 .. n : q[i] = b[(o + i - 1) % N]
    BY DEF Ring
  <2>2. q \in Seq(Msg) /\ Len(q) = n
    BY RingType
  <2> QED BY <2>1, <2>2
<1>4. /\ p \in Seq(Msg) /\ Len(p) = n + 1
      /\ \A i \in 1 .. n + 1 : p[i] = d[(o + i - 1) % N]
  <2>1. \A i \in 1 .. n + 1 : p[i] = d[(o + i - 1) % N]
    BY DEF Ring
  <2>2. n + 1 \in Nat /\ n + 1 <= N
    OBVIOUS
  <2>3. p \in Seq(Msg) /\ Len(p) = n + 1
    BY <1>2, <2>2, RingType
  <2> QED BY <2>1, <2>3
<1> HIDE DEF q, p
<1>5. /\ Append(q, v) \in Seq(Msg) /\ Len(Append(q, v)) = n + 1
      /\ \A i \in 1 .. n : Append(q, v)[i] = q[i]
      /\ Append(q, v)[n + 1] = v
  BY <1>3, AppendProperties
<1>6. ASSUME NEW i \in 1 .. n + 1 PROVE p[i] = Append(q, v)[i]
  <2>1. CASE i = n + 1
    <3>1. o + i - 1 = o + n
      BY <2>1
    <3> QED BY <1>2, <1>4, <1>5, <2>1, <3>1 DEF k
  <2>2. CASE i # n + 1
    <3> DEFINE x == o + i - 1
    <3>1. i \in 1 .. n /\ x \in Nat /\ x < N + N /\ N > 0
      BY <2>2
    <3>2. x = o + i - 1
      OBVIOUS
    <3> HIDE DEF x
    <3>3. (x % N) = (IF x < N THEN x ELSE x - N) /\ (x % N) \in 0 .. N - 1
      BY <3>1, ModFacts
    <3>4. (x % N) # k
      BY <1>1, <3>1, <3>2, <3>3
    <3>5. p[i] = d[x % N] /\ q[i] = b[x % N]
      BY <1>3, <1>4, <3>1 DEF x
    <3> QED BY <1>2, <1>5, <3>1, <3>3, <3>4, <3>5
  <2> QED BY <2>1, <2>2
<1>7. p = Append(q, v)
  BY <1>4, <1>5, <1>6, SeqEqual
<1> QED BY <1>2, <1>7 DEF PutOK, k, d, q, p

\* The oldest value taken out; o1 is the place behind o.
TakeOK(b, o, o1, n, N) ==
  /\ o1 < N /\ Ring(b, o, n, N) # <<>>
  /\ Head(Ring(b, o, n, N)) = b[o]
  /\ Tail(Ring(b, o, n, N)) = Ring(b, o1, n - 1, N)

LEMMA RingTake ==
  ASSUME NEW N \in Nat, NEW o \in Nat, NEW n \in Nat, NEW b \in [0 .. N - 1 -> Msg],
         NEW o1 \in Nat, o + 1 = N => o1 = 0, o + 1 # N => o1 = o + 1, o < N, 0 < n, n <= N
  PROVE  TakeOK(b, o, o1, n, N)
<1> DEFINE q == Ring(b, o, n, N)
           p == Ring(b, o1, n - 1, N)
<1>1. /\ q \in Seq(Msg) /\ Len(q) = n
      /\ \A i \in 1 .. n : q[i] = b[(o + i - 1) % N]
  <2>1. \A i \in 1 .. n : q[i] = b[(o + i - 1) % N]
    BY DEF Ring
  <2>2. q \in Seq(Msg) /\ Len(q) = n
    BY RingType
  <2> QED BY <2>1, <2>2
<1>2. o1 < N /\ n - 1 \in Nat /\ n - 1 <= N
  OBVIOUS
<1>3. /\ p \in Seq(Msg) /\ Len(p) = n - 1
      /\ \A i \in 1 .. n - 1 : p[i] = b[(o1 + i - 1) % N]
  <2>1. \A i \in 1 .. n - 1 : p[i] = b[(o1 + i - 1) % N]
    BY DEF Ring
  <2>2. p \in Seq(Msg) /\ Len(p) = n - 1
    <3> DEFINE k == n - 1
    <3>1. k \in Nat /\ k <= N
      BY <1>2
    <3> HIDE DEF k
    <3>2. Ring(b, o1, k, N) \in Seq(Msg) /\ Len(Ring(b, o1, k, N)) = k
      BY <1>2, <3>1, RingType
    <3> QED BY <3>2 DEF k
  <2> QED BY <2>1, <2>2
<1> HIDE DEF q, p
<1>4. q # <<>>
  BY <1>1, EmptySeq
<1>5. Head(q) = b[o]
  <2>1. Head(q) = q[1] /\ 1 \in 1 .. n /\ o + 1 - 1 = o /\ (o % N) = o
    <3>1. (o % N) = o
      BY ModFacts
    <3> QED BY <1>1, <1>4, <3>1
  <2>2. q[1] = b[(o + 1 - 1) % N]
    BY <1>1, <2>1
  <2> QED BY <2>1, <2>2
<1>6. /\ Tail(q) \in Seq(Msg) /\ Len(Tail(q)) = n - 1
      /\ \A i \in 1 .. n - 1 : Tail(q)[i] = q[i + 1]
  BY <1>1, <1>4, HeadTailProperties
<1>7. ASSUME NEW i \in 1 .. n - 1 PROVE Tail(q)[i] = p[i]
  <2> DEFINE x == o + (i + 1) - 1
             y == o1 + i - 1
  <2>1. x \in Nat /\ x < N + N /\ N > 0 /\ y \in Nat /\ y < N + N /\ i + 1 \in 1 .. n
    BY <1>2
  <2>2. x = o + i /\ y = o1 + i - 1
    OBVIOUS
  <2> HIDE DEF x, y
  <2>3. (x % N) = (IF x < N THEN x ELSE x - N) /\ (y % N) = (IF y < N THEN y ELSE y - N)
    BY <2>1, ModFacts
  <2>4. (x % N) = (y % N)
    BY <2>1, <2>2, <2>3, <1>2
  <2>5. q[i + 1] = b[x % N] /\ p[i] = b[y % N]
    BY <1>1, <1>3, <2>1 DEF x, y
  <2> QED BY <1>6, <2>4, <2>5
<1>8. Tail(q) = p
  BY <1>3, <1>6, <1>7, SeqEqual
<1> QED BY <1>2, <1>4, <1>5, <1>8 DEF TakeOK, q, p

-----------------------------------------------------------------------------
(***************************************************************************)
(* altcopy.                                                                *)
(***************************************************************************)

Buffers == UNION { [0 .. n - 1 -> Msg] : n \in Nat }

BufOK ==
  /\ bufsize \in Sizes /\ bufsize \in [Chan -> Nat]
  /\ buf \in [Chan -> Buffers]
  /\ off \in [Chan -> Nat] /\ nbuf \in [Chan -> Nat]
  /\ \A c \in Chan :
       /\ buf[c] \in [0 .. bufsize[c] - 1 -> Msg]
       /\ off[c] <= bufsize[c] /\ (off[c] = bufsize[c] => off[c] = 0)
       /\ nbuf[c] <= bufsize[c]

\* The contents of ChanFifo.
Values == [c \in Chan |-> Contents(c)]

LEMMA ValuesFacts ==
  ASSUME BufOK, NEW c \in Chan
  PROVE  /\ Values[c] = Ring(buf[c], off[c], nbuf[c], bufsize[c])
         /\ Values[c] \in Seq(Msg) /\ Len(Values[c]) = nbuf[c]
         /\ nbuf[c] = 0 => Values[c] = <<>>
<1> DEFINE N == bufsize[c]
           n == nbuf[c]
           o == off[c]
           b == buf[c]
<1>1. /\ N \in Nat /\ n \in Nat /\ o \in Nat /\ b \in [0 .. N - 1 -> Msg]
      /\ n <= N /\ o <= N /\ (o = N => o = 0)
  BY DEF BufOK
<1>2. Values[c] = Ring(b, o, n, N)
  BY DEF Values, Contents, Ring
<1> HIDE DEF N, n, o, b
<1>3. Ring(b, o, n, N) \in Seq(Msg) /\ Len(Ring(b, o, n, N)) = n
  <2>1. CASE N > 0
    <3>1. o < N
      BY <1>1, <2>1
    <3> QED BY <1>1, <3>1, RingType
  <2>2. CASE N = 0
    <3>1. n = 0
      BY <1>1, <2>2
    <3>2. Ring(b, o, n, N) \in [1 .. 0 -> Msg]
      BY <3>1 DEF Ring
    <3>3. Ring(b, o, n, N) \in Seq(Msg)
      BY <3>2
    <3> QED BY <3>1, <3>2, <3>3, LenProperties
  <2> QED BY <1>1, <2>1, <2>2
<1> QED BY <1>2, <1>3, EmptySeq DEF N, n, o, b

\* A value comes into a buffer with room.
LEMMA CopyPut ==
  ASSUME BufOK, NEW c \in Chan, NEW m \in Msg, nbuf[c] < bufsize[c], altcopy(c, <<m>>, FALSE)
  PROVE  /\ BufOK' /\ bufsize' = bufsize
         /\ nbuf' = [nbuf EXCEPT ![c] = nbuf[c] + 1]
         /\ moved' = [c |-> c, in |-> <<m>>, out |-> <<>>]
         /\ Values' = [Values EXCEPT ![c] = Append(Values[c], m)]
<1> DEFINE N == bufsize[c]
           n == nbuf[c]
           o == off[c]
           b == buf[c]
           d == [b EXCEPT ![(o + n) % N] = m]
<1>1. /\ N \in Nat /\ n \in Nat /\ o \in Nat /\ b \in [0 .. N - 1 -> Msg]
      /\ n < N /\ o < N
  BY DEF BufOK
<1>2. /\ moved' = [c |-> c, in |-> <<m>>, out |-> <<>>]
      /\ buf' = [buf EXCEPT ![c] = d]
      /\ off' = [off EXCEPT ![c] = o]
      /\ nbuf' = [nbuf EXCEPT ![c] = n + 1]
      /\ bufsize' = bufsize
  BY DEF altcopy, place
<1> HIDE DEF N, n, o, b, d
<1>3. d \in [0 .. N - 1 -> Msg] /\ Ring(d, o, n + 1, N) = Append(Ring(b, o, n, N), m)
  <2>1. PutOK(b, o, n, N, m)
    BY <1>1, RingPut
  <2> QED BY <2>1 DEF PutOK, d
<1>4. /\ buf'[c] = d /\ off'[c] = o /\ nbuf'[c] = n + 1 /\ bufsize'[c] = N
      /\ \A e \in Chan \ {c} : /\ buf'[e] = buf[e] /\ off'[e] = off[e]
                              /\ nbuf'[e] = nbuf[e] /\ bufsize'[e] = bufsize[e]
  BY <1>2 DEF BufOK, N
<1>5. BufOK'
  <2>1. /\ buf' \in [Chan -> Buffers] /\ bufsize' \in Sizes /\ bufsize' \in [Chan -> Nat]
        /\ off' \in [Chan -> Nat] /\ nbuf' \in [Chan -> Nat]
    <3>1. d \in Buffers
      BY <1>1, <1>3 DEF Buffers
    <3> QED BY <1>1, <1>2, <3>1 DEF BufOK
  <2>2. n + 1 <= N /\ o <= N /\ o # N
    BY <1>1
  <2>3. ASSUME NEW e \in Chan
        PROVE /\ buf'[e] \in [0 .. bufsize'[e] - 1 -> Msg]
              /\ off'[e] <= bufsize'[e] /\ (off'[e] = bufsize'[e] => off'[e] = 0)
              /\ nbuf'[e] <= bufsize'[e]
    BY <1>3, <1>4, <2>2 DEF BufOK
  <2> QED BY <2>1, <2>3 DEF BufOK
<1>6. Values[c] = Ring(b, o, n, N) /\ Values'[c] = Ring(d, o, n + 1, N)
  BY <1>4 DEF Values, Contents, Ring, N, n, o, b
<1>7. \A e \in Chan \ {c} : Values'[e] = Values[e]
  BY <1>4 DEF Values, Contents
<1>8. Values' = [Values EXCEPT ![c] = Append(Values[c], m)]
  BY <1>3, <1>6, <1>7 DEF Values
<1> QED BY <1>2, <1>5, <1>8 DEF n

\* The oldest value leaves a buffer.
LEMMA CopyTake ==
  ASSUME BufOK, NEW c \in Chan, nbuf[c] > 0, altcopy(c, <<>>, TRUE)
  PROVE  /\ BufOK' /\ bufsize' = bufsize
         /\ nbuf' = [nbuf EXCEPT ![c] = nbuf[c] - 1]
         /\ Values[c] # <<>>
         /\ moved' = [c |-> c, in |-> <<>>, out |-> <<Head(Values[c])>>]
         /\ Values' = [Values EXCEPT ![c] = Tail(Values[c])]
<1> DEFINE N == bufsize[c]
           n == nbuf[c]
           o == off[c]
           b == buf[c]
           o1 == nextoff(c)
<1>1. /\ N \in Nat /\ n \in Nat /\ o \in Nat /\ b \in [0 .. N - 1 -> Msg]
      /\ 0 < n /\ n <= N /\ o < N
      /\ o1 \in Nat /\ (o + 1 = N => o1 = 0) /\ (o + 1 # N => o1 = o + 1)
  BY DEF BufOK, nextoff
<1>2. /\ moved' = [c |-> c, in |-> <<>>, out |-> <<b[o]>>]
      /\ UNCHANGED <<buf, bufsize>>
      /\ off' = [off EXCEPT ![c] = o1]
      /\ nbuf' = [nbuf EXCEPT ![c] = n - 1]
  BY DEF altcopy
<1> HIDE DEF N, n, o, b, o1
<1>3. /\ o1 < N /\ Ring(b, o, n, N) # <<>> /\ Head(Ring(b, o, n, N)) = b[o]
      /\ Tail(Ring(b, o, n, N)) = Ring(b, o1, n - 1, N)
  <2>1. TakeOK(b, o, o1, n, N)
    BY <1>1, RingTake
  <2> QED BY <2>1 DEF TakeOK
<1>4. /\ buf'[c] = b /\ off'[c] = o1 /\ nbuf'[c] = n - 1 /\ bufsize'[c] = N
      /\ \A e \in Chan \ {c} : /\ buf'[e] = buf[e] /\ off'[e] = off[e]
                              /\ nbuf'[e] = nbuf[e] /\ bufsize'[e] = bufsize[e]
  BY <1>2 DEF BufOK, N, b
<1>5. BufOK'
  <2>1. /\ buf' \in [Chan -> Buffers] /\ bufsize' \in Sizes /\ bufsize' \in [Chan -> Nat]
        /\ off' \in [Chan -> Nat] /\ nbuf' \in [Chan -> Nat]
    BY <1>1, <1>2 DEF BufOK
  <2>2. n - 1 <= N /\ o1 <= N /\ o1 # N
    BY <1>1, <1>3
  <2>3. ASSUME NEW e \in Chan
        PROVE /\ buf'[e] \in [0 .. bufsize'[e] - 1 -> Msg]
              /\ off'[e] <= bufsize'[e] /\ (off'[e] = bufsize'[e] => off'[e] = 0)
              /\ nbuf'[e] <= bufsize'[e]
    BY <1>1, <1>4, <2>2 DEF BufOK
  <2> QED BY <2>1, <2>3 DEF BufOK
<1>6. Values[c] = Ring(b, o, n, N) /\ Values'[c] = Ring(b, o1, n - 1, N)
  BY <1>4 DEF Values, Contents, Ring, N, n, o, b
<1>7. \A e \in Chan \ {c} : Values'[e] = Values[e]
  BY <1>4 DEF Values, Contents
<1>8. Values' = [Values EXCEPT ![c] = Tail(Values[c])]
  BY <1>3, <1>6, <1>7 DEF Values
<1> QED BY <1>2, <1>3, <1>5, <1>6, <1>8 DEF n

\* The slide: the oldest value leaves and the sender's takes the free place.
LEMMA CopySlide ==
  ASSUME BufOK, NEW c \in Chan, NEW m \in Msg, nbuf[c] > 0, altcopy(c, <<m>>, TRUE)
  PROVE  /\ BufOK' /\ bufsize' = bufsize
         /\ nbuf' = nbuf
         /\ Values[c] # <<>>
         /\ moved' = [c |-> c, in |-> <<m>>, out |-> <<Head(Values[c])>>]
         /\ Values' = [Values EXCEPT ![c] = Append(Tail(Values[c]), m)]
<1> DEFINE N == bufsize[c]
           n == nbuf[c]
           o == off[c]
           b == buf[c]
           o1 == nextoff(c)
           n1 == n - 1
           d == [b EXCEPT ![(o1 + n1) % N] = m]
<1>1. /\ N \in Nat /\ n \in Nat /\ o \in Nat /\ b \in [0 .. N - 1 -> Msg]
      /\ 0 < n /\ n <= N /\ o < N
      /\ o1 \in Nat /\ (o + 1 = N => o1 = 0) /\ (o + 1 # N => o1 = o + 1)
  BY DEF BufOK, nextoff
<1>2. /\ moved' = [c |-> c, in |-> <<m>>, out |-> <<b[o]>>]
      /\ buf' = [buf EXCEPT ![c] = d]
      /\ off' = [off EXCEPT ![c] = o1]
      /\ nbuf' = [nbuf EXCEPT ![c] = n1 + 1]
      /\ bufsize' = bufsize
  <2>1. Head(<<m>>) = m /\ <<m>> # <<>> /\ nbuf[c] # 0
    BY <1>1
  <2> QED BY <2>1 DEF altcopy, place
<1>3. n1 \in Nat /\ n1 + 1 = n /\ n1 < N
  BY <1>1
<1>4. /\ o1 < N /\ Ring(b, o, n, N) # <<>> /\ Head(Ring(b, o, n, N)) = b[o]
      /\ Tail(Ring(b, o, n, N)) = Ring(b, o1, n1, N)
  <2> HIDE DEF N, n, o, b, o1
  <2>1. TakeOK(b, o, o1, n, N)
    BY <1>1, RingTake
  <2> QED BY <2>1 DEF TakeOK, n1
<1> HIDE DEF N, n, o, b, o1, n1, d
<1>5. d \in [0 .. N - 1 -> Msg] /\ Ring(d, o1, n1 + 1, N) = Append(Ring(b, o1, n1, N), m)
  <2>1. PutOK(b, o1, n1, N, m)
    BY <1>1, <1>3, <1>4, RingPut
  <2> QED BY <2>1 DEF PutOK, d
<1>6. /\ buf'[c] = d /\ off'[c] = o1 /\ nbuf'[c] = n /\ bufsize'[c] = N
      /\ \A e \in Chan \ {c} : /\ buf'[e] = buf[e] /\ off'[e] = off[e]
                              /\ nbuf'[e] = nbuf[e] /\ bufsize'[e] = bufsize[e]
  BY <1>2, <1>3 DEF BufOK, N
<1>7. nbuf' = nbuf
  BY <1>2, <1>3 DEF BufOK, n
<1>8. BufOK'
  <2>1. /\ buf' \in [Chan -> Buffers] /\ bufsize' \in Sizes /\ bufsize' \in [Chan -> Nat]
        /\ off' \in [Chan -> Nat] /\ nbuf' \in [Chan -> Nat]
    <3>1. d \in Buffers
      BY <1>1, <1>5 DEF Buffers
    <3> QED BY <1>1, <1>2, <1>7, <3>1 DEF BufOK
  <2>2. n <= N /\ o1 <= N /\ o1 # N
    BY <1>1, <1>4
  <2>3. ASSUME NEW e \in Chan
        PROVE /\ buf'[e] \in [0 .. bufsize'[e] - 1 -> Msg]
              /\ off'[e] <= bufsize'[e] /\ (off'[e] = bufsize'[e] => off'[e] = 0)
              /\ nbuf'[e] <= bufsize'[e]
    BY <1>5, <1>6, <2>2 DEF BufOK
  <2> QED BY <2>1, <2>3 DEF BufOK
<1>9. Values[c] = Ring(b, o, n, N) /\ Values'[c] = Ring(d, o1, n1 + 1, N)
  BY <1>3, <1>6 DEF Values, Contents, Ring, N, n, o, b
<1>10. \A e \in Chan \ {c} : Values'[e] = Values[e]
  BY <1>6 DEF Values, Contents
<1>11. Values' = [Values EXCEPT ![c] = Append(Tail(Values[c]), m)]
  BY <1>4, <1>5, <1>9, <1>10 DEF Values
<1> QED BY <1>2, <1>4, <1>7, <1>8, <1>9, <1>11

\* A sender and a receiver meet at an empty channel.
LEMMA CopyDirect ==
  ASSUME BufOK, NEW c \in Chan, NEW m \in Msg, nbuf[c] = 0, altcopy(c, <<m>>, TRUE)
  PROVE  /\ BufOK' /\ bufsize' = bufsize /\ nbuf' = nbuf /\ Values' = Values
         /\ moved' = [c |-> c, in |-> <<m>>, out |-> <<m>>]
<1>1. moved' = [c |-> c, in |-> <<m>>, out |-> <<m>>] /\ UNCHANGED <<bufsize, buf, off, nbuf>>
  BY DEF altcopy, bufvars
<1> QED BY <1>1 DEF BufOK, Values, Contents

\* A copy is a Transfer of ChanFifo: of a sender and a receiver at once, ...
LEMMA TransferBoth ==
  ASSUME BufOK, NEW c \in Chan, NEW m \in Msg, altcopy(c, <<m>>, TRUE)
  PROVE  /\ BufOK' /\ bufsize' = bufsize /\ nbuf' = nbuf
         /\ moved'.c = c /\ moved'.in = <<m>> /\ moved'.out # <<>>
         /\ Fifo!Transfer(c, <<m>>, TRUE)
<1> DEFINE v == Values[c]
<1>1. /\ v \in Seq(Msg) /\ Len(v) = nbuf[c] /\ (nbuf[c] = 0 => v = <<>>)
      /\ bufsize[c] \in Nat /\ nbuf[c] \in Nat /\ nbuf[c] <= bufsize[c]
  BY ValuesFacts DEF BufOK
<1>2. Values = [Values EXCEPT ![c] = v]
  BY DEF Values
<1>3. CASE nbuf[c] = 0
  <2>1. /\ BufOK' /\ bufsize' = bufsize /\ nbuf' = nbuf /\ Values' = Values
        /\ moved' = [c |-> c, in |-> <<m>>, out |-> <<m>>]
    BY <1>3, CopyDirect
  <2> HIDE DEF v
  <2>2. v \o <<m>> = <<m>> /\ Head(<<m>>) = m /\ Tail(<<m>>) = <<>> /\ v = <<>> /\ <<m>> # <<>>
    <3>1. <<m>> \in Seq(Msg)
      OBVIOUS
    <3> QED BY <1>1, <1>3, <3>1, ConcatEmptySeq
  <2>3. Len(<<>>) <= bufsize[c] /\ Values' = [Values EXCEPT ![c] = <<>>]
    BY <1>1, <1>2, <2>1, <2>2
  <2>4. Fifo!Transfer(c, <<m>>, TRUE)
    BY <2>1, <2>2, <2>3 DEF Fifo!Transfer, Values, v
  <2> QED BY <2>1, <2>2, <2>4
<1>4. CASE nbuf[c] > 0
  <2>1. /\ BufOK' /\ bufsize' = bufsize /\ nbuf' = nbuf /\ v # <<>>
        /\ moved' = [c |-> c, in |-> <<m>>, out |-> <<Head(v)>>]
        /\ Values' = [Values EXCEPT ![c] = Append(Tail(v), m)]
    BY <1>4, CopySlide
  <2> HIDE DEF v
  <2>2. /\ v \o <<m>> = Append(v, m) /\ Append(v, m) # <<>> /\ <<m>> # <<>>
        /\ Head(Append(v, m)) = Head(v) /\ Tail(Append(v, m)) = Append(Tail(v), m)
    BY <1>1, <2>1, AppendIsConcat, AppendProperties, HeadTailAppend
  <2>3. Len(Append(Tail(v), m)) <= bufsize[c]
    <3>1. Tail(v) \in Seq(Msg) /\ Len(Tail(v)) = Len(v) - 1
      BY <1>1, <2>1, HeadTailProperties
    <3>2. Len(Append(Tail(v), m)) = Len(v) - 1 + 1
      BY <3>1, AppendProperties
    <3> QED BY <1>1, <3>2
  <2>4. Fifo!Transfer(c, <<m>>, TRUE)
    BY <2>1, <2>2, <2>3 DEF Fifo!Transfer, Values, v
  <2> QED BY <2>1, <2>2, <2>4
<1>5. nbuf[c] = 0 \/ nbuf[c] > 0
  BY <1>1
<1> QED BY <1>3, <1>4, <1>5, Zenon

\* ... of a sender that finds room, ...
LEMMA TransferIn ==
  ASSUME BufOK, NEW c \in Chan, NEW m \in Msg, nbuf[c] < bufsize[c], altcopy(c, <<m>>, FALSE)
  PROVE  /\ BufOK' /\ bufsize' = bufsize
         /\ nbuf' = [nbuf EXCEPT ![c] = nbuf[c] + 1]
         /\ Fifo!Transfer(c, <<m>>, FALSE)
<1> DEFINE v == Values[c]
<1>1. /\ v \in Seq(Msg) /\ Len(v) = nbuf[c]
      /\ bufsize[c] \in Nat /\ nbuf[c] \in Nat /\ nbuf[c] <= bufsize[c]
  BY ValuesFacts DEF BufOK
<1>2. /\ BufOK' /\ bufsize' = bufsize
      /\ nbuf' = [nbuf EXCEPT ![c] = nbuf[c] + 1]
      /\ moved' = [c |-> c, in |-> <<m>>, out |-> <<>>]
      /\ Values' = [Values EXCEPT ![c] = Append(v, m)]
  BY CopyPut
<1> HIDE DEF v
<1>3. v \o <<m>> = Append(v, m) /\ <<m>> # <<>> /\ Len(Append(v, m)) <= bufsize[c]
  BY <1>1, AppendIsConcat, AppendProperties
<1>4. Fifo!Transfer(c, <<m>>, FALSE)
  BY <1>2, <1>3 DEF Fifo!Transfer, Values, v
<1> QED BY <1>2, <1>4

\* ... and of a receiver that finds a value.
LEMMA TransferOut ==
  ASSUME BufOK, NEW c \in Chan, nbuf[c] > 0, altcopy(c, <<>>, TRUE)
  PROVE  /\ BufOK' /\ bufsize' = bufsize
         /\ nbuf' = [nbuf EXCEPT ![c] = nbuf[c] - 1]
         /\ Fifo!Transfer(c, <<>>, TRUE)
<1> DEFINE v == Values[c]
<1>1. /\ v \in Seq(Msg) /\ Len(v) = nbuf[c]
      /\ bufsize[c] \in Nat /\ nbuf[c] \in Nat /\ nbuf[c] <= bufsize[c]
  BY ValuesFacts DEF BufOK
<1>2. /\ BufOK' /\ bufsize' = bufsize
      /\ nbuf' = [nbuf EXCEPT ![c] = nbuf[c] - 1]
      /\ v # <<>>
      /\ moved' = [c |-> c, in |-> <<>>, out |-> <<Head(v)>>]
      /\ Values' = [Values EXCEPT ![c] = Tail(v)]
  BY CopyTake
<1> HIDE DEF v
<1>3. v \o <<>> = v /\ Len(Tail(v)) <= bufsize[c]
  <2>1. Len(Tail(v)) = Len(v) - 1
    BY <1>1, <1>2, HeadTailProperties
  <2> QED BY <1>1, <2>1, ConcatEmptySeq
<1>4. Fifo!Transfer(c, <<>>, TRUE)
  BY <1>2, <1>3 DEF Fifo!Transfer, Values, v
<1> QED BY <1>2, <1>4

-----------------------------------------------------------------------------
(***************************************************************************)
(* The queues of operations.                                               *)
(***************************************************************************)

Alt == [op : {"CHANSND", "CHANRCV", "CHANNOP"}, c : Chan, v : Msg \cup {nil}]

AltTypeOK ==
  /\ asend \in [Chan -> SUBSET (Task \X Nat)] /\ arecv \in [Chan -> SUBSET (Task \X Nat)]
  /\ posted \in [Task -> Offers \cup {<<>>}]
  /\ xalt \in [Task -> Nat]

\* The i-th operation of task t waits on channel c.
Waits(t, i, op, c) ==
  Blocked(t) /\ i \in DOMAIN posted[t] /\ posted[t][i].op = op /\ posted[t][i].c = c

\* The queues are what the blocked tasks have posted.
AltsOK ==
  \A c \in Chan, t \in Task, i \in Nat :
    /\ <<t, i>> \in asend[c] <=> Waits(t, i, "CHANSND", c)
    /\ <<t, i>> \in arecv[c] <=> Waits(t, i, "CHANRCV", c)

\* The inductive invariant.  A partner found in a queue is a live operation of
\* a task that can be made ready only because the queues hold what blocked
\* tasks have posted (AltsOK); a copy never meets a buffer with a value and a
\* waiting receiver, or with room and a waiting sender (NoMissedPartner), or
\* the values would overtake each other.
Inv ==
  /\ SchedTypeOK /\ BufOK /\ AltTypeOK
  /\ QueueOK /\ control # "aborted" /\ AltsOK /\ NoMissedPartner

LEMMA OfferFacts ==
  ASSUME NEW a \in Offers \cup {<<>>}, NEW i \in DOMAIN a
  PROVE  i \in Nat /\ a[i] \in Alt
<1>1. Offers \subseteq Seq(Alt)
  BY ChanAssumption, Zenon DEF Alt
<1>2. a \in Seq(Alt)
  BY <1>1, EmptySeq
<1> QED BY <1>2, LenProperties

LEMMA InitInv == Init => Inv
<1> SUFFICES ASSUME Init PROVE Inv
  OBVIOUS
<1>1. /\ taskrunqueue \in Seq(Task) /\ IsInjective(taskrunqueue)
      /\ ToSet(taskrunqueue) = Task
  BY InitQueue, TaskAssumption DEF Init
<1>2. bufsize \in Sizes /\ bufsize \in [Chan -> Nat]
  BY ChanAssumption DEF Init
<1>3. ASSUME NEW c \in Chan PROVE buf[c] \in [0 .. bufsize[c] - 1 -> Msg] /\ buf[c] \in Buffers
  BY <1>2, ChanAssumption DEF Init, Buffers
<1>4. BufOK
  <2>1. buf \in [Chan -> Buffers]
    BY <1>3 DEF Init
  <2>2. /\ off \in [Chan -> Nat] /\ nbuf \in [Chan -> Nat]
        /\ \A c \in Chan : off[c] = 0 /\ nbuf[c] = 0 /\ bufsize[c] \in Nat
    BY <1>2 DEF Init
  <2> QED BY <1>2, <1>3, <2>1, <2>2 DEF BufOK
<1>5. SchedTypeOK /\ QueueOK /\ control # "aborted"
  BY <1>1 DEF Init, SchedTypeOK, QueueOK
<1>6. AltTypeOK /\ AltsOK /\ NoMissedPartner
  BY DEF Init, AltTypeOK, AltsOK, Waits, Blocked, NoMissedPartner
<1> QED BY <1>4, <1>5, <1>6 DEF Inv

-----------------------------------------------------------------------------
(***************************************************************************)
(* The steps of chanalt.                                                   *)
(***************************************************************************)

\* What ResultIsTransfer asks of a step.
Result ==
  \A t \in Task : Blocked(t) /\ ~Blocked(t)' =>
    LET e == posted[t][xalt'[t]]
    IN  /\ moved'.c = e.c
        /\ IF e.op = "CHANSND" THEN moved'.in = <<amove(e.v)>>
                               ELSE e.op = "CHANRCV" /\ moved'.out # <<>>

\* What a step is shown to do.
StepOK == Inv' /\ Result /\ Fifo!Next

\* An operation found in a queue is one of a blocked task, on the same channel
\* and in the other direction.
LEMMA PartnerFacts ==
  ASSUME Inv, NEW e \in Alt, e.op # "CHANNOP", NEW p \in others(e)
  PROVE  /\ p[1] \in Task /\ p[2] \in Nat /\ Blocked(p[1])
         /\ p[2] \in DOMAIN posted[p[1]] /\ posted[p[1]][p[2]] \in Alt
         /\ posted[p[1]][p[2]].c = e.c
         /\ e.op = "CHANSND" => posted[p[1]][p[2]].op = "CHANRCV"
         /\ e.op = "CHANRCV" => posted[p[1]][p[2]].op = "CHANSND"
<1> DEFINE u == p[1]
           j == p[2]
<1>1. AltTypeOK /\ AltsOK
  BY DEF Inv
<1>2. e.c \in Chan /\ e.op \in {"CHANSND", "CHANRCV"}
  BY DEF Alt
<1>3. u \in Task /\ j \in Nat /\ p = <<u, j>>
  BY <1>1, <1>2 DEF AltTypeOK, others
<1>4. /\ e.op = "CHANSND" => <<u, j>> \in arecv[e.c]
      /\ e.op = "CHANRCV" => <<u, j>> \in asend[e.c]
  BY <1>2, <1>3 DEF others
<1> HIDE DEF u, j
<1>5. /\ e.op = "CHANSND" => Waits(u, j, "CHANRCV", e.c)
      /\ e.op = "CHANRCV" => Waits(u, j, "CHANSND", e.c)
  BY <1>1, <1>2, <1>3, <1>4 DEF AltsOK
<1>6. Blocked(u) /\ j \in DOMAIN posted[u]
  BY <1>2, <1>5 DEF Waits
<1>7. posted[u] \in Offers \cup {<<>>}
  BY <1>1, <1>3 DEF AltTypeOK
<1>8. posted[u][j] \in Alt
  BY <1>6, <1>7, OfferFacts
<1> QED BY <1>2, <1>3, <1>5, <1>6, <1>8 DEF Waits, u, j

\* altalldequeue takes the operations of the blocked task u away, and no others,
\* and never aborts.
LEMMA DequeueFacts ==
  ASSUME Inv, NEW u \in Task, Blocked(u), NEW j, altalldequeue(u, j)
  PROVE  /\ control' = control
         /\ asend' \in [Chan -> SUBSET (Task \X Nat)]
         /\ arecv' \in [Chan -> SUBSET (Task \X Nat)]
         /\ \A c \in Chan, t \in Task, i \in Nat :
              /\ <<t, i>> \in asend'[c] <=> <<t, i>> \in asend[c] /\ t # u
              /\ <<t, i>> \in arecv'[c] <=> <<t, i>> \in arecv[c] /\ t # u
         /\ \A c \in Chan : asend'[c] \subseteq asend[c] /\ arecv'[c] \subseteq arecv[c]
<1>1. AltTypeOK /\ AltsOK
  BY DEF Inv
<1> DEFINE mine == {u} \X DOMAIN posted[u]
<1>2. /\ asend' = [c \in Chan |-> asend[c] \ mine]
      /\ arecv' = [c \in Chan |-> arecv[c] \ mine]
  BY DEF altalldequeue
<1>3. \A t \in Task, i \in Nat : <<t, i>> \in mine <=> t = u /\ i \in DOMAIN posted[u]
  OBVIOUS
<1>4. \A c \in Chan, i \in Nat :
        <<u, i>> \in asend[c] \/ <<u, i>> \in arecv[c] => i \in DOMAIN posted[u]
  BY <1>1 DEF AltsOK, Waits
<1>5. control' = control
  <2>1. ASSUME NEW i \in DOMAIN posted[u]
        PROVE \/ posted[u][i].op = "CHANNOP"
              \/ <<u, i>> \in IF posted[u][i].op = "CHANSND" THEN asend[posted[u][i].c]
                                                           ELSE arecv[posted[u][i].c]
    <3>1. posted[u] \in Offers \cup {<<>>}
      BY <1>1 DEF AltTypeOK
    <3>2. i \in Nat /\ posted[u][i] \in Alt
      BY <3>1, OfferFacts
    <3>3. posted[u][i].c \in Chan /\ posted[u][i].op \in {"CHANSND", "CHANRCV", "CHANNOP"}
      BY <3>2 DEF Alt
    <3> QED BY <1>1, <3>2, <3>3 DEF AltsOK, Waits
  <2> QED BY <2>1 DEF altalldequeue
<1> HIDE DEF mine
<1>6. /\ asend' \in [Chan -> SUBSET (Task \X Nat)]
      /\ arecv' \in [Chan -> SUBSET (Task \X Nat)]
  BY <1>1, <1>2 DEF AltTypeOK
<1>7. \A c \in Chan : asend'[c] = asend[c] \ mine /\ arecv'[c] = arecv[c] \ mine
  BY <1>2
<1> QED BY <1>3, <1>4, <1>5, <1>6, <1>7

\* altexec with a queued partner.
LEMMA PartnerStep ==
  ASSUME Inv, NEW r \in Task, Idle(r), NEW e \in Alt, e.op # "CHANNOP", NEW p \in others(e),
         altcopy(e.c, <<amove(IF e.op = "CHANSND" THEN e.v ELSE posted[p[1]][p[2]].v)>>, TRUE),
         altalldequeue(p[1], p[2]), setxalt(p[1], p[2]), taskready(p[1]),
         UNCHANGED <<posted, taskrunning>>
  PROVE  StepOK
<1> DEFINE u == p[1]
           j == p[2]
           o == posted[u][j]
           m == amove(IF e.op = "CHANSND" THEN e.v ELSE o.v)
<1>1. /\ SchedTypeOK /\ BufOK /\ AltTypeOK
      /\ QueueOK /\ control # "aborted" /\ AltsOK /\ NoMissedPartner
  BY DEF Inv
<1>2. /\ u \in Task /\ j \in Nat /\ Blocked(u) /\ j \in DOMAIN posted[u] /\ o \in Alt
      /\ o.c = e.c /\ (e.op = "CHANSND" => o.op = "CHANRCV")
      /\ (e.op = "CHANRCV" => o.op = "CHANSND")
  BY PartnerFacts
<1>3. e.c \in Chan /\ e.op \in {"CHANSND", "CHANRCV"} /\ m \in Msg
  BY <1>2, ChanAssumption DEF Alt, amove
<1>4. /\ altcopy(e.c, <<m>>, TRUE) /\ altalldequeue(u, j) /\ taskready(u)
      /\ xalt' = [xalt EXCEPT ![u] = j] /\ posted' = posted /\ taskrunning' = taskrunning
  BY DEF setxalt
<1>5. (e.op = "CHANRCV" => m = amove(o.v))
  BY <1>3
<1> HIDE DEF u, j, o, m
<1>6. /\ BufOK' /\ bufsize' = bufsize /\ nbuf' = nbuf
      /\ moved'.c = e.c /\ moved'.in = <<m>> /\ moved'.out # <<>>
      /\ Fifo!Transfer(e.c, <<m>>, TRUE)
  BY <1>1, <1>3, <1>4, TransferBoth
<1>7. Fifo!Next
  <2>1. <<m>> \in {<<>>} \cup { <<x>> : x \in Msg }
    BY <1>3
  <2> QED BY <1>3, <1>6, <2>1 DEF Fifo!Next
<1>8. /\ control' = control
      /\ asend' \in [Chan -> SUBSET (Task \X Nat)]
      /\ arecv' \in [Chan -> SUBSET (Task \X Nat)]
      /\ \A c \in Chan, t \in Task, i \in Nat :
           /\ <<t, i>> \in asend'[c] <=> <<t, i>> \in asend[c] /\ t # u
           /\ <<t, i>> \in arecv'[c] <=> <<t, i>> \in arecv[c] /\ t # u
      /\ \A c \in Chan : asend'[c] \subseteq asend[c] /\ arecv'[c] \subseteq arecv[c]
  BY <1>2, <1>4, DequeueFacts
<1>9. /\ taskrunqueue' \in Seq(Task) /\ ready' \in [Task -> BOOLEAN]
      /\ ToSet(taskrunqueue') = ToSet(taskrunqueue) \cup {u}
      /\ IsInjective(taskrunqueue')
      /\ \A t \in ToSet(taskrunqueue') : ready'[t]
  BY <1>1, <1>2, <1>4, ReadyQueue DEF Blocked
<1>10. \A t \in Task : Blocked(t)' <=> Blocked(t) /\ t # u
  BY <1>2, <1>4, <1>8, <1>9 DEF Blocked, Running
<1>11. SchedTypeOK' /\ QueueOK' /\ control' # "aborted"
  <2>1. SchedTypeOK' /\ control' # "aborted"
    BY <1>1, <1>4, <1>8, <1>9 DEF SchedTypeOK
  <2>2. taskrunning # u \/ control # "task"
    BY <1>2 DEF Blocked, Running
  <2> QED BY <1>1, <1>4, <1>8, <1>9, <2>1, <2>2 DEF QueueOK
<1>12. AltTypeOK'
  BY <1>1, <1>2, <1>4, <1>8 DEF AltTypeOK
<1>13. AltsOK'
  <2> SUFFICES ASSUME NEW c \in Chan, NEW t \in Task, NEW i \in Nat
               PROVE  /\ <<t, i>> \in asend'[c] <=> Waits(t, i, "CHANSND", c)'
                      /\ <<t, i>> \in arecv'[c] <=> Waits(t, i, "CHANRCV", c)'
    BY DEF AltsOK
  <2>1. \A op \in {"CHANSND", "CHANRCV"} : Waits(t, i, op, c)' <=> Waits(t, i, op, c) /\ t # u
    BY <1>4, <1>10 DEF Waits
  <2> QED BY <1>1, <1>8, <2>1 DEF AltsOK
<1>14. NoMissedPartner'
  BY <1>1, <1>6, <1>8 DEF NoMissedPartner
<1>15. Result
  <2> SUFFICES ASSUME NEW t \in Task, Blocked(t), ~Blocked(t)'
               PROVE  LET a == posted[t][xalt'[t]]
                      IN  /\ moved'.c = a.c
                          /\ IF a.op = "CHANSND" THEN moved'.in = <<amove(a.v)>>
                                                 ELSE a.op = "CHANRCV" /\ moved'.out # <<>>
    BY DEF Result
  <2>1. t = u
    BY <1>10
  <2>2. posted[t][xalt'[t]] = o
    BY <1>1, <1>2, <1>4, <2>1 DEF AltTypeOK, o
  <2> QED BY <1>2, <1>3, <1>5, <1>6, <2>2
<1> QED BY <1>6, <1>7, <1>11, <1>12, <1>13, <1>14, <1>15 DEF StepOK, Inv

\* A step that leaves the queues of operations and of tasks alone.
LEMMA KeepFacts ==
  ASSUME Inv, UNCHANGED <<schedvars, altvars>>
  PROVE  /\ SchedTypeOK' /\ QueueOK' /\ control' # "aborted" /\ AltTypeOK' /\ AltsOK'
         /\ Result
<1>1. /\ SchedTypeOK /\ AltTypeOK /\ QueueOK /\ control # "aborted" /\ AltsOK
  BY DEF Inv
<1>2. /\ UNCHANGED <<taskrunqueue, taskrunning, ready, control>>
      /\ UNCHANGED <<asend, arecv, posted, xalt>>
  BY DEF schedvars, altvars
<1>3. \A t \in Task : Blocked(t)' <=> Blocked(t)
  BY <1>2 DEF Blocked, Running
<1>4. SchedTypeOK' /\ QueueOK' /\ control' # "aborted" /\ AltTypeOK'
  BY <1>1, <1>2 DEF SchedTypeOK, QueueOK, AltTypeOK
<1>5. AltsOK'
  <2>1. \A t \in Task : \A i, op, c : Waits(t, i, op, c)' <=> Waits(t, i, op, c)
    BY <1>2, <1>3 DEF Waits
  <2> QED BY <1>1, <1>2, <2>1 DEF AltsOK
<1> QED BY <1>3, <1>4, <1>5 DEF Result

\* altexec without a partner: by NoMissedPartner nobody else waits for what
\* the buffer gains or loses.
LEMMA AloneStep ==
  ASSUME Inv, NEW e \in Alt, altcanexec(e), others(e) = {},
         altcopy(e.c, IF e.op = "CHANSND" THEN <<amove(e.v)>> ELSE <<>>, e.op = "CHANRCV"),
         UNCHANGED <<schedvars, altvars>>
  PROVE  StepOK
<1> DEFINE c == e.c
           m == amove(e.v)
<1>1. BufOK /\ NoMissedPartner
  BY DEF Inv
<1>2. /\ c \in Chan /\ e.op \in {"CHANSND", "CHANRCV"} /\ m \in Msg
      /\ bufsize \in [Chan -> Nat] /\ nbuf \in [Chan -> Nat]
  BY <1>1, ChanAssumption DEF Alt, amove, altcanexec, BufOK
<1>3. /\ SchedTypeOK' /\ QueueOK' /\ control' # "aborted" /\ AltTypeOK' /\ AltsOK' /\ Result
  BY KeepFacts
<1>4. asend' = asend /\ arecv' = arecv
  BY DEF altvars
<1>5. CASE e.op = "CHANSND"
  <2>1. nbuf[c] < bufsize[c] /\ arecv[c] = {} /\ altcopy(c, <<m>>, FALSE)
    BY <1>5 DEF altcanexec, others
  <2> HIDE DEF c, m
  <2>2. /\ BufOK' /\ bufsize' = bufsize
        /\ nbuf' = [nbuf EXCEPT ![c] = nbuf[c] + 1]
        /\ Fifo!Transfer(c, <<m>>, FALSE)
    BY <1>1, <1>2, <2>1, TransferIn
  <2>3. asend[c] = {}
    BY <1>1, <1>2, <2>1 DEF NoMissedPartner
  <2>4. NoMissedPartner'
    BY <1>1, <1>2, <1>4, <2>1, <2>2, <2>3 DEF NoMissedPartner
  <2>5. Fifo!Next
    BY <1>2, <2>2 DEF Fifo!Next
  <2> QED BY <1>3, <2>2, <2>4, <2>5 DEF StepOK, Inv
<1>6. CASE e.op = "CHANRCV"
  <2>1. nbuf[c] > 0 /\ asend[c] = {} /\ altcopy(c, <<>>, TRUE)
    BY <1>6 DEF altcanexec, others
  <2> HIDE DEF c, m
  <2>2. /\ BufOK' /\ bufsize' = bufsize
        /\ nbuf' = [nbuf EXCEPT ![c] = nbuf[c] - 1]
        /\ Fifo!Transfer(c, <<>>, TRUE)
    BY <1>1, <1>2, <2>1, TransferOut
  <2>3. arecv[c] = {}
    BY <1>1, <1>2, <2>1 DEF NoMissedPartner
  <2>4. NoMissedPartner'
    BY <1>1, <1>2, <1>4, <2>1, <2>2, <2>3 DEF NoMissedPartner
  <2>5. Fifo!Next
    BY <1>2, <2>2 DEF Fifo!Next
  <2> QED BY <1>3, <2>2, <2>4, <2>5 DEF StepOK, Inv
<1> QED BY <1>2, <1>5, <1>6

\* A step that moves nothing and leaves the buffers alone.
LEMMA SettleStep ==
  ASSUME Inv, moved' = nothing, UNCHANGED bufvars
  PROVE  BufOK' /\ Fifo!Next /\ nbuf' = nbuf /\ bufsize' = bufsize
<1>1. BufOK
  BY DEF Inv
<1>2. UNCHANGED <<bufsize, buf, off, nbuf>>
  BY DEF bufvars
<1>3. BufOK' /\ Values' = Values
  BY <1>1, <1>2 DEF BufOK, Values, Contents
<1>4. Fifo!Settle
  BY <1>2, <1>3 DEF Fifo!Settle, Fifo!nothing, nothing, Values
<1> QED BY <1>2, <1>3, <1>4 DEF Fifo!Next

\* chanalt finds nothing to execute and queues its operations.
LEMMA BlockStep ==
  ASSUME Inv, NEW r \in Task, Idle(r), NEW a \in Offers,
         \A i \in DOMAIN a : ~altcanexec(a[i]),
         altqueue(r, a), posted' = [posted EXCEPT ![r] = a], xalt' = [xalt EXCEPT ![r] = 1],
         control' = "sched", moved' = nothing,
         UNCHANGED <<bufvars, taskrunqueue, ready, taskrunning>>
  PROVE  StepOK
<1> DEFINE on(c, op) == { <<r, i>> : i \in { j \in DOMAIN a : a[j].op = op /\ a[j].c = c } }
<1>1. /\ SchedTypeOK /\ BufOK /\ AltTypeOK
      /\ QueueOK /\ control # "aborted" /\ AltsOK /\ NoMissedPartner
  BY DEF Inv
<1>2. /\ control = "task" /\ taskrunning = r /\ posted[r] = <<>>
      /\ r \notin ToSet(taskrunqueue)
  BY <1>1 DEF Idle, Running, QueueOK
<1>3. \A i \in DOMAIN a : i \in Nat /\ a[i] \in Alt
  BY OfferFacts
<1>4. \A c \in Chan, op \in {"CHANSND", "CHANRCV"} :
        /\ on(c, op) \subseteq Task \X Nat
        /\ \A t \in Task, i \in Nat :
             <<t, i>> \in on(c, op) <=> t = r /\ i \in DOMAIN a /\ a[i].op = op /\ a[i].c = c
  BY <1>3
<1>5. \A c \in Chan : /\ asend'[c] = asend[c] \cup on(c, "CHANSND")
                     /\ arecv'[c] = arecv[c] \cup on(c, "CHANRCV")
  BY DEF altqueue
<1>6. /\ asend' \in [Chan -> SUBSET (Task \X Nat)]
      /\ arecv' \in [Chan -> SUBSET (Task \X Nat)]
  <2>1. /\ asend' = [c \in Chan |-> asend[c] \cup on(c, "CHANSND")]
        /\ arecv' = [c \in Chan |-> arecv[c] \cup on(c, "CHANRCV")]
    BY DEF altqueue
  <2> HIDE DEF on
  <2> QED BY <1>1, <1>4, <2>1 DEF AltTypeOK
<1>7. /\ \A t \in Task : t # r => (Blocked(t)' <=> Blocked(t)) /\ posted'[t] = posted[t]
      /\ ~Blocked(r) /\ posted'[r] = a
      /\ Blocked(r)' <=> a # <<>>
  BY <1>1, <1>2 DEF Blocked, Running, AltTypeOK
<1>8. ASSUME NEW c \in Chan, NEW i \in DOMAIN a, a[i].op = "CHANSND", a[i].c = c
      PROVE arecv[c] = {} /\ nbuf[c] = bufsize[c]
  <2>1. ~altcanexec(a[i])
    OBVIOUS
  <2>2. bufsize[c] \in Nat /\ nbuf[c] \in Nat /\ nbuf[c] <= bufsize[c]
    BY <1>1 DEF BufOK
  <2>3. CASE bufsize[c] = 0
    BY <1>8, <2>1, <2>2, <2>3 DEF altcanexec, others
  <2>4. CASE bufsize[c] # 0
    <3>1. nbuf[c] = bufsize[c]
      BY <1>8, <2>1, <2>2, <2>4 DEF altcanexec
    <3> QED BY <1>1, <2>4, <3>1 DEF NoMissedPartner
  <2> QED BY <2>3, <2>4
<1>9. ASSUME NEW c \in Chan, NEW i \in DOMAIN a, a[i].op = "CHANRCV", a[i].c = c
      PROVE asend[c] = {} /\ nbuf[c] = 0
  <2>1. ~altcanexec(a[i])
    OBVIOUS
  <2>2. bufsize[c] \in Nat /\ nbuf[c] \in Nat /\ nbuf[c] <= bufsize[c]
    BY <1>1 DEF BufOK
  <2>3. CASE bufsize[c] = 0
    BY <1>9, <2>1, <2>2, <2>3 DEF altcanexec, others
  <2>4. CASE bufsize[c] # 0
    <3>1. nbuf[c] = 0
      BY <1>9, <2>1, <2>2, <2>4 DEF altcanexec
    <3> QED BY <1>1, <2>4, <3>1 DEF NoMissedPartner
  <2> QED BY <2>3, <2>4
<1>10. BufOK' /\ Fifo!Next /\ nbuf' = nbuf /\ bufsize' = bufsize
  BY SettleStep
<1>11. NoMissedPartner'
  <2> SUFFICES ASSUME NEW c \in Chan
               PROVE  /\ arecv'[c] # {} => nbuf[c] = 0
                      /\ asend'[c] # {} => nbuf[c] = bufsize[c]
                      /\ \A s \in asend'[c], q \in arecv'[c] : s[1] = q[1]
    BY <1>10 DEF NoMissedPartner
  <2>1. /\ on(c, "CHANSND") # {} => arecv[c] = {} /\ nbuf[c] = bufsize[c]
        /\ on(c, "CHANRCV") # {} => asend[c] = {} /\ nbuf[c] = 0
    BY <1>8, <1>9
  <2>2. \A s \in on(c, "CHANSND") \cup on(c, "CHANRCV") : s[1] = r
    OBVIOUS
  <2> HIDE DEF on
  <2> QED BY <1>1, <1>5, <2>1, <2>2 DEF NoMissedPartner
<1>12. AltsOK'
  <2> SUFFICES ASSUME NEW c \in Chan, NEW t \in Task, NEW i \in Nat
               PROVE  /\ <<t, i>> \in asend'[c] <=> Waits(t, i, "CHANSND", c)'
                      /\ <<t, i>> \in arecv'[c] <=> Waits(t, i, "CHANRCV", c)'
    BY DEF AltsOK
  <2>1. /\ <<t, i>> \in asend[c] <=> Waits(t, i, "CHANSND", c)
        /\ <<t, i>> \in arecv[c] <=> Waits(t, i, "CHANRCV", c)
    BY <1>1 DEF AltsOK
  <2>2. \A op \in {"CHANSND", "CHANRCV"} :
          <<t, i>> \in on(c, op) <=> t = r /\ i \in DOMAIN a /\ a[i].op = op /\ a[i].c = c
    BY <1>4
  <2> HIDE DEF on
  <2>3. CASE t # r
    BY <1>5, <1>7, <2>1, <2>2, <2>3 DEF Waits
  <2>4. CASE t = r
    <3>1. i \in DOMAIN a => a # <<>>
      BY <1>3, EmptySeq
    <3> QED BY <1>5, <1>7, <2>1, <2>2, <2>4, <3>1 DEF Waits
  <2> QED BY <2>3, <2>4
<1>13. SchedTypeOK' /\ QueueOK' /\ AltTypeOK' /\ control' # "aborted"
  BY <1>1, <1>6 DEF SchedTypeOK, QueueOK, AltTypeOK
<1>14. Result
  BY <1>7 DEF Result
<1> QED BY <1>10, <1>11, <1>12, <1>13, <1>14 DEF StepOK, Inv

\* A switch between tasks that changes neither queues nor buffers: nobody who
\* is blocked is made ready by it, nor anybody blocked.
LEMMA SwitchStep ==
  ASSUME Inv, SchedTypeOK', QueueOK', control' # "aborted", AltTypeOK',
         UNCHANGED <<bufvars, asend, arecv>>, moved' = nothing,
         \A t \in Task : Blocked(t)' <=> Blocked(t),
         \A t \in Task : Blocked(t) => posted'[t] = posted[t]
  PROVE  StepOK
<1>1. BufOK' /\ Fifo!Next /\ nbuf' = nbuf /\ bufsize' = bufsize
  BY SettleStep
<1>2. asend' = asend /\ arecv' = arecv
  OBVIOUS
<1>3. NoMissedPartner'
  BY <1>1, <1>2 DEF Inv, NoMissedPartner
<1>4. AltsOK'
  <2>1. \A t \in Task : \A i, op, c : Waits(t, i, op, c)' <=> Waits(t, i, op, c)
    BY DEF Waits
  <2> QED BY <1>2, <2>1 DEF Inv, AltsOK
<1> QED BY <1>1, <1>3, <1>4 DEF StepOK, Inv, Result

LEMMA ChanaltStep ==
  ASSUME Inv, NEW r \in Task, NEW a \in Offers, NEW canblock \in BOOLEAN,
         chanalt(r, a, canblock)
  PROVE  StepOK
<1> DEFINE can == { i \in DOMAIN a : altcanexec(a[i]) }
<1>1. Idle(r) /\ taskrunning' = taskrunning
  BY DEF chanalt
<1>2. \A i \in DOMAIN a : a[i] \in Alt
  BY OfferFacts
<1>3. ASSUME NEW i \in can, altexec(a[i]), posted' = posted PROVE StepOK
  <2> DEFINE e == a[i]
  <2>1. e \in Alt /\ altcanexec(e) /\ e.op # "CHANNOP"
    BY <1>2 DEF altcanexec
  <2>2. altexec(e)
    BY <1>3
  <2> HIDE DEF e
  <2>3. ASSUME NEW p \in others(e),
               altcopy(e.c, <<amove(IF e.op = "CHANSND" THEN e.v ELSE posted[p[1]][p[2]].v)>>, TRUE),
               altalldequeue(p[1], p[2]), setxalt(p[1], p[2]), taskready(p[1])
        PROVE StepOK
    BY <1>1, <1>3, <2>1, <2>3, PartnerStep
  <2>4. ASSUME others(e) = {},
               altcopy(e.c, IF e.op = "CHANSND" THEN <<amove(e.v)>> ELSE <<>>,
                       e.op = "CHANRCV"),
               UNCHANGED <<asend, arecv, xalt, taskrunqueue, ready, control>>
        PROVE StepOK
    <3>1. UNCHANGED <<schedvars, altvars>>
      BY <1>1, <1>3, <2>4 DEF schedvars, altvars
    <3> QED BY <2>1, <2>4, <3>1, AloneStep
  <2> QED BY <2>2, <2>3, <2>4 DEF altexec
<1>4. ASSUME moved' = nothing,
             UNCHANGED <<bufvars, altvars, taskrunqueue, ready, control>>
      PROVE StepOK
  <2>1. UNCHANGED <<schedvars, altvars>>
    BY <1>1, <1>4 DEF schedvars
  <2>2. SchedTypeOK' /\ QueueOK' /\ control' # "aborted" /\ AltTypeOK'
    BY <2>1, KeepFacts
  <2>3. /\ UNCHANGED <<taskrunqueue, taskrunning, ready, control>>
        /\ UNCHANGED <<asend, arecv, posted, xalt>>
    BY <2>1 DEF schedvars, altvars
  <2>4. \A t \in Task : (Blocked(t)' <=> Blocked(t)) /\ posted'[t] = posted[t]
    BY <2>3 DEF Blocked, Running
  <2> QED BY <1>4, <2>2, <2>3, <2>4, SwitchStep
<1>5. ASSUME can = {}, altqueue(r, a), posted' = [posted EXCEPT ![r] = a],
             xalt' = [xalt EXCEPT ![r] = 1], taskswitch, moved' = nothing,
             UNCHANGED <<bufvars, taskrunqueue, ready>>
      PROVE StepOK
  <2>1. \A i \in DOMAIN a : ~altcanexec(a[i])
    BY <1>5
  <2>2. control' = "sched"
    BY <1>5 DEF taskswitch
  <2> QED BY <1>1, <1>5, <2>1, <2>2, BlockStep
<1> QED BY <1>3, <1>4, <1>5 DEF chanalt

LEMMA ResumeStep ==
  ASSUME Inv, NEW r \in Task, chanaltresume(r)
  PROVE  StepOK
<1>1. /\ Running(r) /\ UNCHANGED <<taskrunqueue, taskrunning, ready, control>>
      /\ posted' = [posted EXCEPT ![r] = <<>>] /\ xalt' = [xalt EXCEPT ![r] = 1]
      /\ UNCHANGED <<bufvars, asend, arecv>> /\ moved' = nothing
  BY DEF chanaltresume, schedvars
<1>2. SchedTypeOK' /\ QueueOK' /\ control' # "aborted" /\ AltTypeOK'
  BY <1>1 DEF Inv, SchedTypeOK, QueueOK, AltTypeOK
<1>3. \A t \in Task : t # r => posted'[t] = posted[t]
  BY <1>1 DEF Inv, AltTypeOK
<1>4. \A t \in Task : Blocked(t)' <=> Blocked(t)
  BY <1>1, <1>3 DEF Blocked, Running
<1>5. \A t \in Task : Blocked(t) => posted'[t] = posted[t]
  BY <1>1, <1>3 DEF Blocked
<1> QED BY <1>1, <1>2, <1>4, <1>5, SwitchStep

LEMMA YieldStep ==
  ASSUME Inv, NEW r \in Task, taskyield(r)
  PROVE  StepOK
<1>1. /\ Running(r) /\ posted[r] = <<>> /\ taskready(r) /\ control' = "sched"
      /\ taskrunning' = taskrunning /\ moved' = nothing
      /\ UNCHANGED <<bufvars, asend, arecv, posted, xalt>>
  BY DEF taskyield, Idle, yieldcpu, taskswitch, altvars
<1>2. SchedTypeOK /\ QueueOK /\ AltTypeOK
  BY DEF Inv
<1>3. r \notin ToSet(taskrunqueue)
  BY <1>1, <1>2 DEF QueueOK, Running
<1>4. /\ taskrunqueue' \in Seq(Task) /\ ready' \in [Task -> BOOLEAN]
      /\ ToSet(taskrunqueue') = ToSet(taskrunqueue) \cup {r}
      /\ IsInjective(taskrunqueue')
      /\ \A t \in ToSet(taskrunqueue') : ready'[t]
  BY <1>1, <1>2, <1>3, ReadyQueue
<1>5. SchedTypeOK' /\ QueueOK' /\ control' # "aborted" /\ AltTypeOK'
  BY <1>1, <1>2, <1>4 DEF SchedTypeOK, QueueOK, AltTypeOK
<1>6. \A t \in Task : (Blocked(t)' <=> Blocked(t)) /\ posted'[t] = posted[t]
  BY <1>1, <1>4 DEF Blocked, Running
<1> QED BY <1>1, <1>5, <1>6, SwitchStep

LEMMA SchedulerStep ==
  ASSUME Inv, taskscheduler
  PROVE  StepOK
<1>1. /\ control = "sched" /\ moved' = nothing
      /\ UNCHANGED <<bufvars, asend, arecv, posted, xalt>>
  BY DEF taskscheduler, runnext, norunnable, altvars
<1>2. SchedTypeOK /\ QueueOK /\ AltTypeOK
  BY DEF Inv
<1>3. ASSUME NEW t \in Task, dispatch(t) PROVE StepOK
  <2>1. /\ taskrunqueue' \in Seq(Task) /\ ready' \in [Task -> BOOLEAN]
        /\ t \in ToSet(taskrunqueue)
        /\ ToSet(taskrunqueue') = ToSet(taskrunqueue) \ {t}
        /\ IsInjective(taskrunqueue')
        /\ \A u \in ToSet(taskrunqueue') : ready'[u]
    BY <1>2, <1>3, DispatchQueue
  <2>2. control' = "task" /\ taskrunning' = t
    BY <1>3 DEF dispatch
  <2>3. SchedTypeOK' /\ QueueOK' /\ control' # "aborted" /\ AltTypeOK'
    BY <1>1, <1>2, <2>1, <2>2 DEF SchedTypeOK, QueueOK, AltTypeOK
  <2>4. \A u \in Task : (Blocked(u)' <=> Blocked(u)) /\ posted'[u] = posted[u]
    BY <1>1, <2>1, <2>2 DEF Blocked, Running
  <2> QED BY <1>1, <2>3, <2>4, SwitchStep
<1>4. ASSUME norunnable PROVE StepOK
  <2>1. control' = "exited" /\ UNCHANGED <<taskrunqueue, taskrunning, ready>>
    BY <1>4 DEF norunnable
  <2>2. SchedTypeOK' /\ QueueOK' /\ control' # "aborted" /\ AltTypeOK'
    BY <1>1, <1>2, <2>1 DEF SchedTypeOK, QueueOK, AltTypeOK
  <2>3. \A u \in Task : (Blocked(u)' <=> Blocked(u)) /\ posted'[u] = posted[u]
    BY <1>1, <2>1 DEF Blocked, Running
  <2> QED BY <1>1, <2>2, <2>3, SwitchStep
<1> QED BY <1>3, <1>4 DEF taskscheduler, runnext

LEMMA NextStep ==
  ASSUME Inv, [Next]_vars
  PROVE  Inv' /\ [Result]_vars /\ [Fifo!Next]_<<bufsize, Values, moved>>
<1>1. ASSUME StepOK PROVE Inv' /\ [Result]_vars /\ [Fifo!Next]_<<bufsize, Values, moved>>
  BY <1>1 DEF StepOK
<1>2. CASE taskscheduler
  BY <1>1, <1>2, SchedulerStep
<1>3. ASSUME NEW r \in Task, Step(r) PROVE StepOK
  <2>1. CASE \E a \in Offers, canblock \in BOOLEAN : chanalt(r, a, canblock)
    BY <2>1, ChanaltStep
  <2>2. CASE chanaltresume(r)
    BY <2>2, ResumeStep
  <2>3. CASE taskyield(r)
    BY <2>3, YieldStep
  <2> QED BY <1>3, <2>1, <2>2, <2>3 DEF Step
<1>4. ASSUME vars' = vars PROVE Inv' /\ [Result]_vars /\ [Fifo!Next]_<<bufsize, Values, moved>>
  <2>1. /\ UNCHANGED <<schedvars, altvars>> /\ UNCHANGED <<bufsize, buf, off, nbuf>>
        /\ UNCHANGED <<asend, arecv>> /\ moved' = moved
    BY <1>4 DEF vars, bufvars, altvars
  <2>2. SchedTypeOK' /\ QueueOK' /\ control' # "aborted" /\ AltTypeOK' /\ AltsOK'
    BY <2>1, KeepFacts
  <2>3. BufOK' /\ Values' = Values
    BY <2>1 DEF Inv, BufOK, Values, Contents
  <2>4. NoMissedPartner'
    BY <2>1 DEF Inv, NoMissedPartner
  <2> QED BY <1>4, <2>1, <2>2, <2>3, <2>4 DEF Inv
<1>5. CASE Terminated
  BY <1>4, <1>5 DEF Terminated
<1> QED BY <1>1, <1>2, <1>3, <1>4, <1>5 DEF Next

\* chanalt keeps its inductive invariant, for any tasks, channels, buffer sizes
\* and Alt arrays.
THEOREM Invariance == Spec => []Inv
<1>1. Init => Inv
  BY InitInv
<1>2. Inv /\ [Next]_vars => Inv'
  BY NextStep
<1> QED BY <1>1, <1>2, PTL DEF Spec

\* The queues of a channel hold exactly the operations of the tasks that are
\* blocked in chanalt: none is left when its array goes out of scope, and
\* altdequeue (channel.c:106-125) always finds what it looks for.
THEOREM NoDanglingAltCorrect == Spec => []NoDanglingAlt
<1>1. Inv => NoDanglingAlt
  <2> SUFFICES ASSUME Inv PROVE NoDanglingAlt
    OBVIOUS
  <2>1. TypeOK /\ QueueOK /\ control # "aborted"
    BY DEF Inv, TypeOK, BufOK, AltTypeOK
  <2>2. ASSUME NEW c \in Chan,
               NEW op \in {"CHANSND", "CHANRCV"}, NEW Q \in SUBSET (Task \X Nat),
               \A t \in Task, i \in Nat : <<t, i>> \in Q <=> Waits(t, i, op, c)
        PROVE Q = UNION { { <<t, i>> : i \in { j \in DOMAIN posted[t] :
                               posted[t][j].op = op /\ posted[t][j].c = c } } :
                           t \in { u \in Task : Blocked(u) } }
    <3> DEFINE W(t) == { <<t, i>> : i \in { j \in DOMAIN posted[t] :
                               posted[t][j].op = op /\ posted[t][j].c = c } }
               U == UNION { W(t) : t \in { u \in Task : Blocked(u) } }
    <3>1. \A t \in Task : posted[t] \in Offers \cup {<<>>}
      BY DEF Inv, AltTypeOK
    <3>2. \A t \in Task : \A i \in DOMAIN posted[t] : i \in Nat
      BY <3>1, OfferFacts
    <3>3. ASSUME NEW q \in Q PROVE q \in U
      <4>1. PICK t \in Task, i \in Nat : q = <<t, i>>
        OBVIOUS
      <4>2. Waits(t, i, op, c)
        BY <2>2, <4>1
      <4>3. q \in W(t)
        BY <4>1, <4>2 DEF Waits
      <4> QED BY <4>2, <4>3 DEF Waits
    <3>4. ASSUME NEW q \in U PROVE q \in Q
      <4>1. PICK t \in Task : Blocked(t) /\ q \in W(t)
        OBVIOUS
      <4>2. PICK i \in DOMAIN posted[t] :
              q = <<t, i>> /\ posted[t][i].op = op /\ posted[t][i].c = c
        BY <4>1
      <4>3. i \in Nat /\ Waits(t, i, op, c)
        BY <3>2, <4>1, <4>2 DEF Waits
      <4> QED BY <2>2, <4>2, <4>3
    <3> QED BY <3>3, <3>4
  <2>3. ASSUME NEW c \in Chan
        PROVE /\ asend[c] \in SUBSET (Task \X Nat) /\ arecv[c] \in SUBSET (Task \X Nat)
              /\ \A t \in Task, i \in Nat :
                   /\ <<t, i>> \in asend[c] <=> Waits(t, i, "CHANSND", c)
                   /\ <<t, i>> \in arecv[c] <=> Waits(t, i, "CHANRCV", c)
    BY DEF Inv, AltTypeOK, AltsOK
  <2> QED BY <2>1, <2>2, <2>3 DEF NoDanglingAlt
<1> QED BY <1>1, Invariance, PTL

\* Receivers wait only on an empty channel and senders only on a full one,
\* never both sides at once (altcanexec, channel.c:72-95, against altqueue).
THEOREM NoMissedPartnerCorrect == Spec => []NoMissedPartner
<1>1. Inv => NoMissedPartner
  BY DEF Inv
<1> QED BY <1>1, Invariance, PTL

\* The index a resumed chanalt returns is that of the operation whose data was
\* moved when its task was made ready (altexec, channel.c:203-224).
THEOREM ResultCorrect == Spec => ResultIsTransfer
<1>1. Inv /\ [Next]_vars => [Result]_vars
  BY NextStep
<1> QED BY <1>1, Invariance, PTL DEF Spec, ResultIsTransfer, Result

\* The ring buffer, the direct copy and the slide of altcopy together are a
\* bounded first-in first-out queue: chanalt implements ChanFifo.
THEOREM FifoCorrect == Spec => FifoSpec
<1>1. Init => Fifo!Init
  <2> SUFFICES ASSUME Init PROVE Fifo!Init
    OBVIOUS
  <2>1. BufOK /\ \A c \in Chan : nbuf[c] = 0
    BY InitInv DEF Init, Inv
  <2>2. \A c \in Chan : Values[c] = <<>>
    BY <2>1, ValuesFacts
  <2>3. [c \in Chan |-> Contents(c)] = [c \in Chan |-> <<>>]
    BY <2>2 DEF Values
  <2> QED BY <2>3 DEF Init, Fifo!Init, Fifo!nothing, nothing
<1>2. Inv /\ [Next]_vars =>
        [Fifo!Next]_<<bufsize, [c \in Chan |-> Contents(c)], moved>>
  BY NextStep DEF Values
<1> QED BY <1>1, <1>2, Invariance, PTL DEF Spec, FifoSpec, Fifo!Spec

=============================================================================
