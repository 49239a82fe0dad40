------------------------------ MODULE Parseip ------------------------------
(***************************************************************************)
(* parseip of net.c, which reads a dotted name of one to four numbers.  A  *)
(* name is the sequence of its parts, by what strtoul returns for them: an *)
(* empty part between two dots is 0; one with anything but a dot behind    *)
(* its digits, and one too large for strtoul, is invalid.  The bytes of    *)
(* addr[] that the name does not set are uninitialised: they are the       *)
(* argument g.                                                             *)
(***************************************************************************)
EXTENDS Integers, Sequences

CONSTANTS
  invalid, \* not a number; also the answer -1
  UINT     \* 2^32: x = strtoul(...) keeps the low bits

ASSUME ParseipAssumption == invalid \notin Nat /\ UINT \in Nat /\ UINT > 256

Byte == 0 .. 255

\* x as an unsigned number: the negative values are beyond 255 too.
int(p) == p % UINT

\* The tests that end the loop with -1.
badpart(p) == p = invalid \/ int(p) >= 256

\* i, when the loop ends: what follows the fourth part is not looked at.
nparts(name) == IF Len(name) < 4 THEN Len(name) ELSE 4

\* addr[] after the loop.
addr(name, g) == [k \in 1 .. 4 |-> IF k <= nparts(name) THEN int(name[k]) ELSE g[k]]

CLASS(a) == a[1] \div 64

\* The assignments of the switch: the first lead bytes stay, the others are
\* moved to the end, and zeros fill the gap.
expand(a, i, lead) ==
  [k \in 1 .. 4 |-> IF k <= lead THEN a[k] ELSE IF k <= lead + 4 - i THEN 0 ELSE a[k - 4 + i]]

\* parseip: the address, or invalid.
parseip(name, g) ==
  LET i    == nparts(name)
      a    == addr(name, g)
      lead == IF CLASS(a) = 2 THEN 2 ELSE 1
  IN  IF \E k \in 1 .. i : badpart(name[k]) THEN invalid
      ELSE IF CLASS(a) = 3 \/ i = 4 THEN a
      ELSE IF i <= lead THEN invalid
      ELSE expand(a, i, lead)

-----------------------------------------------------------------------------

\* The names whose address parseip reads from the name alone: the switch has
\* no case for class 3, where a name of fewer than four parts passes as it is.
Complete(name) == Len(name) >= 4 \/ (name # <<>> /\ (name[1] = invalid \/ int(name[1]) < 192))

\* The reference: the parts in their order, the first one first and the last
\* one last, and zeros between.
Stands(name, a) ==
  LET i == nparts(name)
  IN  \E s \in [1 .. i -> 1 .. 4] :
        /\ s[1] = 1 /\ s[i] = 4
        /\ \A j, k \in 1 .. i : j < k => s[j] < s[k]
        /\ \A j \in 1 .. i : a[s[j]] = int(name[j])
        /\ \A k \in 1 .. 4 : (\A j \in 1 .. i : s[j] # k) => a[k] = 0

=============================================================================
