----------------------------- MODULE MCTaskInfo -----------------------------
(***************************************************************************)
(* Names of at most 4 letters, an alltask[] that grows by two slots, ints  *)
(* of 4 and uvlongs of 6 bits, and formats with every kind of item that    *)
(* end before, at and behind the end of the buffer.                        *)
(***************************************************************************)
EXTENDS TaskInfo

letter == [kind |-> "letter"]
bad == [kind |-> "bad"]
cut == [kind |-> "cut"]
str(l, n) == [kind |-> "str", len |-> l, size |-> n]
field(x, b, u, l, n) ==
  [kind |-> "num", v |-> x, base |-> b, unsigned |-> u, long |-> l, size |-> n]
number(x, b, u, l) == field(x, b, u, l, 0)

\* The values at the ends of an int, and of a vlong.
Ints == { number(x, b, u, FALSE) : x \in {-8, -1, 0, 7}, b \in {8, 10, 16}, u \in BOOLEAN }
Longs == { number(x, b, u, TRUE) : x \in {-32, -5, 31}, b \in {8, 10, 16}, u \in BOOLEAN }

MCFmts ==
  { <<>>, <<letter>>, <<letter, str(2, 0)>>, <<str(2, 3), letter>>, <<str(1, -4)>>,
    <<str(3, 7), letter>>, <<letter, bad, letter>>, <<letter, cut>>,
    <<number(-1, 10, TRUE, FALSE), number(0, 10, FALSE, FALSE)>>,
    <<field(7, 10, FALSE, FALSE, 2), number(-32, 10, TRUE, TRUE), letter>>,
    FoldSet(LAMBDA e, s : Append(s, e), <<>>, Ints \cup Longs) }

\* A format that names a task by a negative number.
MCNegative == { <<letter, number(-5, 10, FALSE, FALSE)>> }

\* The end of the memory, text, and directives nobody passed an argument for,
\* an unfinished one among them.
MCBehind == { <<>>, <<letter>>, <<str(3, -2), cut>>, <<number(-8, 16, FALSE, FALSE), bad>> }

Symmetry == Permutations(Task) \cup Permutations(Block)

=============================================================================
