------------------------------- MODULE Format -------------------------------
(***************************************************************************)
(* print.c: the formatter behind print, fprint, taskname and taskstate.    *)
(*                                                                         *)
(* Memory safety depends on lengths only, so a format is a sequence of     *)
(* items (a letter, a directive with its field size and its argument), a   *)
(* string argument is its length, and a buffer is the set of the places    *)
(* that hold a NUL.  Numbers are converted digit by digit.                 *)
(***************************************************************************)
EXTENDS Integers, SequencesExt

CONSTANTS
  UINT,     \* number of values of an unsigned int (2^32)
  UVLONG,   \* number of values of a uvlong (2^64)
  Behind    \* what memory may hold behind the NUL of a format, read as items

ASSUME FormatAssumption ==
  /\ UINT \in Nat /\ UVLONG \in Nat
  /\ 1 < UINT /\ UINT <= UVLONG /\ UVLONG % 2 = 0

-----------------------------------------------------------------------------
(***************************************************************************)
(* Numbers: %d, %o, %x, %p with the flags l, ll and u.                     *)
(***************************************************************************)

\* The letter x, among the digits 0 .. 15.
letterx == 16

\* va_arg and the conversion of the argument to uvlong luv: signed ones are
\* sign-extended.
vaarg(e) == IF e.unsigned /\ ~e.long THEN e.v % UINT ELSE e.v % UVLONG

\* Mutant: negative numbers are not negated.
magnitudeRaw(e) == vaarg(e)

\* luv behind the test of its sign.  neg is set as well, but never used.
magnitude(e) ==
  IF ~e.unsigned /\ vaarg(e) >= UVLONG \div 2 THEN (UVLONG - vaarg(e)) % UVLONG
                                              ELSE vaarg(e)

\* The loop while(luv), started with any n up to luv.
loop(luv, base) ==
  LET d[n \in 0 .. luv] == IF n = 0 THEN <<>> ELSE Append(d[n \div base], n % base)
  IN  d

digits(luv, base) == loop(luv, base)[luv]

\* The prefixes put in front of the digits.
num(e) ==
  (IF e.base = 8 \/ magnitude(e) = 0 THEN <<0>> ELSE <<>>)
    \o (IF e.base = 16 THEN <<0, letterx>> ELSE <<>>)
    \o digits(magnitude(e), e.base)

-----------------------------------------------------------------------------
(***************************************************************************)
(* Text in a buffer.                                                       *)
(***************************************************************************)

\* strlen of an item's argument: of %s, %c and %r it is given.
arglen(e) == IF e.kind = "num" THEN Len(num(e)) ELSE e.len

\* Mutant: the place of the final NUL is not kept free.
printstrFull(room, l, size) == Min({ Max({l, size, -size}), room })

\* printstr: how many places it fills when room of them are left.  Left or
\* right alignment, the sign of size, only decides where the blanks go.
printstr(room, l, size) ==
  IF room <= 0 THEN 0 ELSE Min({ Max({l, size, -size}), room - 1 })

\* "X*verb*": what vseprint goes on with after a directive it does not know.
badverb == [i \in 1 .. 6 |-> [kind |-> "letter"]]

\* The loop test of vseprint: n places, the format not used up, w of them full.
printing(n, rest, w) == rest # <<>> /\ w < n - 1

\* One round of that loop: how many places it fills, and what it may go on with.
filled(n, rest, w) ==
  CASE rest[1].kind = "letter" -> 1
    [] rest[1].kind \in {"str", "num"} -> printstr(n - w, arglen(rest[1]), rest[1].size)
    [] OTHER -> 0

\* A format that ends inside a directive is left behind its NUL, over which the
\* p++ of the outer loop steps; va_arg then finds any values.
goeson(rest) ==
  CASE rest[1].kind = "bad" -> {badverb}
    [] rest[1].kind = "cut" -> Behind
    [] OTHER -> {Tail(rest)}

=============================================================================
