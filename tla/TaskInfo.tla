------------------------------ MODULE TaskInfo ------------------------------
(***************************************************************************)
(* taskinfo, the SIGQUIT handler of task.c: it lists the tasks of          *)
(* alltask[] whatever the program is doing, so here taskcreate, the        *)
(* scheduler's removal of a task, taskname and taskstate go store by       *)
(* store.  While the handler runs the program does not, and the handler    *)
(* changes nothing the program reads.                                      *)
(*                                                                         *)
(* alltask and nalltask are plain variables: where one statement stores    *)
(* both, either store may come first in the machine code.                  *)
(***************************************************************************)
EXTENDS Format

CONSTANTS
  Task, nil,
  Block,      \* the addresses realloc can return for alltask[]
  CHUNK,      \* alltask[] grows by this many slots (64)
  NAMELEN,    \* sizeof t->name and sizeof t->state (256)
  Fmts        \* formats given to taskname and taskstate, with their arguments

\* What formats, and the memory behind them, consist of.
Items == (UNION { ToSet(f) : f \in Fmts \cup Behind }) \cup {[kind |-> "letter"]}

\* The values of a number's type.  Unsigned ones are given as the signed ones
\* with the same bits.
range(e) == IF e.long THEN UVLONG ELSE UINT

ASSUME InfoAssumption ==
  /\ nil \notin Task \cup Block /\ nil \notin Seq(Task \cup {nil})
  /\ CHUNK \in Nat /\ CHUNK > 0
  /\ NAMELEN \in Nat /\ NAMELEN > 0
  /\ Fmts \cup Behind \subseteq Seq(Items)
  /\ \A e \in Items : e.kind \in {"str", "num"} => e.size \in Int
  /\ \A e \in Items : e.kind = "str" => e.len \in Nat
  /\ \A e \in Items : e.kind = "num" =>
       /\ e.base \in {8, 10, 16} /\ e.unsigned \in BOOLEAN /\ e.long \in BOOLEAN
       /\ e.v \in Int /\ -range(e) <= 2 * e.v /\ 2 * e.v < range(e)

VARIABLES
  live,       \* Task structures between malloc and free
  alltask,    \* the pointer, nil or a Block
  blocks,     \* what is stored in each block: nil if it is not allocated
  nalltask,
  alltaskslot,
  text,       \* the NULs in t->name (t->state is alike)
  pc,         \* the store the program is about to make
  t,          \* the task taskcreate, the scheduler or vseprint works on
  tmp,        \* what realloc returned, or the last entry of the table
  fmt,        \* the format vseprint was given,
  rest,       \*   what is left of it
  w,          \*   and how many places are filled
  listed      \* what the handler has just listed

tablevars == <<live, alltask, blocks, nalltask, alltaskslot>>
printvars == <<text, fmt, rest, w>>
vars == <<tablevars, printvars, pc, t, tmp, listed>>

\* An entry of alltask[] nobody has written yet, and a handler that crashed.
garbage == nil
fault == <<nil>>

Init ==
  /\ live = {} /\ alltask = nil /\ blocks = [b \in Block |-> nil]
  /\ nalltask = 0 /\ alltaskslot = [u \in Task |-> 0]
  /\ text = [u \in Task |-> {}]
  /\ pc = "start" /\ t = nil /\ tmp = nil
  /\ fmt = <<>> /\ rest = <<>> /\ w = 0
  /\ listed = <<>>

\* The tasks of the table, in a quiet moment.
Table == IF alltask = nil THEN {} ELSE { blocks[alltask][i] : i \in 1 .. nalltask }

goto(p) == pc' = p /\ listed' = <<>>
idle == goto("idle") /\ t' = nil /\ tmp' = nil

-----------------------------------------------------------------------------
(***************************************************************************)
(* taskcreate; main makes the first task.                                  *)
(***************************************************************************)

\* Mutant: the new Task structure is not cleared.
clearedNot == {}

\* memset(t, 0, sizeof *t): the NULs in a new t->name.
cleared == 0 .. NAMELEN - 1

\* taskalloc: malloc and memset.
taskalloc(u) ==
  /\ pc = "start" \/ (pc = "idle" /\ nalltask > 0)
  /\ u \notin live
  /\ live' = live \cup {u}
  /\ text' = [text EXCEPT ![u] = cleared]
  /\ t' = u
  /\ goto(IF nalltask % CHUNK = 0 THEN "realloc" ELSE "setslot")
  /\ UNCHANGED <<alltask, blocks, nalltask, alltaskslot, fmt, rest, w, tmp>>

\* realloc: in place, or a new block with the old entries and the old block
\* freed; or no memory, and the old block stays.
realloc ==
  /\ pc = "realloc"
  /\ \/ \E b \in Block :
          /\ b = alltask \/ blocks[b] = nil
          /\ blocks' = [c \in Block |->
                          IF c = b THEN [i \in 1 .. nalltask + CHUNK |->
                                           IF i <= nalltask THEN blocks[alltask][i] ELSE garbage]
                          ELSE IF c = alltask THEN nil ELSE blocks[c]]
          /\ tmp' = b
     \/ tmp' = nil /\ UNCHANGED blocks
  /\ goto("setalltask")
  /\ UNCHANGED <<live, alltask, nalltask, alltaskslot, printvars, t>>

\* alltask = what realloc returned; without memory the program prints a
\* message and aborts.
setalltask ==
  /\ pc = "setalltask"
  /\ alltask' = tmp
  /\ tmp' = nil
  /\ goto(IF tmp = nil THEN "nomemory" ELSE "setslot")
  /\ UNCHANGED <<live, blocks, nalltask, alltaskslot, printvars, t>>

\* t->alltaskslot = nalltask
setslot ==
  /\ pc = "setslot"
  /\ alltaskslot' = [alltaskslot EXCEPT ![t] = nalltask]
  /\ \/ goto("store") \/ goto("count")
  /\ UNCHANGED <<live, alltask, blocks, nalltask, printvars, t, tmp>>

\* alltask[nalltask++] = t, the entry first ("store") or the count ("count").
store(i, next) ==
  /\ blocks' = [blocks EXCEPT ![alltask][i] = t]
  /\ next
  /\ UNCHANGED <<live, alltask, nalltask, alltaskslot, printvars>>

count(next) ==
  /\ nalltask' = nalltask + 1
  /\ next
  /\ UNCHANGED <<live, alltask, blocks, alltaskslot, printvars>>

stay(p) == goto(p) /\ UNCHANGED <<t, tmp>>

enroll ==
  \/ pc = "store" /\ store(nalltask + 1, stay("count2"))
  \/ pc = "count2" /\ count(idle)
  \/ pc = "count" /\ count(stay("store2"))
  \/ pc = "store2" /\ store(nalltask, idle)

-----------------------------------------------------------------------------
(***************************************************************************)
(* The scheduler's removal of an exiting task.                             *)
(***************************************************************************)

\* i = t->alltaskslot and the load of alltask[--nalltask].
remove(u) ==
  /\ pc = "idle" /\ u \in Table
  /\ t' = u
  /\ tmp' = blocks[alltask][nalltask]
  /\ \/ goto("shrink") \/ goto("move")
  /\ UNCHANGED <<tablevars, printvars>>

\* The two stores of alltask[i] = alltask[--nalltask], in either order, ...
shrink(next) == nalltask' = nalltask - 1 /\ goto(next) /\ UNCHANGED blocks

move(next) ==
  /\ blocks' = [blocks EXCEPT ![alltask][alltaskslot[t] + 1] = tmp]
  /\ goto(next)
  /\ UNCHANGED nalltask

\* ... then alltask[i]->alltaskslot = i, ...
delist ==
  \/ /\ \/ pc = "shrink" /\ shrink("move2")
        \/ pc = "move2" /\ move("tell")
        \/ pc = "move" /\ move("shrink2")
        \/ pc = "shrink2" /\ shrink("tell")
     /\ UNCHANGED <<live, alltask, alltaskslot, printvars, t, tmp>>
  \/ /\ pc = "tell"
     /\ alltaskslot' = [alltaskslot EXCEPT ![tmp] = alltaskslot[t]]
     /\ goto("free")
     /\ UNCHANGED <<live, alltask, blocks, nalltask, printvars, t, tmp>>

\* ... and free(t): nobody reads its fields any more.
free ==
  /\ pc = "free"
  /\ live' = live \ {t}
  /\ text' = [text EXCEPT ![t] = {}]
  /\ alltaskslot' = [alltaskslot EXCEPT ![t] = 0]
  /\ idle
  /\ UNCHANGED <<alltask, blocks, nalltask, fmt, rest, w>>

-----------------------------------------------------------------------------
(***************************************************************************)
(* taskname and taskstate: vsnprint into the task's own buffer.            *)
(***************************************************************************)

taskname(u, f) ==
  /\ pc = "idle" /\ u \in Table
  /\ t' = u
  /\ fmt' = f /\ rest' = f /\ w' = 0
  /\ goto("vseprint")
  /\ UNCHANGED <<tablevars, text, tmp>>

\* One round of the loop; the bytes it writes are no NULs.
vseprint ==
  /\ pc = "vseprint" /\ printing(NAMELEN, rest, w)
  /\ LET n == filled(NAMELEN, rest, w)
     IN  /\ text' = [text EXCEPT ![t] = @ \ (w .. w + n - 1)]
         /\ w' = w + n
  /\ rest' \in goeson(rest)
  /\ stay("vseprint")
  /\ UNCHANGED <<tablevars, fmt>>

\* assert(w < edst); *w = 0
vseprintend ==
  /\ pc = "vseprint" /\ ~printing(NAMELEN, rest, w)
  /\ IF w < NAMELEN THEN /\ text' = [text EXCEPT ![t] = @ \cup {w}]
                         /\ stay("printed")
                    ELSE stay("aborted") /\ UNCHANGED text
  /\ UNCHANGED <<tablevars, fmt, rest, w>>

tasknamereturn ==
  /\ pc = "printed"
  /\ fmt' = <<>> /\ rest' = <<>> /\ w' = 0
  /\ idle
  /\ UNCHANGED <<tablevars, text>>

-----------------------------------------------------------------------------

\* What the handler can read: the entry points to a Task structure, and its
\* name and state end inside their buffers.
readable(u) == u \in live /\ text[u] # {}

\* taskinfo, at any moment: nalltask entries of the block alltask points to.
taskinfo ==
  /\ pc \notin {"aborted", "exited"} /\ listed = <<>> /\ nalltask > 0
  /\ listed' = IF /\ alltask # nil /\ blocks[alltask] # nil
                  /\ nalltask <= Len(blocks[alltask])
                  /\ \A i \in 1 .. nalltask : readable(blocks[alltask][i])
               THEN SubSeq(blocks[alltask], 1, nalltask)
               ELSE fault
  /\ UNCHANGED <<tablevars, printvars, pc, t, tmp>>

\* abort(), and the exit of the program when its last task is gone.
finish ==
  /\ pc = "nomemory" \/ (pc = "idle" /\ nalltask = 0)
  /\ stay(IF pc = "nomemory" THEN "aborted" ELSE "exited")
  /\ UNCHANGED <<tablevars, printvars>>

Terminated == pc \in {"aborted", "exited"} /\ UNCHANGED vars

Next ==
  \/ \E u \in Task : taskalloc(u) \/ remove(u) \/ \E f \in Fmts : taskname(u, f)
  \/ realloc \/ setalltask \/ setslot \/ enroll
  \/ delist \/ free
  \/ vseprint \/ vseprintend \/ tasknamereturn
  \/ taskinfo \/ finish \/ Terminated

Spec == Init /\ [][Next]_vars

-----------------------------------------------------------------------------

\* Where the handler is not safe: after realloc has freed the old block and
\* before alltask is stored, after alltask became nil for lack of memory, and
\* between the two stores of alltask[nalltask++] = t if the count comes first.
Window == pc \in {"setalltask", "nomemory", "store2"}

\* README: on SIGQUIT the program "will print a list of all its tasks and their
\* names and states".  Outside the windows above the handler reads only live
\* Task structures and terminated strings, although it may come between any
\* two stores; and between two operations it lists every task once.
ListingSafe ==
  /\ listed = fault => Window
  /\ pc = "idle" /\ listed # <<>> =>
       IsInjective(listed) /\ ToSet(listed) = live

\* vseprint keeps inside its buffer whatever the field sizes, the arguments
\* and an unknown or unfinished directive: the assertion of print.c:172 holds
\* and the buffer's last place is always NUL, so a name that is being written
\* stays terminated.
Terminates ==
  /\ pc # "aborted" \/ alltask = nil
  /\ \A u \in live : NAMELEN - 1 \in text[u]

-----------------------------------------------------------------------------
(***************************************************************************)
(* What printf of the C library prints, from its definition: README says   *)
(* that taskname "takes an argument list like printf".                     *)
(***************************************************************************)

\* The minus sign, among the digits.
minus == 17

\* The number a sequence of digits stands for.
Number(s, base) ==
  LET v[i \in 0 .. Len(s)] == IF i = 0 THEN 0 ELSE v[i - 1] * base + s[i]
  IN  v[Len(s)]

\* s is the number n, written without needless zeros.
Writes(s, n, base) ==
  /\ s # <<>> /\ (s[1] = 0 => n = 0 /\ Len(s) = 1)
  /\ \A k \in DOMAIN s : s[k] \in 0 .. base - 1
  /\ Number(s, base) = n

\* Only %d knows negative numbers.
signed(e) == e.base = 10 /\ ~e.unsigned

printed(e) == IF e.v >= 0 THEN e.v ELSE IF signed(e) THEN -e.v ELSE range(e) + e.v

sign(e) == IF signed(e) /\ e.v < 0 THEN <<minus>> ELSE <<>>

\* The prefix that the flag # asks for.
prefix(e) == CASE e.base = 8 -> <<0>> [] e.base = 16 -> <<0, letterx>> [] OTHER -> <<>>

\* s is what printf prints for e, with the sign g, with or without the flag #.
Printf(s, e, g) ==
  \E p \in {<<>>, IF e.v = 0 THEN <<>> ELSE prefix(e)} :
    LET n == Len(g) + Len(p)
    IN  /\ SubSeq(s, 1, n) = g \o p
        /\ Writes(SubSeq(s, n + 1, Len(s)), printed(e), e.base)

\* The numbers that vseprint tries to print like printf: it prints the magnitude
\* of negative ones in octal and hexadecimal too, and a 0 in hexadecimal as 00x.
usual(e) == (signed(e) \/ e.unsigned \/ e.v >= 0) /\ (e.base = 16 => e.v # 0)

\* The digits of a number are those that printf prints, for the values at the
\* ends of each type too, the smallest included, which is its own negation
\* (print.c:131).  About the sign see LikePrintf.
NumberText ==
  \A i \in DOMAIN fmt :
    fmt[i].kind = "num" /\ usual(fmt[i]) =>
      \E g \in {<<>>, sign(fmt[i])} : Printf(num(fmt[i]), fmt[i], g)

\* README, taskname: "Takes an argument list like printf."  The text of %d is
\* that of printf, with its sign.
LikePrintf ==
  pc = "printed" =>
    \A i \in DOMAIN fmt :
      fmt[i].kind = "num" /\ fmt[i].base = 10 => Printf(num(fmt[i]), fmt[i], sign(fmt[i]))

\* How many digits it takes to write n.
spells(k, n) == \E s \in [1 .. k -> 0 .. 9] : Number(s, 10) = n

decimals(n) == CHOOSE k \in 1 .. n + 1 : spells(k, n) /\ \A j \in 1 .. k - 1 : ~spells(j, n)

\* The length of an item in printf's text.
width(e) ==
  CASE e.kind = "letter" -> 1
    [] e.kind = "str" -> Max({e.len, e.size, -e.size})
    [] e.kind = "num" -> Max({decimals(printed(e)), e.size, -e.size})

\* The lengths of the first items of a format.
lengths(f) ==
  LET n[i \in 0 .. Len(f)] == IF i = 0 THEN 0 ELSE n[i - 1] + width(f[i])
  IN  n

wanted == lengths(fmt)[Len(fmt)]

\* Strings, and decimal numbers without a sign.
Plain(f) ==
  \A i \in DOMAIN f :
    \/ f[i].kind \in {"letter", "str"}
    \/ f[i].kind = "num" /\ f[i].base = 10 /\ (f[i].unsigned \/ f[i].v >= 0)

\* The buffer is kept (Terminates), and a text of strings and decimal numbers
\* is as long as printf would make it, cut at the end of the buffer and
\* nowhere else.
PrintBounded ==
  /\ Terminates
  /\ pc = "printed" /\ Plain(fmt) => Min(text[t]) = Min({wanted, NAMELEN - 1})

=============================================================================
