------------------------------ MODULE Channel ------------------------------
(***************************************************************************)
(* channel.c: chanalt on channels with and without a buffer.  A task       *)
(* offers an array of operations; one that can be done at once is done,    *)
(* otherwise all are queued on their channels and the task is suspended    *)
(* until another task's chanalt executes one of them and takes the others  *)
(* back.  chansend, chanrecv and their variants are arrays of one entry.   *)
(*                                                                         *)
(* Both choices of the code are random (rand), so the order of an Altarray *)
(* cannot be observed and the array is modelled as a set.                  *)
(***************************************************************************)
EXTENDS Sched

CONSTANTS
  Chan,       \* channels
  Sizes,      \* buffer sizes given to chancreate, one function per program
  Msg,        \* values that are sent, Zero among them
  Zero,       \* an element of zero bytes: what a nil pointer sends
  Offers      \* the Alt arrays that clients pass to chanalt

ASSUME ChanAssumption ==
  /\ Sizes \subseteq [Chan -> Nat]
  /\ Zero \in Msg
  /\ Offers \subseteq Seq([op : {"CHANSND", "CHANRCV", "CHANNOP"},
                          c : Chan, v : Msg \cup {nil}])

VARIABLES
  bufsize,   \* c->bufsize
  buf,       \* c->buf
  off,       \* c->off
  nbuf,      \* c->nbuf
  asend,     \* c->asend: the queued sends, as <<task, index in its array>>
  arecv,     \* c->arecv: the queued receives
  posted,    \* the Alt array a task is suspended with, on its stack
  xalt,      \* a[0].xalt - a of that array
  moved      \* history: what the last step transferred, if it did

bufvars == <<bufsize, buf, off, nbuf>>
altvars == <<asend, arecv, posted, xalt>>
vars == <<schedvars, bufvars, altvars, moved>>

nothing == [c |-> nil, in |-> <<>>, out |-> <<>>]

Idle(r) == Running(r) /\ posted[r] = <<>>

TypeOK ==
  /\ SchedTypeOK
  /\ bufsize \in Sizes
  /\ DOMAIN buf = Chan
  /\ off \in [Chan -> Nat] /\ nbuf \in [Chan -> Nat]
  /\ \A c \in Chan :
       /\ buf[c] \in [0 .. bufsize[c] - 1 -> Msg]
       /\ off[c] <= bufsize[c] /\ (off[c] = bufsize[c] => off[c] = 0)
       /\ nbuf[c] <= bufsize[c]
  /\ asend \in [Chan -> SUBSET (Task \X Nat)] /\ arecv \in [Chan -> SUBSET (Task \X Nat)]
  /\ posted \in [Task -> Offers \cup {<<>>}]
  /\ xalt \in [Task -> Nat]

\* chancreate for every channel; all tasks are ready, in any order.
Init ==
  /\ taskrunqueue \in SetToSeqs(Task)
  /\ taskrunning = nil
  /\ ready = [t \in Task |-> TRUE]
  /\ control = "sched"
  /\ bufsize \in Sizes
  /\ buf = [c \in Chan |-> [i \in 0 .. bufsize[c] - 1 |-> Zero]]
  /\ off = [c \in Chan |-> 0]
  /\ nbuf = [c \in Chan |-> 0]
  /\ asend = [c \in Chan |-> {}]
  /\ arecv = [c \in Chan |-> {}]
  /\ posted = [t \in Task |-> <<>>]
  /\ xalt = [t \in Task |-> 1]
  /\ moved = nothing

-----------------------------------------------------------------------------

\* chanarray(c, otherop(op)): the queue an operation finds its partner in.
others(e) == IF e.op = "CHANSND" THEN arecv[e.c] ELSE asend[e.c]

\* Mutant: a send leaves the last place of the buffer free.
altcanexecShort(e) ==
  /\ e.op # "CHANNOP"
  /\ IF bufsize[e.c] = 0 THEN others(e) # {}
     ELSE IF e.op = "CHANSND" THEN nbuf[e.c] + 1 < bufsize[e.c]
                              ELSE nbuf[e.c] > 0

altcanexec(e) ==
  /\ e.op # "CHANNOP"
  /\ IF bufsize[e.c] = 0 THEN others(e) # {}
     ELSE IF e.op = "CHANSND" THEN nbuf[e.c] < bufsize[e.c]
                              ELSE nbuf[e.c] > 0

\* altqueue of every operation of array a of task r.
altqueue(r, a) ==
  LET on(c, op) == { <<r, i>> : i \in { j \in DOMAIN a : a[j].op = op /\ a[j].c = c } }
  IN  /\ asend' = [c \in Chan |-> asend[c] \cup on(c, "CHANSND")]
      /\ arecv' = [c \in Chan |-> arecv[c] \cup on(c, "CHANRCV")]

\* Mutant: only the operation that was executed is taken back.
altalldequeueOne(u, j) ==
  /\ asend' = [c \in Chan |-> asend[c] \ {<<u, j>>}]
  /\ arecv' = [c \in Chan |-> arecv[c] \ {<<u, j>>}]
  /\ UNCHANGED control

\* altalldequeue of the array of task u, one of whose operations (the j-th) is
\* being executed; altdequeue aborts if one of them is not on its queue.
altalldequeue(u, j) ==
  LET mine == {u} \X DOMAIN posted[u]
      found(i) == LET e == posted[u][i]
                  IN  \/ e.op = "CHANNOP"
                      \/ <<u, i>> \in IF e.op = "CHANSND" THEN asend[e.c] ELSE arecv[e.c]
  IN  /\ asend' = [c \in Chan |-> asend[c] \ mine]
      /\ arecv' = [c \in Chan |-> arecv[c] \ mine]
      /\ control' = IF \A i \in DOMAIN posted[u] : found(i) THEN control ELSE "aborted"

\* amove: a nil source stands for zero bytes.
amove(src) == IF src = nil THEN Zero ELSE src

\* Mutant: the place of the sent value is computed with the old nbuf.
placeOld(c, o, n) == (o + nbuf[c]) % bufsize[c]

\* (c->off + c->nbuf) % c->bufsize
place(c, o, n) == (o + n) % bufsize[c]

\* ++c->off, back to 0 at the end of the buffer.
nextoff(c) == IF off[c] + 1 = bufsize[c] THEN 0 ELSE off[c] + 1

\* altcopy: in is <<value>> if there is a sender.  An empty or unbuffered
\* channel passes the value on; else first receive, then send.
altcopy(c, in, receiving) ==
  IF in # <<>> /\ receiving /\ nbuf[c] = 0
  THEN moved' = [c |-> c, in |-> in, out |-> in] /\ UNCHANGED bufvars
  ELSE LET off1  == IF receiving THEN nextoff(c) ELSE off[c]
           nbuf1 == IF receiving THEN nbuf[c] - 1 ELSE nbuf[c]
       IN  /\ moved' = [c |-> c, in |-> in,
                        out |-> IF receiving THEN <<buf[c][off[c]]>> ELSE <<>>]
           /\ buf' = IF in = <<>> THEN buf
                     ELSE [buf EXCEPT ![c][place(c, off1, nbuf1)] = Head(in)]
           /\ off' = [off EXCEPT ![c] = off1]
           /\ nbuf' = [nbuf EXCEPT ![c] = IF in = <<>> THEN nbuf1 ELSE nbuf1 + 1]
           /\ UNCHANGED bufsize

\* Mutant: the waiter is always told that its first operation was done.
setxaltFirst(u, i) == xalt' = [xalt EXCEPT ![u] = 1]

\* other->xalt[0].xalt = other
setxalt(u, i) == xalt' = [xalt EXCEPT ![u] = i]

\* altexec of operation e of the running task: with a queued partner, chosen
\* at random, whose task is taken off all queues and made ready; or alone.
altexec(e) ==
  \/ \E p \in others(e) :
       LET u == p[1]
           o == posted[u][p[2]]
       IN  /\ altcopy(e.c, <<amove(IF e.op = "CHANSND" THEN e.v ELSE o.v)>>, TRUE)
           /\ altalldequeue(u, p[2])
           /\ setxalt(u, p[2])
           /\ taskready(u)
  \/ /\ others(e) = {}
     /\ altcopy(e.c, IF e.op = "CHANSND" THEN <<amove(e.v)>> ELSE <<>>,
                e.op = "CHANRCV")
     /\ UNCHANGED <<asend, arecv, xalt, taskrunqueue, ready, control>>

\* chanalt up to its switch or its return.
chanalt(r, a, canblock) ==
  LET can == { i \in DOMAIN a : altcanexec(a[i]) }
  IN  /\ Idle(r)
      /\ \/ \E i \in can : altexec(a[i]) /\ UNCHANGED posted
         \/ /\ can = {} /\ ~canblock
            /\ moved' = nothing
            /\ UNCHANGED <<bufvars, altvars, taskrunqueue, ready, control>>
         \/ /\ can = {} /\ canblock
            /\ altqueue(r, a)
            /\ posted' = [posted EXCEPT ![r] = a]
            /\ xalt' = [xalt EXCEPT ![r] = 1]
            /\ taskswitch
            /\ moved' = nothing
            /\ UNCHANGED <<bufvars, taskrunqueue, ready>>
      /\ UNCHANGED taskrunning

\* chanalt after its switch: it returns a[0].xalt - a.
chanaltresume(r) ==
  /\ Running(r) /\ posted[r] # <<>>
  /\ posted' = [posted EXCEPT ![r] = <<>>]
  /\ xalt' = [xalt EXCEPT ![r] = 1]
  /\ moved' = nothing
  /\ UNCHANGED <<schedvars, bufvars, asend, arecv>>

\* The client gives up the CPU between two operations.
taskyield(r) ==
  Idle(r) /\ yieldcpu(r) /\ moved' = nothing /\ UNCHANGED <<bufvars, altvars>>

taskscheduler ==
  (runnext \/ norunnable) /\ moved' = nothing /\ UNCHANGED <<bufvars, altvars>>

Terminated == Ended /\ UNCHANGED vars

Step(r) ==
  \/ \E a \in Offers, canblock \in BOOLEAN : chanalt(r, a, canblock)
  \/ chanaltresume(r) \/ taskyield(r)

Next == taskscheduler \/ (\E r \in Task : Step(r)) \/ Terminated

Spec == Init /\ [][Next]_vars

-----------------------------------------------------------------------------

\* Tasks suspended in chanalt for which nobody has executed an operation.
Blocked(t) == posted[t] # <<>> /\ t \notin ToSet(taskrunqueue) /\ ~Running(t)

\* Types, and: the Alts live on their tasks' stacks: a channel's queues hold exactly the
\* operations of the tasks that are still blocked, so none is left behind
\* when chanalt returns and its array goes out of scope, a task is made ready
\* once however many of its operations could be executed, and "cannot find
\* self in altdq" (channel.c:123) is never reached.
NoDanglingAlt ==
  /\ TypeOK /\ QueueOK /\ control # "aborted"
  /\ ~Ended => \A c \in Chan :
       LET on(op) == UNION { { <<t, i>> : i \in { j \in DOMAIN posted[t] :
                                 posted[t][j].op = op /\ posted[t][j].c = c } } :
                             t \in { u \in Task : Blocked(u) } }
       IN  asend[c] = on("CHANSND") /\ arecv[c] = on("CHANRCV")

\* What a resumed chanalt will return is the operation whose data moved: its
\* channel, its direction and, for a send, its value.
ResultIsTransfer ==
  [][\A t \in Task : Blocked(t) /\ ~Blocked(t)' =>
       LET e == posted[t][xalt'[t]]
       IN  /\ moved'.c = e.c
           /\ IF e.op = "CHANSND" THEN moved'.in = <<amove(e.v)>>
                                  ELSE e.op = "CHANRCV" /\ moved'.out # <<>>]_vars

\* Nobody waits in vain: receivers only on an empty channel and senders only on
\* a full one, never both, unless one task offers both itself.
NoMissedPartner ==
  \A c \in Chan :
    /\ arecv[c] # {} => nbuf[c] = 0
    /\ asend[c] # {} => nbuf[c] = bufsize[c]
    /\ \A s \in asend[c], r \in arecv[c] : s[1] = r[1]

\* The values inside a channel, oldest first.
Contents(c) == [ i \in 1 .. nbuf[c] |-> buf[c][(off[c] + i - 1) % bufsize[c]] ]

\* Ring buffer, direct copy and slide (receive, then let a queued sender in)
\* together are a bounded FIFO queue.
Fifo == INSTANCE ChanFifo WITH
          size <- bufsize, contents <- [c \in Chan |-> Contents(c)]

FifoSpec == Fifo!Spec

=============================================================================
