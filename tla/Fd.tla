--------------------------------- MODULE Fd ---------------------------------
(***************************************************************************)
(* fd.c: the task fdtask that waits in epoll_wait for file descriptors and *)
(* timers when nobody else can run, taskdelay, fdwait and the fdread and   *)
(* fdwrite loops on top of it.                                             *)
(*                                                                         *)
(* Time is a bounded clock of TICKS ticks per millisecond, so the integer  *)
(* division that turns nanoseconds into epoll_wait's milliseconds loses    *)
(* something.  The kernel (epoll, the descriptors, the clock and signals)  *)
(* is modelled from how fd.c uses it.                                      *)
(***************************************************************************)
EXTENDS Sched

CONSTANTS
  fdt,       \* the Task structure of fdtask; the other tasks are clients
  Fd,        \* open file descriptors
  Uses,      \* what each client does with which descriptor: <<fd, call>>
  MAXFD,     \* length of epoll_recv_events
  TICKS,     \* clock ticks per millisecond
  MAXMS,     \* fdtask sleeps at most this long (5000)
  Delays,    \* arguments of taskdelay, in milliseconds
  MaxNow     \* bound of the clock; no alarm is set behind it

\* The calls: fdwait by its rw, "r", "w", or "e" for anything else.
Calls == {"fdread", "fdread1", "fdwrite", "r", "w", "e"}

Client == Task \ {fdt}

\* An epoll_event in the epoll set.
Registration == [events : SUBSET {"in", "out"}, ptr : Client]

ASSUME FdAssumption ==
  /\ fdt \in Task /\ IsFiniteSet(Fd) /\ nil \notin Nat /\ nil \notin Registration
  /\ Uses \in [Task -> SUBSET (Fd \X Calls)]
  /\ MAXFD \in Nat \ {0} /\ TICKS \in Nat \ {0} /\ MAXMS \in Nat \ {0}
  /\ Delays \subseteq Nat /\ MaxNow \in Nat

VARIABLES
  startedfdtask,     \* int startedfdtask
  sleeping,          \* Tasklist sleeping, as a sequence
  sleepingcounted,   \* int sleepingcounted
  alarmtime,         \* t->alarmtime
  taskcount,         \* int taskcount
  system,            \* the tasks with t->system
  gone,              \* the tasks that have exited
  pc,                \* the call a task is in
  io,                \* that call's descriptor, direction and bytes left
  ran,               \* tasknswitch - n - 1 of fdtask's taskyield
  timeout,           \* when epoll_wait gives up, nil for ms = -1
  reg,               \* the epoll set: what is registered for each descriptor
  avail,             \* what each descriptor can do now: "in", "out", "hup"
  now                \* nsec()

sleepvars  == <<sleeping, sleepingcounted, alarmtime>>
lifevars   == <<taskcount, system, gone>>
pollvars   == <<startedfdtask, ran, timeout>>
kernelvars == <<reg, avail, now>>
vars == <<schedvars, sleepvars, lifevars, pollvars, pc, io, kernelvars>>

NoIo == [fd |-> nil, rw |-> nil, call |-> nil, left |-> 0]

TypeOK ==
  /\ SchedTypeOK
  /\ startedfdtask \in BOOLEAN
  /\ sleeping \in Seq(Client)
  /\ sleepingcounted \in 0 .. Cardinality(Client)
  /\ alarmtime \in [Task -> 0 .. MaxNow]
  /\ taskcount \in 0 .. Cardinality(Task) + 1
  /\ system \in SUBSET Task /\ gone \in SUBSET Client
  /\ pc \in [Task -> {"run", "io", "fdwait", "delay", "start", "yield", "poll"}]
  /\ io \in [Task -> [fd : Fd \cup {nil}, rw : {"r", "w", "e", nil},
                      call : Calls \cup {nil},
                      left : 0 .. 2]]
  /\ ran \in 0 .. Cardinality(Client)
  /\ timeout \in Nat \cup {nil}
  /\ reg \in [Fd -> Registration \cup {nil}]
  /\ avail \in [Fd -> SUBSET {"in", "out", "hup"}]
  /\ now \in 0 .. MaxNow

\* taskmain has created the clients; fdtask exists once it is needed.
Init ==
  /\ taskrunqueue \in SetToSeqs(Client)
  /\ taskrunning = nil
  /\ ready = [t \in Task |-> t # fdt]
  /\ control = "sched"
  /\ startedfdtask = FALSE
  /\ sleeping = <<>> /\ sleepingcounted = 0
  /\ alarmtime = [t \in Task |-> 0]
  /\ taskcount = Cardinality(Client)
  /\ system = {} /\ gone = {}
  /\ pc = [t \in Task |-> IF t = fdt THEN "start" ELSE "run"]
  /\ io = [t \in Task |-> NoIo]
  /\ ran = 0 /\ timeout = nil
  /\ reg = [f \in Fd |-> nil]
  /\ avail = [f \in Fd |-> {}]
  /\ now = 0

Idle(r) == Running(r) /\ pc[r] = "run"

-----------------------------------------------------------------------------
(***************************************************************************)
(* The kernel.                                                             *)
(***************************************************************************)

\* Time passes, and a descriptor becomes readable, writable or is hung up.
Tick == now < MaxNow /\ now' = now + 1 /\ UNCHANGED <<reg, avail>>

Arrive ==
  \E f \in Fd, e \in {"in", "out", "hup"} :
    /\ e \notin avail[f]
    /\ avail' = [avail EXCEPT ![f] = @ \cup {e}]
    /\ UNCHANGED <<reg, now>>

Kernel ==
  /\ ~Ended
  /\ Tick \/ Arrive
  /\ UNCHANGED <<schedvars, sleepvars, lifevars, pollvars, pc, io>>

\* What epoll_wait reports: level triggered; a hang-up is always reported.
Reported == { f \in Fd : reg[f] # nil /\ avail[f] \cap (reg[f].events \cup {"hup"}) # {} }

-----------------------------------------------------------------------------
(***************************************************************************)
(* fdtask.                                                                 *)
(***************************************************************************)

\* if(!startedfdtask) prepare_fdtask(): the calls that taskcreate makes for
\* fdtask, in the middle of taskdelay or fdwait.
prepare_fdtask ==
  /\ startedfdtask' = TRUE
  /\ IF startedfdtask THEN UNCHANGED <<taskrunqueue, ready>> ELSE taskready(fdt)
  /\ UNCHANGED <<ran, timeout>>

\* What prepare_fdtask adds to taskcount.
created == IF startedfdtask THEN 0 ELSE 1

\* prepare_fdtask when epoll_create or taskcreate's malloc fails: exit or abort.
prepare_failed(r) ==
  /\ Running(r) /\ pc[r] \in {"run", "io"} /\ ~startedfdtask
  /\ startedfdtask' = TRUE
  /\ control' \in {"exited", "aborted"}
  /\ UNCHANGED <<taskrunqueue, taskrunning, ready, sleepvars, lifevars, ran, timeout,
                 pc, io, kernelvars>>

\* fdtask's first steps: tasksystem(), then taskyield().
fdtaskstart ==
  /\ Running(fdt) /\ pc[fdt] = "start"
  /\ system' = system \cup {fdt}
  /\ taskcount' = taskcount - 1
  /\ pc' = [pc EXCEPT ![fdt] = "yield"]
  /\ ran' = 0
  /\ yieldcpu(fdt)
  /\ UNCHANGED <<sleepvars, gone, startedfdtask, timeout, io, kernelvars>>

\* taskyield() returned 0.
idlenow == ran = 0

\* while(taskyield() > 0): others ran, so let everyone run again.
fdtaskyield ==
  /\ Running(fdt) /\ pc[fdt] = "yield" /\ ~idlenow
  /\ ran' = 0
  /\ yieldcpu(fdt)
  /\ UNCHANGED <<sleepvars, lifevars, startedfdtask, timeout, pc, io, kernelvars>>

\* Mutant: with no alarm in reach, wait without a timeout.
longestNone == nil

\* The 5 s that fdtask waits at most while somebody sleeps.
longest == now + MAXMS * TICKS

\* The ms given to epoll_wait, as the moment at which it runs out.
polltimeout ==
  IF sleeping = <<>> THEN nil
  ELSE LET alarm == alarmtime[Head(sleeping)]
       IN  IF now >= alarm THEN now
           ELSE IF now + MAXMS * TICKS >= alarm
                THEN now + ((alarm - now) \div TICKS) * TICKS
                ELSE longest

\* nsec(), the timeout and the call of epoll_wait.  The time between the two
\* calls, by which the wait begins later, is taken as none.
fdtaskpoll ==
  /\ Running(fdt) /\ pc[fdt] = "yield" /\ idlenow
  /\ timeout' = polltimeout
  /\ pc' = [pc EXCEPT ![fdt] = "poll"]
  /\ UNCHANGED <<schedvars, sleepvars, lifevars, startedfdtask, ran, io, kernelvars>>

\* Mutant: every expired sleeper lowers taskcount.
uncountAll(n) ==
  /\ sleepingcounted' = sleepingcounted - n
  /\ taskcount' = taskcount - n

\* n sleepers that are not system tasks leave: the last one lowers taskcount.
uncount(n) ==
  /\ sleepingcounted' = sleepingcounted - n
  /\ taskcount' = IF n > 0 /\ sleepingcounted = n THEN taskcount - 1 ELSE taskcount

\* Mutant: an alarm rings one tick early.
expiredEarly ==
  SelectInSeq(sleeping \o <<fdt>>, LAMBDA t : t = fdt \/ now + 1 < alarmtime[t]) - 1

\* How many tasks the loop at the end of fdtask takes from the list: it stops
\* at the first alarm that lies ahead (fdt never sleeps and ends the search).
expired ==
  SelectInSeq(sleeping \o <<fdt>>, LAMBDA t : t = fdt \/ now < alarmtime[t]) - 1

\* epoll_wait returns with up to MAXFD events, in any order, or because its
\* time is up; fdtask readies their tasks, then the expired sleepers, and
\* yields.
fdtaskwake ==
  /\ Running(fdt) /\ pc[fdt] = "poll"
  /\ Reported = {} => timeout # nil /\ now >= timeout
  /\ \E fs \in SUBSET Reported :
       /\ Cardinality(fs) = Min({MAXFD, Cardinality(Reported)})
       /\ \E evs \in SetToSeqs(fs) :
            LET late == SubSeq(sleeping, 1, expired)
                up   == [ i \in DOMAIN evs |-> reg[evs[i]].ptr ] \o late \o <<fdt>>
            IN  /\ taskreadyeach(up)
                /\ uncount(Cardinality(ToSet(late) \ system))
  /\ sleeping' = SubSeq(sleeping, expired + 1, Len(sleeping))
  /\ taskswitch
  /\ pc' = [pc EXCEPT ![fdt] = "yield"]
  /\ ran' = 0
  /\ timeout' = nil
  /\ UNCHANGED <<taskrunning, alarmtime, system, gone, startedfdtask, io, kernelvars>>

\* A signal interrupts epoll_wait, which returns -1.  The test retval == EINTR
\* (4) fails, so the next branch runs: taskexitall(0).
fdtaskeintr ==
  /\ Running(fdt) /\ pc[fdt] = "poll"
  /\ control' = "exited"
  /\ UNCHANGED <<taskrunqueue, taskrunning, ready, sleepvars, lifevars, pollvars,
                 pc, io, kernelvars>>

-----------------------------------------------------------------------------
(***************************************************************************)
(* Calls of the clients.                                                   *)
(***************************************************************************)

\* The test !t->system of taskdelay.
counted(r) == r \notin system

\* taskdelay: start fdtask if need be, join the sorted list, switch.
taskdelay(r, ms) ==
  LET when == now + ms * TICKS
      first == IF counted(r) /\ sleepingcounted = 0 THEN 1 ELSE 0
  IN  /\ Idle(r) /\ when <= MaxNow
      /\ prepare_fdtask
      /\ alarmtime' = [alarmtime EXCEPT ![r] = when]
      /\ sleeping' = delaytask(sleeping, r, alarmtime')
      /\ sleepingcounted' = IF counted(r) THEN sleepingcounted + 1 ELSE sleepingcounted
      /\ taskcount' = taskcount + created + first
      /\ pc' = [pc EXCEPT ![r] = "delay"]
      /\ taskswitch
      /\ UNCHANGED <<taskrunning, system, gone, io, kernelvars>>

\* taskdelay after its switch; it returns nsec() - now in milliseconds.
taskdelayresume(r) ==
  /\ Running(r) /\ pc[r] = "delay"
  /\ pc' = [pc EXCEPT ![r] = "run"]
  /\ UNCHANGED <<schedvars, sleepvars, lifevars, pollvars, io, kernelvars>>

\* Mutant: the case 'w' is missing.
addedmaskRead(rw) == IF rw = "r" THEN {"in"} ELSE {}

\* addedmask.  oldmask is 0 in every call: nothing sets the two high bits of
\* *fd that it is read from, so the operation is EPOLL_CTL_ADD.
addedmask(rw) == CASE rw = "r" -> {"in"} [] rw = "w" -> {"out"} [] OTHER -> {}

\* fdwait up to its switch, called for the I/O call o: ADD of a descriptor
\* that is registered already fails and ends the process.
fdwait(r, o) ==
  LET mask == addedmask(o.rw)
  IN  /\ prepare_fdtask
      /\ taskcount' = taskcount + created
      /\ io' = [io EXCEPT ![r] = o]
      /\ pc' = [pc EXCEPT ![r] = "fdwait"]
      /\ IF mask # {} /\ reg[o.fd] # nil
         THEN control' = "exited" /\ UNCHANGED reg
         ELSE /\ taskswitch
              /\ reg' = IF mask = {} THEN reg
                        ELSE [reg EXCEPT ![o.fd] = [events |-> mask, ptr |-> r]]
      /\ UNCHANGED <<taskrunning, sleepvars, system, gone, avail, now>>

\* Mutant: the descriptor stays registered.
unregisterNot(f) == UNCHANGED <<reg, control>>

\* EPOLL_CTL_DEL, which ends the process if f is not registered.
unregister(f) ==
  /\ reg' = [reg EXCEPT ![f] = nil]
  /\ control' = IF reg[f] = nil THEN "exited" ELSE control

\* fdwait after its switch; a caller in an I/O loop then tries again.
fdwaitresume(r) ==
  /\ Running(r) /\ pc[r] = "fdwait"
  /\ IF addedmask(io[r].rw) = {} THEN UNCHANGED <<reg, control>>
                                 ELSE unregister(io[r].fd)
  /\ IF io[r].call \in {"r", "w", "e"}
     THEN pc' = [pc EXCEPT ![r] = "run"] /\ io' = [io EXCEPT ![r] = NoIo]
     ELSE pc' = [pc EXCEPT ![r] = "io"] /\ UNCHANGED io
  /\ UNCHANGED <<taskrunqueue, taskrunning, ready, sleepvars, lifevars, pollvars,
                 avail, now>>

\* The I/O call r is in returns to the client.
ioreturn(r) ==
  /\ pc' = [pc EXCEPT ![r] = "run"]
  /\ io' = [io EXCEPT ![r] = NoIo]

\* read() and write() in the loops of fdread, fdread1 and fdwrite: what they
\* need of the descriptor, and what they may use up.
wanted(rw) == CASE rw = "r" -> {"in"} [] rw = "w" -> {"out"} [] OTHER -> {}

possible(o) == avail[o.fd] \cap (wanted(o.rw) \cup {"hup"}) # {}

used(o) ==
  \E a \in {avail[o.fd], avail[o.fd] \ wanted(o.rw)} :
    avail' = [avail EXCEPT ![o.fd] = a]

\* fdread, fdread1: data, an end of file or an error is returned.
doread(r) ==
  /\ Running(r) /\ pc[r] = "io" /\ io[r].rw = "r"
  /\ possible(io[r])
  /\ used(io[r])
  /\ ioreturn(r)
  /\ UNCHANGED <<schedvars, sleepvars, lifevars, pollvars, reg, now>>

\* fdwrite: some bytes are written; an error or 0 ends the loop early.
dowrite(r) ==
  /\ Running(r) /\ pc[r] = "io" /\ io[r].rw = "w"
  /\ possible(io[r])
  /\ used(io[r])
  /\ \/ ioreturn(r)
     \/ \E m \in 1 .. io[r].left - 1 :
          io' = [io EXCEPT ![r].left = @ - m] /\ UNCHANGED pc
  /\ UNCHANGED <<schedvars, sleepvars, lifevars, pollvars, reg, now>>

\* EAGAIN: wait, then try again.
ioagain(r) ==
  /\ Running(r) /\ pc[r] = "io"
  /\ ~possible(io[r])
  /\ fdwait(r, io[r])

\* The direction of a call.
rwof(call) == CASE call \in {"fdread", "fdread1", "r"} -> "r"
                [] call \in {"fdwrite", "w"} -> "w"
                [] OTHER -> "e"

\* The client calls fdread or fdwrite, which begin with the I/O, ...
iocall(r) ==
  /\ Idle(r)
  /\ \E u \in Uses[r] :
       /\ u[2] \in {"fdread", "fdwrite"}
       /\ pc' = [pc EXCEPT ![r] = "io"]
       /\ io' = [io EXCEPT ![r] = [fd |-> u[1], rw |-> rwof(u[2]), call |-> u[2],
                                   left |-> IF u[2] = "fdwrite" THEN 2 ELSE 0]]
  /\ UNCHANGED <<schedvars, sleepvars, lifevars, pollvars, kernelvars>>

\* ... or fdread1 or fdwait, which begin with the wait.
waitcall(r) ==
  /\ Idle(r)
  /\ \E u \in Uses[r] :
       /\ u[2] \notin {"fdread", "fdwrite"}
       /\ fdwait(r, [fd |-> u[1], rw |-> rwof(u[2]), call |-> u[2], left |-> 0])

\* task.c, called by clients.
taskyield(r) ==
  Idle(r) /\ yieldcpu(r) /\ UNCHANGED <<sleepvars, lifevars, pollvars, pc, io, kernelvars>>

tasksystem(r) ==
  /\ Idle(r) /\ r \notin system
  /\ system' = system \cup {r}
  /\ taskcount' = taskcount - 1
  /\ UNCHANGED <<schedvars, sleepvars, gone, pollvars, pc, io, kernelvars>>

\* taskexit and the scheduler's part of it.
taskexit(r) ==
  /\ Idle(r)
  /\ gone' = gone \cup {r}
  /\ taskcount' = IF r \in system THEN taskcount ELSE taskcount - 1
  /\ taskswitch
  /\ UNCHANGED <<taskrunqueue, taskrunning, ready, sleepvars, system, pollvars, pc, io,
                 kernelvars>>

\* taskscheduler; a dispatch of another task is counted by tasknswitch.
taskscheduler ==
  /\ IF taskcount = 0
     THEN /\ control = "sched" /\ control' = "exited"
          /\ UNCHANGED <<taskrunqueue, taskrunning, ready, ran>>
     ELSE \/ norunnable /\ UNCHANGED ran
          \/ /\ runnext
             /\ ran' = IF pc[fdt] = "yield" /\ taskrunning' # fdt THEN ran + 1 ELSE ran
  /\ UNCHANGED <<sleepvars, lifevars, startedfdtask, timeout, pc, io, kernelvars>>

Terminated == Ended /\ UNCHANGED vars

fdtask == fdtaskstart \/ fdtaskyield \/ fdtaskpoll \/ fdtaskwake

Step(r) ==
  \/ (\E ms \in Delays : taskdelay(r, ms)) \/ taskdelayresume(r) \/ prepare_failed(r)
  \/ iocall(r) \/ waitcall(r) \/ fdwaitresume(r)
  \/ doread(r) \/ dowrite(r) \/ ioagain(r)
  \/ taskyield(r) \/ tasksystem(r) \/ taskexit(r)

CPU == taskscheduler \/ fdtask \/ \E r \in Client : Step(r)

Next == CPU \/ fdtaskeintr \/ Kernel \/ Terminated

(***************************************************************************)
(* The kernel thread executes whatever it can, epoll_wait returns once it  *)
(* has a reason to, and time goes on.  Nothing arrives by obligation.      *)
(***************************************************************************)
Spec == Init /\ [][Next]_vars /\ WF_vars(CPU) /\ WF_vars(Kernel /\ now' # now)

-----------------------------------------------------------------------------

\* The client tasks that count as users, and fdtask until it is a system task.
Users == Task \ (gone \cup system \cup (IF startedfdtask THEN {} ELSE {fdt}))

\* The wait in epoll_wait, which stops the whole process, is at nobody's cost:
\* no task at all could run instead, and it does not sleep through an alarm.
\* Whatever the sorted insertion, the truncation to milliseconds and the limit
\* of 5 s make of it, its timeout is over as soon as any sleeper, not only the
\* first, is due.
PollHarmless ==
  pc[fdt] = "poll" =>
    /\ taskrunqueue = <<>>
    /\ \A t \in ToSet(sleeping) : now >= alarmtime[t] => timeout # nil /\ now >= timeout

\* Types, and: taskcount is the number of users, plus one as long as a user sleeps, and
\* sleepingcounted is the number of users on the list.
CountOK ==
  /\ TypeOK
  /\ ~Ended =>
    /\ sleepingcounted = Cardinality(ToSet(sleeping) \ system)
    /\ taskcount = Cardinality(Users) + (IF sleepingcounted > 0 THEN 1 ELSE 0)

\* Where a client is.
Places(t) ==
  { p \in {"queue", "sleeping", "cpu"} :
      \/ p = "queue" /\ t \in ToSet(taskrunqueue)
      \/ p = "sleeping" /\ t \in ToSet(sleeping)
      \/ p = "cpu" /\ Running(t) }

\* Timers and descriptors never meet: a task is on the run queue, on the
\* sleeping list or running, on one of them once, and if on none, then it
\* waits in fdwait and epoll knows it.  A registration belongs to a task that
\* is inside fdwait for it.
OnePlace ==
  /\ QueueOK /\ IsInjective(sleeping)
  /\ ~Ended => \A t \in Client \ gone :
       \/ Cardinality(Places(t)) = 1
       \/ /\ Places(t) = {} /\ pc[t] = "fdwait"
          /\ \E f \in Fd : reg[f] # nil /\ reg[f].ptr = t
  /\ ~Ended => \A f \in Fd : reg[f] # nil =>
       pc[reg[f].ptr] = "fdwait" /\ io[reg[f].ptr].fd = f

\* taskscheduler ends the program only when every user task has exited: not
\* while one sleeps or waits for a descriptor.
EndsOnlyWhenDone ==
  [][ control = "sched" /\ control' = "exited" => Client \subseteq gone \cup system ]_vars

\* README, taskdelay: "give up the CPU for at least ms milliseconds".
DelayAtLeast ==
  [][ \A t \in Client : pc[t] = "delay" /\ pc'[t] = "run" => now >= alarmtime[t] ]_vars

\* README, fdread and fdwrite: the call "puts task to sleep while waiting"; once
\* fdtask is started it does not end the program, as a failing epoll_ctl would.
IoNeverFatal ==
  [][ control = "task" /\ startedfdtask /\ Ended' => taskrunning = fdt ]_vars

\* fd.c:67: an epoll_wait that a signal interrupts is started again.
SignalsHarmless == [][ pc[fdt] = "poll" => control' # "exited" ]_vars

\* fdtask keeps getting to epoll_wait.  It gets there only when all others are
\* blocked, so clients that call taskyield in turn for ever keep it away.
Polls == []<>(pc[fdt] = "poll")

\* A sleeper's alarm rings, if the clients let fdtask poll.
SleeperWakes ==
  Polls => \A t \in Client : t \in ToSet(sleeping) ~> (t \notin ToSet(sleeping) \/ Ended)

\* README, fdwait: a task that waits for a descriptor gets the CPU back when
\* its I/O is possible or the descriptor is hung up, in every mode.
WaiterWakes ==
  Polls => \A t \in Client :
    (pc[t] = "fdwait" /\ possible(io[t])) ~> (pc[t] # "fdwait" \/ Ended)

=============================================================================
