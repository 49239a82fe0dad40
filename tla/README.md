# A TLA+ model of libtask

libtask is a library of cooperative coroutines ("tasks") on one kernel thread.
This directory models its scheduler, locks, condition variables, channels,
timers, non-blocking and network I/O, and its SIGQUIT listing, checks them with TLC on small
instances, and proves with TLAPS, for every number of tasks, the safety of the
scheduler, the locks, the condition variables, the channels, the timers, the
non-blocking I/O and the network calls, two refinements of abstract specifications,
and what `parseip` and the start of a task compute.

## The system

All state is global and belongs to one kernel thread.  The thread executes
either the code of the running task or the loop of `taskscheduler`; a task keeps
the CPU until it calls something that ends in `taskswitch`.  The only other
actors are the kernel (clock, descriptors, epoll) and the SIGQUIT handler.  What
is hard is therefore not preemption but *suspension*: every blocking call is cut
in two by `taskswitch`, any number of other calls happen between the halves, and
the second half relies on what the others left behind.

| part (source) | state | operations | interacts through |
|---|---|---|---|
| lists (`task.c` addtask, deltask) | `next`, `prev` of every task, `head`, `tail` of every list | append, unlink; `taskdelay` inserts by itself | used by all others; one `next`/`prev` pair per task |
| tasks, scheduler (`task.c`) | `taskrunqueue`, `taskrunning`, `alltask[]`, `alltaskslot`, `taskcount`, `tasknswitch`, `taskexitval` | `taskcreate`, `tasksystem`, `taskyield`, `taskexit`, `taskexitall`, `taskready`, `taskswitch`, `taskscheduler` | `taskready`/`taskswitch` are how every other part wakes and blocks |
| queuing locks (`qlock.c`) | `owner`, `waiting` | `qlock`, `canqlock`, `qunlock` | used by `tasksleep` |
| reader-writer locks (`qlock.c`) | `readers`, `writer`, `rwaiting`, `wwaiting` | `rlock`, `wlock`, their `can` forms, `runlock`, `wunlock` | |
| condition variables (`rendez.c`) | `l`, `waiting` | `tasksleep`, `taskwakeup`, `taskwakeupall` | release and retake the lock `l` |
| channels (`channel.c`) | ring buffer, queues of `Alt`s that lie on the stacks of suspended tasks | `chanalt` and the send and receive calls made from it | direct access to other tasks' stacks |
| timers, I/O (`fd.c`) | `sleeping`, `sleepingcounted`, epoll set | `taskdelay`, `fdwait`, `fdread`, `fdread1`, `fdwrite`, the task `fdtask` | changes `taskcount`; polls only when `taskyield` returns 0 |
| network (`net.c`) | none of its own; sockets, `errno` | `netannounce`, `netaccept`, `netdial`, `netlookup` with `parseip` | one `fdwait` each |
| listing (`task.c` taskinfo) | none of its own | a signal handler | reads `alltask[]` and the names between any two stores |
| printing (`print.c`) | the caller's buffer | `vseprint` and what is made from it | `taskname`, `taskstate`; `fprint` in the handler |
| start of a task (`task.c`, `context.c`) | its first registers | `makecontext`, `taskstart`, `needstack` | the address of the task, in two arguments |
| register save and restore, examples | | | not modelled |

What makes each part correct:

* lists: the pointer code behaves like sequences as long as no task is on two
  lists, and nothing in the library puts one there;
* scheduler: the table and the slots agree, the count is exact, no task is lost
  or queued twice, `taskyield`'s result is right, ready tasks run, the program
  ends when and only when it should;
* locks: exclusion from the moment of the grant, not of the resumption; no lost
  hand-over; arrival order (QLock); no starvation;
* channels: no `Alt` survives the call that owns it, no possible transfer is
  missed, data moves in FIFO order, `chanalt` reports the operation that was done;
* timers and I/O: the process blocks only when nobody can run, never past an
  alarm; no alarm rings early; waits end when I/O is possible;
* network: no path loses a descriptor, `netdial` reports the outcome of its own
  attempt, and it dials the address that its argument stands for;
* listing and printing: the handler finds live tasks and terminated strings, and
  nothing is written behind a buffer;
* start of a task: the address arrives whole, the stack pointer is inside the stack.

The hazards are listed at their source lines in `PROJECT.json`.

## Modules

| module | models |
|---|---|
| `TaskSeq` | a Tasklist as a sequence: `addtask`, `deltask`, `delaytask` |
| `Tasklist`, `TaskLists`, `MCTasklist` | the same at pointer level; the abstract specification it refines; the instance |
| `Sched` | run queue, running task, `taskready`, `taskswitch`, dispatch: the base of all the following |
| `Task` | life of a task, `alltask[]`, `taskcount`, `taskyield`'s count, the scheduler |
| `QLock`, `FifoLock` | queuing locks; the abstract lock they refine |
| `Rendez` | condition variables over `QLock` (composition; this is the module that is run) |
| `RWLock` | reader-writer locks |
| `Channel`, `ChanFifo`, `MCChannel` | channels; the abstract bounded FIFO they refine |
| `Fd`, `MCFd` | `fdtask`, timers, `fdwait` and the I/O loops, with an external kernel |
| `Parseip` | `parseip`, with the meaning of a name as a reference |
| `Net`, `MCNet` | `netannounce`, `netaccept`, `netdial` over `Fd` (composition), with an external network |
| `Format` | `vseprint` and `printstr`: lengths and digits |
| `TaskInfo`, `MCTaskInfo` | the SIGQUIT handler over `Format`, with `taskcreate`, the removal of a task and `taskname` store by store |
| `Context` | the arithmetic of `taskalloc`, `taskstart` and `makecontext` |
| `SchedProofs` | lemmas about the list operators and the run queue |
| `TasklistProofs`, `TaskProofs`, `RWLockProofs`, `RendezProofs`, `ChannelProofs`, `FdNetProofs`, `TaskInfoProofs` | proofs about `Tasklist`, `Task`, `RWLock`, `QLock` and `Rendez`, `Channel`, `Fd` with `Parseip` and `Net`, `TaskInfo` and `Context` |

Variables and actions carry the names of the C code.  An action is the part of a
function between two switches, which the kernel thread executes without anyone
else touching the state; a function that blocks is two actions (`qlock` and
`qlockresume`, `chanalt` and `chanaltresume`, ...).  The client's code is
unknown, so the running task may make any call; where the code needs discipline
from its clients, the guards say so:

* locks: unlock only what you hold, do not block on what you hold, hold nothing
  at exit; `tasksleep` is called with the lock held;
* `Fd`: the constant `Uses` says which descriptors a client uses and how;
* `Net`: a descriptor is used only by the task that a call returned it to.

Abstractions worth knowing:

* `Task` knows blocking primitives only as `Park` and `Wake`; the other modules
  know the scheduler only as `runnext` and `norunnable` of `Sched`.
* Both choices of `chanalt` are `rand()`, so an `Altarray` is a set.
* `Fd` replaces `tasknswitch - n - 1` by the number `ran` of dispatches since
  `fdtask` yielded; that the two are equal is `YieldExact` of `Task`.
* In `fdwait` the saved mask is read from two high bits of `*fd` that nothing in
  the library sets, so `oldmask` is 0 and the `EPOLL_CTL_MOD` arms are dead.
* The comment of `addtask` (task.c:387) says "head of the list"; the code appends
  at the tail, and `ReadyRuns` needs that.
* `TaskInfo` is the one module below the grain of a whole operation.  The handler
  runs to its end while the program waits, so it is one step; the stores of
  `alltask[nalltask++] = t` and of `alltask[i] = alltask[--nalltask]` may come in
  either order, as the variables are not volatile.  A buffer is the set of places
  that hold a NUL, a string argument is its length.  What the text of a format should
  be is defined apart from `vseprint`, from what `printf` does (section "What printf of
  the C library prints" of `TaskInfo`).
* `fdtaskpoll` has `nsec()` and `epoll_wait` in one step: the time between the two
  calls, by which a poll may end after the alarm it was meant for, is taken as none.
* `epoll_ctl` fails for the reasons that depend on the library's state, EEXIST and
  ENOENT.
* In `Net` a `connect` that succeeds at once is one that the network decides in its
  next step; a failing `accept`, `bind` or `socket` is a choice.
* `parseip` gets the uninitialised bytes of `addr[]` as a parameter.
* The comment of `taskcount` (task.c:8) says that it is the number of tasks
  without the system tasks; `fd.c` adds one while a user task sleeps (`CountOK` of `Fd`).

## Runs

| run | instance | shows |
|---|---|---|
| `task` | 3 task addresses, chunk 2, counter modulo 4 | table, count, queue, `taskyield`, end of the program; ready tasks run; the last exit ends the process with its status |
| `tasklist` | 4 tasks, 2 lists, 2 alarm times | the pointer code refines `TaskLists`; both chains agree |
| `siginfo` | 3 task addresses, 2 blocks, chunk 2, names of 5 bytes, 4-bit ints, 6-bit uvlongs | the listing is safe outside three windows; printing keeps its bounds, and cuts a text only there; the digits are those of `printf` |
| `rendez` | 3 tasks, 2 locks, 1 Rendez tied to either lock or none | exclusion, hand-over, one list per task, refinement of `FifoLock`, no stall, blocked calls return |
| `rwlock` | 4 tasks | exclusion, counts, no lost wake-up, no starvation |
| `channel` | 3 tasks; sizes (0, 2) or (1, 0); single operations and four alternatives | no dangling `Alt`, no missed partner, right result, refinement of `ChanFifo` |
| `fd` | 2 clients, one of them with a descriptor, all calls, hang-ups; clock to 4 with 2 ticks per ms, limit 1 ms | counts, polls at nobody's cost, no early alarm, none slept through; no task in two places, I/O is noticed |
| `net` | 2 clients, 2 descriptors, 3 names | no descriptor is lost, `netdial` reports its own outcome, calls return, `epoll_ctl` never fails |
| `fd_shared` | a reader and a writer of one descriptor | *violation*: the program ends with EEXIST |
| `fd_signal` | 2 clients with a descriptor each | *violation*: a signal during a poll ends the program |
| `fd_except` | clients that wait with another `rw` | *violation*: they are never woken |
| `print_sign` | as `siginfo`, a name with `%d` of -5 | *violation*: the name has no sign |

The bounds are chosen so that the cases that matter occur.  Three addresses with
chunk 2 make the table grow, shrink and reuse an address; a counter modulo 4 is
the smallest that satisfies the assumption `Cardinality(Task) < NSWITCH` and wraps
in nearly every wait.  Four tasks on an `RWLock` are needed to have a holder,
waiting readers and a waiting writer, and a new arrival.  Buffers of 1 and 2 wrap.
An odd number of ticks to an alarm exercises the truncation to milliseconds, more
than two the 5 s limit (here 1 ms).  `MaxNow` bounds the clock; alarms behind it
are not set.  Two blocks let `realloc` move the table; formats of `siginfo` end
before, at and behind the end of a 5-byte buffer, and hold the smallest and largest
number of each width.  What lies behind a format that ends too early (`Behind`) is
nothing, text, or directives, an unknown and another unfinished one among them.  In
`fd` one descriptor is enough for a wait to race the alarms, a hang-up and the next
wait on it; a third sleeper would only add places to the timer list, which `tasklist`
has with four tasks and the theorems of `FdNetProofs` for any number.  Two
descriptors (`net`) let one client listen or dial while the other
dials, run out of descriptors and reuse a number; the names of `net` are an
abbreviated one, one with a part that wraps around in `int x` and a part too many,
and a host name (the theorems cover all names).

Fairness.  `Task`: weak fairness of `Next`, which says that the thread keeps
executing and that no client computes for ever ("Scheduling is cooperative",
README of the library).  Locks: in addition, a client that gets the CPU again and
again while it holds a lock releases it at last (strong fairness of unlocking);
without this no lock can promise anything.  `Fd`: weak fairness of what the
thread executes, `epoll_wait` returning included, and of the clock; arrivals are
not obliged to happen, and in `Net` the network need not ever decide.
`SleeperWakes`, `WaiterWakes` and `NetReturns` assume that `fdtask`
keeps getting to `epoll_wait`, because clients that yield to each other for ever
really do keep it away (fd.c:44).

## Findings

1. `fdwait` by two tasks on one descriptor (fd.c:158): the mask bits are never
   set, so the second registration is another `EPOLL_CTL_ADD`, fails, and the
   program exits.  `tcpproxy.c` has this pattern.
2. `retval == EINTR` (fd.c:67) can never hold; a signal during `epoll_wait` ends
   the program with status 0 instead of printing the task list and going on.
3. `fdwait` with another `rw` than 'r' and 'w' (fd.c:155) registers nothing, and
   the task sleeps for ever.

4. `vseprint` sets `neg` for a negative number and never uses it (print.c:129-134), so
   `%d` prints no sign, although `taskname` "takes an argument list like printf"
   (README:67).  `NumberText` is what is left of that promise, and holds: but for the
   sign, the text is one that `printf` prints.  It leaves out what the same lines do to
   negative numbers in octal and hexadecimal (the magnitude is printed, where `printf`
   takes the number as unsigned) and to a hexadecimal 0 (`00x`).
5. `taskinfo` is unsafe in three windows (`Window` of `TaskInfo`), although the
   library's README (README:78-80) says of a SIGQUIT only that the program "will print a
   list of all its tasks": between `realloc` and the assignment of its result, after a
   failed `realloc`, and, if the compiler stores the count first, inside
   `alltask[nalltask++] = t`.  No run of its own shows this; `ListingSafe` names the
   windows and shows that there are no others.

Observations that contradict no stated promise, or that leave the meaning open:

* An unknown directive drops the rest of the format (`vseprint` goes on in the
  string "X*verb*"); a format that ends inside a directive is read behind its end.
* `parseip` has no case for class 3: a name such as "200.1" leaves two bytes of the
  address as they were, and an empty name all four.
* `x<<16` in `taskstart` is a 32-bit shift; addresses above 2^48 would be cut.
* `netannounce` calls `getsockopt` with an uninitialised `sn`, so whether
  `SO_REUSEADDR` is set is undefined; the model lets `bind` fail or succeed.

## Proofs

`TaskProofs` proves, for every finite set of tasks, every chunk size and every
counter width larger than the number of tasks (assumptions `TaskAssumption` and
`LifeAssumption`), the safety invariants of `Task`:

* `Invariance`: `Spec => []Inv`, where `Inv` is the conjunction of `TypeOK`,
  `SlotsOK`, `CapacityOK`, `CountOK`, `QueuedAlive` and `NoTaskLost`;
* `TypeCorrect`, `SlotsCorrect`, `CapacityCorrect`, `CountCorrect`, `QueueCorrect`, `NoneLost`: its parts;
* `EndCorrect`: the action property `EndsOnlyWhenDone`.

None of the parts is inductive alone.  The removal from `alltask[]` is right only
if the exiting task is in the table (`QueuedAlive` says that `taskrunning` is) and
its slot is its index (`SlotsOK`); the count is right only if the entry that
disappears is that task's; `CapacityOK` needs the block to be a multiple of the
chunk, or the test `nalltask%64 == 0` could come too late; a task is queued once
only because it is exiting, running, parked or queued but never two of these.
`EndCorrect` needs the count, to know that a count that is not 0 is the only way
to the stall branch, and `NoTaskLost`, to know that an empty queue leaves only
parked tasks.  The argument has one lemma per group of actions (`CreateInv`,
`ReturnInv`, `SystemInv`, `ClientInv`, `SchedInv`), over lemmas about the swap
removal (`SwapOutFacts`, `DelistFacts`) and the queue and the list operators
(`SchedProofs`).

`YieldCorrect` of the same module proves `YieldExact`.  Its invariant `Waiting`
follows the queue while a task waits in `taskyield`: the tasks that were queued
before the call and have not run yet are all in front of it, and `tasknswitch` has
advanced, modulo its width, by the number of the others.  Between the call and the
return each task runs at most once, since who is queued again is behind the caller;
this is where first in, first out is needed, and `Cardinality(Task) < NSWITCH` is
what makes the difference of two wrapped counters exact.

`RWLockProofs` proves, for every finite set of tasks (`TaskAssumption`), the safety
of `RWLock`:

* `Invariance`: `Spec => []Inv`, where `Inv` is the conjunction of `WaitersOK` (in
  its parts `TypeOK`, `QueueOK`, `Listed`, `Placed`), `CountsExact`, `NoLostWakeup`
  and `HeldOK` (a task suspended in a call holds nothing);
* `ExclusionCorrect`, `CountsCorrect`, `WaitersCorrect`, `WakeupCorrect`: the
  invariants of the run `rwlock`.

`RWExclusion` is not inductive: a task that resumes takes the lock without looking,
so what matters is who was granted it.  `CountsExact` says that the counters agree
with the grants, and `Placed` says that a resuming task has left its list, which
is what a grant is.  With the counts, `wunlock` is reached only with the caller as
`writer` and no reader, so it never aborts and the waiters it admits are all there
are (`WunlockInv`, where the count of the admitted readers is the length of their
list because a list has no duplicates: `InjectiveCard`); `runlock` is reached only
with no writer (`RunlockInv`).  Both end in `ReleaseInv`, which says what any unlock
has to establish.

`RendezProofs` proves the safety of `QLock` and `Rendez` together, for all finite
sets of tasks, locks and condition variables (`TaskAssumption`, `LockAssumption`,
`RendezAssumption`: the sets are disjoint):

* `Invariance`: `Inv` is the conjunction of `TypeOK`, `QueueOK`, `MutualExclusion`,
  `LockOK` (a lock with waiters is owned, and not by a waiter), `SleepOK`, `GoneOK`,
  `Apart` (no task is on two lists) and `Placed` (a suspended task is on the list
  of its call, or on the run queue with what it waited for);
* `ExclusionCorrect`, `HandOverCorrect`, `ListsCorrect`, `StallsCorrect`: the
  invariants of the run `rendez`;
* `FifoCorrect`: every step is a step of `FifoLock` or leaves its variables alone.

The lock and the condition variable cannot be separated: `tasksleep` is an unlock
and a lock inside one call, so who owns a lock depends on who was woken.  `HandOver`
is not inductive without `Apart`, because `qunlock` readies the first waiter and
a task that was on the run queue already would be on it twice.  `NeverStalls`
follows from `Placed`: with nothing to run, a task in `qlock` would be on the list
of a lock whose owner is itself suspended, and without nesting that owner holds
nothing.

`ChannelProofs` proves the safety of `Channel`, for every set of tasks, channels,
sizes and offers (`ChanAssumption`):

* `Invariance`: `Inv` has the types, `BufOK` (the ring buffer's indices),
  `QueueOK`, `AltsOK` (queues and blocked tasks agree) and `NoMissedPartner`;
* `NoDanglingAltCorrect`, `NoMissedPartnerCorrect`, `ResultCorrect`: the properties
  of the run `channel`;
* `FifoCorrect`: `Channel` implements `ChanFifo`, under the mapping of the ring
  buffer to the sequence of its values.

`NoMissedPartner` is what makes `altcopy` right: it copies from a sender directly
only if there is no buffer, and a receiver finds a blocked sender only with the
buffer full, so the value that moves into the buffer takes the place that became
free.  The refinement rests on lemmas about the ring buffer (what a receive, a send
and both in one step do to the sequence of its values, at every offset).

`FdNetProofs` proves the safety of `Fd`, for every finite set of clients and
descriptors, every clock and limit (`FdAssumption`):

* `Invariance`: `Inv` is `FdTypeOK`, `QueueOK`, `SleepOK` (the timer list is sorted
  and holds the tasks in `taskdelay`), `LifeOK` (every client is in the place its
  call says), `RegOK` (a registration belongs to a task in `fdwait`), `StartOK`
  (nobody sleeps or waits before `fdtask` exists), `YieldOK`, `PollOK` and `Counts`;
* `PollCorrect`, `CountCorrect`, `DelayCorrect`, `EndsCorrect`: without hypotheses;
* `OnePlaceCorrect` under `KnownModes` (every `fdwait` asks for 'r' or 'w'), and
  `IoCorrect` under `OwnDescriptors` (no two clients use one descriptor).  The two
  hypotheses are about the clients, and are exactly what findings 3 and 1 violate:
  the runs `fd_except` and `fd_shared` show that they cannot be dropped.

`PollHarmless` needs `YieldOK`: while `fdtask` waits in `taskyield`, whoever is
queued in front of it will count as having run, so a result of 0 means an empty
queue.  The truncation to milliseconds and the limit of 5 s only shorten the wait,
and the head of the sorted list is the first alarm (`DelayPlace`, `DelayFacts` for
the insertion in `taskdelay`).  `EndsCorrect` needs the exact `Counts`: the count
of a sleeping user is what keeps the scheduler from ending the process.

It then proves about every name that is of class A or B or has four parts
(`Complete`), for every content of the uninitialised `addr[]`:

* `ParseipDetermined`: `parseip`'s answer depends on the name alone;
* `ParseipStands`: an accepted name yields four bytes that satisfy the reference
  `Stands`: its parts in order, the first and last at the two ends, zeros between.

and about `Net`, for all finite sets of clients and descriptors, any names, and a
network that decides, resets and withdraws connections at any moment
(`NetAssumption`, `FdAssumption`):

* `NetInvariance`: `NetInv` is the invariant `Inv` of `Fd` (its lemmas are used for
  every step again) with `CallOK` (a client inside `fdwait` is in `netdial`, with a
  socket nobody owns, or in `netaccept`, with one of its own), `SockOK` (an open
  socket has exactly one holder; one that is closed or still connecting has nothing
  to report) and `DialOK` (two netdials have different sockets, and a netdial that
  is queued, runs or has left `fdwait` has a decided one);
* `LeakCorrect`, `DialCorrect`: `NoFdLeak` and `DialOutcome`;
* `NetNeverFatal`: `IoNeverFatal` for clients that use descriptors only as `net.c`
  returns them, which is the discipline that finding 1 lacks.

That the wake-up of a netdial means a decision is the step that needs both modules:
`RegOK` of `Fd` says whom an event belongs to, `SockOK` that a connecting socket has
no events (`WakeFacts`, `NetWakeInv`); between the wake-up and the return the network
may still turn "connected" into "dead", and `DialOK` survives that.

`TasklistProofs` justifies what all other modules build on, that a Tasklist is a
sequence, for any finite set of tasks, any lists and any alarm times (`ListAssumption`):

* `ListInvariance`: `ListInv` says of the tasks on each list that they are different,
  that head, next and tail lead through them and prev leads back (`Chain`), and that
  no task is on two lists (`Apart`).  Of the tasks on no list it says nothing: they
  keep stale pointers;
* `BackLinksCorrect`: `BackLinks`;
* `TaskListsImplemented`: `Tasklist` implements `TaskLists`, the property
  `TaskListsSpec` of the run `tasklist`.

`Apart` is what frames a change: the neighbours that an operation writes are on its
own list, so the chains of the others stand (`ChainFrame`, `OneList`).  `LinkIn` is
the insertion between two neighbours that `addtask` and `taskdelay` share, `DelStep`
the removal.  `WalkPath` computes the refinement mapping, which follows the links by
a recursive function: the tasks of a chain are a solution of its equation and, by the
least place where two solutions differ, the only one.

`TaskInfoProofs` has the two parts of `task.c` below the grain of whole operations.
For the listing it proves, for any number of tasks, growth of `alltask[]`, buffer size
and set of formats:

* `InfoInvariance`: `InfoInv`.  The handler may come before any store, so `TableOK`
  says for each value of `pc` what the table looks like there.  Between two operations
  it is `Seated`: entries and slots are inverse to each other, and the block is a
  multiple of `CHUNK` long, from which the room for the next entry follows.  In the
  middle of a removal it is `Moved`: the last entry stands in two places and its task
  still knows only the old one.  `TextOK` has the bound of `vseprint`'s `w`;
* `ListingCorrect`: `ListingSafe`, from `EntriesThere` (outside the windows the first
  `nalltask` entries are live tasks) and, between operations, from `Seated`;
* `TerminatesCorrect`: `Terminates`, the first half of `PrintBounded`, from
  `PrintstrRoom` and `FilledRoom` (no round of the loop touches the last place);
* `PrintCorrect`: `PrintBounded`, whose reference counts the digits of a number by the
  shortest decimal numeral that spells it.  A second invariant, `WrittenOK`, says how far
  `vseprint` has come: in a format of known directives, `Written(k)`, that is, k items
  are done and `w` is what they ask for or, if that is more, the whole buffer but its
  last place.  `LengthsFacts` is about the sum of what the items ask for, `RestOf` about
  the step from k to k + 1; that the loop writes no more digits than the shortest
  numeral has is `DigitsShortest`, and `DecimalsRight` the link to the reference;
* `NumberCorrect`: `NumberText`, even with no sign at all (`NumberUsual`).  `ModRange` and `MagnitudeRight` say what the
  conversion to uvlong and the test of the sign make of a value, at the smallest one
  too, and `DigitsSpell` that the loop writes digits of the base, none of them a
  leading zero, which stand for that magnitude.

The functions the last two are about are recursive, and the library's induction
theorems cannot be used: they take an operator as a parameter, which the provers do not
instantiate.  That such a function exists, and that what it returns is right for every
argument, follows instead from the least argument for which it would not be
(`LeastOf`): for all smaller ones it is, so it is for that one.

They assume of the formats, and of what memory may hold behind one (`Behind`, any set
of such sequences), that they are sequences of items, that the length of a
string is a natural number and a field size an integer, and that a number has base 8,
10 or 16 and a value within its type; of the types, that an int has at least two
values, and a uvlong an even number of them and no fewer than an int.

About the start of a task it proves, for every address and stack size,
`TaskstartExact` (the two arguments of `taskstart` give the task's address back, below
2^48), `StackInside` and `StackInsideRegisters` (the first stack pointer, and what
`makecontext` stores there, is inside the stack, with the alignment the ABIs ask for
on 386 and amd64), and `StackEnough` (what `needstack` then accepts).

Only model-checked: the liveness properties.  They need fairness and ENABLED, which
TLAPS cannot reason about.  All safety properties of the runs that pass are proved.

## Not modelled

`asm.S` and the ucontext headers (saving and restoring registers; in the models, the
change of `control`), stack overflow as such, `taskdata` and `taskid` (they hand out
fields), `chanfree` (the code has the comment "bug - work out races": it promises
nothing if somebody waits on the channel), failing allocations in channels, clock
steps, the errors of `epoll_ctl` that depend on the system or on the kind of
descriptor (ENOMEM, ENOSPC, EPERM for a regular file, ...: `fdwait` ends the program on
any error), a `%s` behind an unfinished directive, whose pointer may be wild, that the
handler changes `errno`, the wording of messages, and the example programs.  What is left in `print.c` (`print`, `fprint`, `vfprint`, `seprint`,
`strecpy`) are wrappers around `vseprint` and one `write`.

## Plan

Done: all parts of the library that keep state are modelled and model-checked, and the
safety of the task lists, the scheduler, the locks, the condition variables, the
channels, the timers, the I/O, the network calls, the formatter and the SIGQUIT listing
is proved.  What is left is listed
above under "Only model-checked", with the reason, and under "Not modelled".
