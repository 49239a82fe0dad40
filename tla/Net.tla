-------------------------------- MODULE Net --------------------------------
(***************************************************************************)
(* net.c: netannounce, netaccept and netdial on top of fdwait.  The        *)
(* sockets, connect's outcome and gethostbyname are the kernel's and the   *)
(* resolver's, modelled from how net.c uses them.                          *)
(***************************************************************************)
EXTENDS Fd, Parseip

CONSTANTS
  Names,     \* the names that are dialed, as sequences of parts
  Garbage,   \* what may be left in the uninitialised addr[] of parseip
  hostaddr   \* an address from gethostbyname

Decided == {"connected", "dead"}

\* The states of a socket in use.
SockState == {"connecting", "listening", "bound"} \cup Decided

\* The name that netdial was called with and the address it was resolved to.
Dial == [name : Names, addr : [1 .. 4 -> Byte] \cup {hostaddr}]

ASSUME NetAssumption ==
  /\ Names \subseteq Seq(Nat \cup {invalid})
  /\ Garbage \subseteq [1 .. 4 -> Byte]
  /\ nil \notin SockState /\ nil \notin Dial

VARIABLES
  sock,      \* the state of each socket, nil for a descriptor not in use
  soerror,   \* its SO_ERROR
  owner,     \* the client that a call has returned the descriptor to
  dial,      \* the name and the address of the netdial a client is in
  errno

netvars == <<sock, soerror, owner, dial, errno>>
allvars == <<vars, netvars>>

fdvars == <<sleepvars, lifevars, pollvars, pc, io, reg, now>>

NetTypeOK ==
  /\ sock \in [Fd -> SockState \cup {nil}]
  /\ soerror \in [Fd -> {"none", "ETIMEDOUT"}]
  /\ owner \in [Fd -> Client \cup {nil}]
  /\ dial \in [Client -> Dial \cup {nil}]
  /\ errno \in {"none", "EINPROGRESS", "ETIMEDOUT", "ECONNREFUSED", "EOTHER"}

NetInit ==
  /\ Init
  /\ sock = [f \in Fd |-> nil]
  /\ soerror = [f \in Fd |-> "none"]
  /\ owner = [f \in Fd |-> nil]
  /\ dial = [r \in Client |-> nil]
  /\ errno = "none"

-----------------------------------------------------------------------------
(***************************************************************************)
(* The kernel.                                                             *)
(***************************************************************************)

\* connect is decided, an established connection is reset, and a connection
\* comes in to a listener or goes away before it is accepted.
Network ==
  \E f \in Fd :
    /\ \/ /\ sock[f] = "connecting"
          /\ sock' = [sock EXCEPT ![f] = "connected"]
          /\ avail' = [avail EXCEPT ![f] = {"out"}]
          /\ UNCHANGED soerror
       \/ /\ sock[f] \in {"connecting", "connected"}
          /\ sock' = [sock EXCEPT ![f] = "dead"]
          /\ avail' = [avail EXCEPT ![f] = {"in", "out", "hup"}]
          /\ \E e \in {"none", "ETIMEDOUT"} : soerror' = [soerror EXCEPT ![f] = e]
       \/ /\ sock[f] = "listening"
          /\ \E a \in {{}, {"in"}} \ {avail[f]} : avail' = [avail EXCEPT ![f] = a]
          /\ UNCHANGED <<sock, soerror>>
    /\ ~Ended
    /\ UNCHANGED <<schedvars, fdvars, owner, dial, errno>>

\* socket(), accept(): the lowest number that is free, here any.
FreeFd == { f \in Fd : sock[f] = nil }

\* A call fails in the kernel and leaves its error in errno.
syscallfails == errno' = "EOTHER"

-----------------------------------------------------------------------------
(***************************************************************************)
(* Calls of the clients.                                                   *)
(***************************************************************************)

\* netlookup: the addresses it may store for name, invalid if it fails.
netlookup(name) ==
  UNION { IF parseip(name, g) = invalid THEN {hostaddr, invalid} ELSE {parseip(name, g)} :
            g \in Garbage }

\* Mutant: the descriptor is not closed.
closedNot(s, f) == s

\* close(fd) before a return -1.
closed(s, f) == [s EXCEPT ![f] = nil]

\* A new socket in state st that this very call closes again.
failed(f, st) == sock' = closed([sock EXCEPT ![f] = st], f) /\ syscallfails

\* netannounce: netlookup or socket fails; bind fails and the socket is
\* closed; or it is bound, listens if it is for TCP, and is returned.
netannounce(r) ==
  /\ Idle(r)
  /\ \/ /\ \E name \in Names : invalid \in netlookup(name)
        /\ UNCHANGED <<sock, owner, errno>>
     \/ syscallfails /\ UNCHANGED <<sock, owner>>
     \/ (\E f \in FreeFd : failed(f, "bound")) /\ UNCHANGED owner
     \/ \E f \in FreeFd, istcp \in BOOLEAN :
          /\ sock' = [sock EXCEPT ![f] = IF istcp THEN "listening" ELSE "bound"]
          /\ owner' = [owner EXCEPT ![f] = r]
          /\ UNCHANGED errno
  /\ UNCHANGED <<schedvars, fdvars, avail, soerror, dial>>

\* netaccept up to the switch in fdwait, for a socket of the client's own.
netaccept(r) ==
  \E f \in Fd :
    /\ Idle(r) /\ owner[f] = r
    /\ fdwait(r, [fd |-> f, rw |-> "r", call |-> "netaccept", left |-> 0])
    /\ UNCHANGED netvars

\* netaccept after fdwait: accept fails, for want of a connection at the
\* latest, or its descriptor is returned; there may be another connection.
netacceptreturn(r) ==
  /\ Running(r) /\ pc[r] = "io" /\ io[r].call = "netaccept"
  /\ \/ syscallfails /\ UNCHANGED <<sock, owner, avail>>
     \/ /\ sock[io[r].fd] = "listening" /\ "in" \in avail[io[r].fd]
        /\ \E f \in FreeFd, a \in {{}, {"in"}} :
             /\ sock' = [sock EXCEPT ![f] = "connected"]
             /\ owner' = [owner EXCEPT ![f] = r]
             /\ avail' = [avail EXCEPT ![io[r].fd] = a, ![f] = {"out"}]
        /\ UNCHANGED errno
  /\ ioreturn(r)
  /\ UNCHANGED <<schedvars, sleepvars, lifevars, pollvars, reg, now, soerror, dial>>

\* netdial as far as it fails at once: netlookup, socket or connect.
netdialfails(r) ==
  /\ Idle(r)
  /\ \/ (\E name \in Names : invalid \in netlookup(name)) /\ UNCHANGED <<sock, errno>>
     \/ syscallfails /\ UNCHANGED sock
     \/ \E f \in FreeFd : failed(f, "connecting")
  /\ UNCHANGED <<schedvars, fdvars, avail, soerror, owner, dial>>

\* netdial up to the switch in fdwait: connect is in progress, or (always for
\* UDP) has succeeded, which here is the network's next step.
netdial(r) ==
  \E f \in FreeFd, name \in Names :
    /\ Idle(r)
    /\ \E a \in netlookup(name) \ {invalid} :
         dial' = [dial EXCEPT ![r] = [name |-> name, addr |-> a]]
    /\ fdwait(r, [fd |-> f, rw |-> "w", call |-> "netdial", left |-> 0])
    /\ sock' = [sock EXCEPT ![f] = "connecting"]
    /\ errno' \in {errno, "EINPROGRESS"}
    /\ UNCHANGED <<soerror, owner>>

\* Mutant: errno is left as it is.
dialerrorNot(e) == errno

\* What netdial stores in errno.
dialerror(e) == IF e = "none" THEN "ECONNREFUSED" ELSE e

\* netdial after fdwait: getpeername tells whether there is a connection; if
\* not, the socket's error is fetched, the socket closed, and the error put
\* into errno, which fdtask and others have used in the meantime.
netdialreturn(r) ==
  LET f == io[r].fd
  IN  /\ Running(r) /\ pc[r] = "io" /\ io[r].call = "netdial"
      /\ IF sock[f] = "connected"
         THEN owner' = [owner EXCEPT ![f] = r] /\ UNCHANGED <<sock, soerror, avail, errno>>
         ELSE /\ sock' = closed(sock, f)
              /\ soerror' = [soerror EXCEPT ![f] = "none"]
              /\ avail' = [avail EXCEPT ![f] = {}]
              /\ errno' = dialerror(soerror[f])
              /\ UNCHANGED owner
      /\ dial' = [dial EXCEPT ![r] = nil]
      /\ ioreturn(r)
      /\ UNCHANGED <<schedvars, sleepvars, lifevars, pollvars, reg, now>>

\* The client closes a descriptor of its own.
close(r) ==
  \E f \in Fd :
    /\ Idle(r) /\ owner[f] = r
    /\ sock' = [sock EXCEPT ![f] = nil]
    /\ soerror' = [soerror EXCEPT ![f] = "none"]
    /\ avail' = [avail EXCEPT ![f] = {}]
    /\ owner' = [owner EXCEPT ![f] = nil]
    /\ UNCHANGED <<schedvars, fdvars, dial, errno>>

NetStep(r) ==
  \/ netannounce(r) \/ netaccept(r) \/ netacceptreturn(r)
  \/ netdialfails(r) \/ netdial(r) \/ netdialreturn(r) \/ close(r)
  \/ (fdwaitresume(r) \/ prepare_failed(r) \/ taskyield(r) \/ taskexit(r)) /\ UNCHANGED netvars

\* fdtask clears errno before it polls.
NetPoll == fdtaskpoll /\ errno' = "none" /\ UNCHANGED <<sock, soerror, owner, dial>>

NetCPU ==
  \/ (taskscheduler \/ fdtaskstart \/ fdtaskyield \/ fdtaskwake) /\ UNCHANGED netvars
  \/ NetPoll
  \/ \E r \in Client : NetStep(r)

NetNext ==
  \/ NetCPU \/ Network
  \/ (fdtaskeintr \/ Terminated) /\ UNCHANGED netvars

\* As in Fd, only the program's own steps are fair: the network need not ever
\* decide.
NetSpec == NetInit /\ [][NetNext]_allvars /\ WF_allvars(NetCPU)

-----------------------------------------------------------------------------

\* The descriptor netdial has open and not yet returned.
Dialing(f) == \E r \in Client : dial[r] # nil /\ io[r].fd = f

\* Types, and: no path through netdial, netaccept and netannounce loses a
\* descriptor or hands out one that is closed.  Every open socket belongs to
\* one client or to a netdial in progress, never to both, and epoll watches
\* none that is closed.
NoFdLeak ==
  /\ NetTypeOK
  /\ ~Ended => \A f \in Fd :
       /\ sock[f] # nil <=> owner[f] # nil \/ Dialing(f)
       /\ ~(owner[f] # nil /\ Dialing(f))
       /\ reg[f] # nil => sock[f] # nil

\* When netdial returns, the attempt is decided.  It returns a descriptor that
\* is connected, to the address its name stands for if the name spells it out;
\* or -1, and errno says why this attempt failed: never what connect or
\* another task left there during the wait.
DialOutcome ==
  [][ \A r \in Client : dial[r] # nil /\ dial'[r] = nil =>
        LET f == io[r].fd
        IN  /\ sock[f] \in Decided
            /\ \/ owner'[f] = r /\ sock'[f] = "connected"
               \/ /\ sock'[f] = nil
                  /\ errno' = IF soerror[f] = "none" THEN "ECONNREFUSED" ELSE soerror[f]
            /\ Complete(dial[r].name) =>
                 dial[r].addr = hostaddr \/ Stands(dial[r].name, dial[r].addr) ]_allvars

\* A netdial whose connection is decided returns, and so does a netaccept whose
\* connection does not go away, if the clients let fdtask poll.
NetReturns ==
  Polls => \A r \in Client :
    /\ (dial[r] # nil /\ sock[io[r].fd] \in Decided) ~> (dial[r] = nil \/ Ended)
    /\ (io[r].call = "netaccept" /\ "in" \in avail[io[r].fd]) ~>
         (io[r].call # "netaccept" \/ "in" \notin avail[io[r].fd] \/ Ended)

=============================================================================
