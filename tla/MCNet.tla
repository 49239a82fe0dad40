------------------------------- MODULE MCNet -------------------------------
(***************************************************************************)
(* Two clients and two descriptors for net.c, and names to dial: one that  *)
(* is abbreviated; one with a number that wraps around in int x and with a *)
(* part too many; and a host name.                                         *)
(***************************************************************************)
EXTENDS Net

CONSTANTS t1, t2, f1, f2

NoFds == [t \in Task |-> {}]

MCNames == { <<10, 1, 2>>, <<UINT + 140, 1, 2, 3, 4>>, <<invalid>> }
MCGarbage == { [k \in 1 .. 4 |-> 0] }

=============================================================================
