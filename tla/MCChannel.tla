----------------------------- MODULE MCChannel -----------------------------
(***************************************************************************)
(* Two channels, three tasks that offer single operations and the pairs    *)
(* that make chanalt hard: both directions on one channel, the same        *)
(* direction twice, and an entry that is switched off.                     *)
(***************************************************************************)
EXTENDS Channel

CONSTANTS c1, c2, m1

snd(c, v) == [op |-> "CHANSND", c |-> c, v |-> v]
rcv(c)    == [op |-> "CHANRCV", c |-> c, v |-> nil]
nop(c)    == [op |-> "CHANNOP", c |-> c, v |-> nil]

MCOffers ==
  { <<snd(c, v)>> : c \in Chan, v \in {m1, nil} } \cup
  { <<rcv(c)>> : c \in Chan } \cup
  { <<snd(c1, m1), rcv(c2)>>, <<rcv(c1), rcv(c2)>>, <<rcv(c1), snd(c1, nil)>>,
    <<nop(c1), snd(c2, m1), snd(c1, m1)>> }

\* One channel without a buffer and one with, either way round.
MCSizes == { c1 :> 0 @@ c2 :> 2, c1 :> 1 @@ c2 :> 0 }

Symmetry == Permutations(Task)

=============================================================================
