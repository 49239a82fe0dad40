------------------------------ MODULE ChanFifo ------------------------------
(***************************************************************************)
(* What a channel promises about data: it is a bounded first-in first-out  *)
(* queue.  One transfer puts a value in, takes one out, or both at once;   *)
(* nothing is lost, duplicated or overtaken, and no more than size[c]      *)
(* values stay inside.                                                     *)
(***************************************************************************)
EXTENDS Sequences, Integers

CONSTANTS Chan, Msg, Sizes, nil

VARIABLES
  size,      \* capacity of each channel
  contents,  \* values inside, oldest first
  moved      \* the transfer just made: its channel, value in, value out

nothing == [c |-> nil, in |-> <<>>, out |-> <<>>]

Init ==
  /\ size \in Sizes
  /\ contents = [c \in Chan |-> <<>>]
  /\ moved = nothing

Transfer(c, in, receiving) ==
  LET all == contents[c] \o in
      out == IF receiving THEN <<Head(all)>> ELSE <<>>
      new == IF receiving THEN Tail(all) ELSE all
  IN  /\ in # <<>> \/ receiving
      /\ receiving => all # <<>>
      /\ Len(new) <= size[c]
      /\ contents' = [contents EXCEPT ![c] = new]
      /\ moved' = [c |-> c, in |-> in, out |-> out]
      /\ UNCHANGED size

\* The transfer is over; nothing moves.
Settle == moved' = nothing /\ UNCHANGED <<size, contents>>

Next ==
  \/ Settle
  \/ \E c \in Chan, receiving \in BOOLEAN :
       \E in \in {<<>>} \cup { <<m>> : m \in Msg } : Transfer(c, in, receiving)

Spec == Init /\ [][Next]_<<size, contents, moved>>

=============================================================================
