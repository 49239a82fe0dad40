----------------------------- MODULE MCTasklist -----------------------------
(***************************************************************************)
(* Four tasks that move between the run queue and the sleeping list.       *)
(***************************************************************************)
EXTENDS Tasklist

\* All tasks are alike, and both properties are safety properties.
Symmetry == Permutations(Task)

=============================================================================
