---------------------------- MODULE MCSnapshots ----------------------------
(* Snapshots on a small instance for TLC. *)
EXTENDS Snapshots, TLC

CONSTANT a  \* a byte that is not zero

\* a put that starts inside the first block and ends with the last one, and a
\* trim of the last block
MCRequests == {[op |-> "put", offset |-> 1, size |-> 3, data |-> a],
               [op |-> "trim", offset |-> 2, size |-> 2, data |-> Zero]}

\* the first snapshot may give up at its first block, which leaves it one that
\* its writers still have to copy
MCBadCopies == {<<1, 0>>}

Symmetry == Permutations(Writers)
=============================================================================
