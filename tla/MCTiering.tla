----------------------------- MODULE MCTiering -----------------------------
(* Tiering on small instances for TLC. *)
EXTENDS Tiering, TLC

\* all blocks are in one bin
MCBin == [b \in Blocks |-> 0]

Symmetry == Permutations(Threads) \cup Permutations(Blocks)
=============================================================================
