----------------------------- MODULE MCJournal -----------------------------
(* Journal on small instances for TLC. *)
EXTENDS Journal, TLC

\* the threads are interchangeable
Symmetry == Permutations(Clients)
=============================================================================
