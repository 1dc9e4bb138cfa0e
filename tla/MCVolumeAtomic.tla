--------------------------- MODULE MCVolumeAtomic ---------------------------
(* VolumeAtomic on small instances for TLC. *)
EXTENDS VolumeAtomic, TLC

CONSTANT a  \* a byte that is not zero

\* a part of a block, a range that begins in the middle of a block, and one of
\* whole blocks; each shares a block with another, and every block is locked
Ranges == {<<0, 1>>, <<1, 3>>, <<2, 4>>}
CoveredRequests ==
  {r \in AllRequests : <<r.offset, r.size>> \in Ranges /\ (r.op = "put" => r.data = a)}

Symmetry == Permutations(Threads)
=============================================================================
