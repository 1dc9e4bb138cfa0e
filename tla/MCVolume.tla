----------------------------- MODULE MCVolume ------------------------------
(* Volume on small instances for TLC. *)
EXTENDS Volume, TLC

CONSTANT a  \* a byte that is not zero

\* puts and gets of which every block is locked, among them parts of a block;
\* and trims of whole blocks, which this backend does not lock
Ranges == {<<0, 1>>, <<1, 3>>, <<2, 2>>}
TrimRanges == {<<0, 2>>, <<2, 2>>, <<0, 4>>}
FileRequests ==
  {r \in AllRequests :
     IF r.op = "trim" THEN <<r.offset, r.size>> \in TrimRanges
     ELSE <<r.offset, r.size>> \in Ranges /\ (r.op = "put" => r.data = a)}

Symmetry == Permutations(Threads)
=============================================================================
