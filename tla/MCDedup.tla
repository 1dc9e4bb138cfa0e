------------------------------ MODULE MCDedup ------------------------------
(* Dedup on small instances for TLC. *)
EXTENDS Dedup, TLC

CONSTANT a  \* a byte that is not zero

\* a content is its own hash, but for its type
MCHash == [c \in Contents |-> <<"hash", c>>]

\* parts of a block, all of one, a range over two blocks, a trim of all and one of a part
Puts == {<<0, 1>>, <<1, 1>>, <<1, 3>>, <<0, 2>>}
Trims == {<<0, 4>>, <<2, 1>>}
MCRequests ==
  {r \in AllRequests :
     \/ r.op = "put" /\ <<r.offset, r.size>> \in Puts
     \/ r.op = "trim" /\ <<r.offset, r.size>> \in Trims}

Symmetry == Permutations(Threads)
=============================================================================
