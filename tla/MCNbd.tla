------------------------------- MODULE MCNbd -------------------------------
(* Nbd on a small instance for TLC. *)
EXTENDS Nbd, TLC
=============================================================================
