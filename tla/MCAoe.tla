------------------------------- MODULE MCAoe -------------------------------
(* Aoe on a small instance for TLC. *)
EXTENDS Aoe, TLC
=============================================================================
