----------------------------- MODULE MCTschLink -----------------------------
(* One sender and two receivers for TLC. *)
EXTENDS TschLink, TLC

SymReceivers == Permutations(Receivers)
=============================================================================
