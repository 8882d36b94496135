------------------------------- MODULE MCSixp -------------------------------
(* The 6P layer of one node for TLC. *)
EXTENDS Sixp, TLC

SymBoth == Permutations(Peers) \cup Permutations(Slots)
=============================================================================
