----------------------------- MODULE MCTschQueue -----------------------------
(* The TSCH MAC of one node for TLC. *)
EXTENDS TschQueue, TLC

CONSTANTS s0, s1

SymPackets == Permutations(Packets)
SymAll == Permutations(Packets) \cup Permutations(Unicast)
=============================================================================
