---------------------------- MODULE MCBlacklist ----------------------------
EXTENDS Blacklist

CONSTANTS root, leaf

MCNbrs == [n \in Nodes |-> Nodes \ {n}]
=============================================================================
