--------------------------- MODULE SfsbNetRefines ---------------------------
(***************************************************************************)
(* The network of SfsbNet implements two specifications: CellPairs, what   *)
(* the negotiation promises, and, node by node, Sixp, the 6P layer with an *)
(* arbitrary scheduling function, peer and MAC.                            *)
(***************************************************************************)
EXTENDS SfsbNet

(* The sender's schedule decides what is agreed. *)
Agreed == {e \in Peers \X Peers \X Timeslots : cell[e[1]][e[3]] = Tx(e[2])}
Pairs == INSTANCE CellPairs WITH agreed <- Agreed

(* The MAC of Sixp holds what waits in TSCH's queue to a peer and, before  *)
(* it, what is transmitted and not yet reported.                           *)
Frame(kind, b) == [kind |-> kind, slot |-> b, live |-> b # NoBlock]
Waiting(q) == [i \in DOMAIN q |-> Frame(q[i].pkt.kind, q[i].block)]
SentTo(p, d) ==
  LET upto[i \in 0 .. Len(d)] ==
        IF i = 0 THEN <<>>
        ELSE IF d[i].to = p THEN Append(upto[i - 1], Frame(d[i].kind, d[i].block))
        ELSE upto[i - 1]
  IN upto[Len(d)]
Macq(n) == [p \in Peers |-> SentTo(p, done[n]) \o Waiting(out[n][p])]

SixpOf(n) == INSTANCE Sixp WITH
  Slots <- Blocks, NoSlot <- NoBlock, QueueCap <- QueueCap + RingCap,
  trans <- blk[n], nbr <- nbr[n], macq <- Macq(n)
-----------------------------------------------------------------------------
(* Cells are handed out without conflict: a timeslot that becomes a cell   *)
(* of a pair is in no other pair of either node, and stays theirs.         *)
PairsWithoutConflict == Pairs!Spec

(* Every node of the network behaves as the 6P layer of Sixp, so what is   *)
(* proved of Sixp for any SF, peers and MAC holds of these.                *)
NodesAreSixp ==
  /\ \A n \in Peers : SixpOf(n)!Init
  /\ [][\A n \in Peers : [SixpOf(n)!Next]_(SixpOf(n)!vars)]_vars
=============================================================================
