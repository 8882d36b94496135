----------------------------- MODULE CellPairs -----------------------------
(***************************************************************************)
(* What the negotiation of dedicated cells promises, whatever messages it  *)
(* takes: a sender and a listener agree on timeslots in which neither has  *)
(* another agreement, and what is agreed stays.                            *)
(***************************************************************************)
CONSTANTS Peers, Timeslots

VARIABLE agreed    (* set of <<sender, listener, timeslot>>                 *)

Engaged(n, t) == \E q \in Peers : <<n, q, t>> \in agreed \/ <<q, n, t>> \in agreed

Agree(n, p, slots) ==
  /\ \A t \in slots : ~Engaged(n, t) /\ ~Engaged(p, t)
  /\ agreed' = agreed \cup {<<n, p, t>> : t \in slots}

Init == agreed = {}
Next == \E n, p \in Peers, slots \in SUBSET Timeslots : Agree(n, p, slots)
Spec == Init /\ [][Next]_agreed
=============================================================================
