---------------------------- MODULE MacContract ----------------------------
(***************************************************************************)
(* What a MAC promises to the layers above it, and what Sixp assumes of    *)
(* one: it reports on each frame it took once, and on the frames for one   *)
(* destination in the order in which it took them.                         *)
(***************************************************************************)
EXTENDS Sequences

CONSTANTS Dests, Packets

VARIABLE pending     (* [Dests -> sequence of frames taken, not reported]   *)

Taken(d) == {pending[d][i] : i \in DOMAIN pending[d]}

Take(d, p) ==
  /\ \A e \in Dests : p \notin Taken(e)
  /\ pending' = [pending EXCEPT ![d] = Append(@, p)]

Report(d) ==
  /\ pending[d] # <<>>
  /\ pending' = [pending EXCEPT ![d] = Tail(@)]

Init == pending = [d \in Dests |-> <<>>]
Next == \E d \in Dests : Report(d) \/ \E p \in Packets : Take(d, p)
Spec == Init /\ [][Next]_pending
=============================================================================
