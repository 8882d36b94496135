------------------------------ MODULE MCSfsbNet ------------------------------
(* Two and three nodes and a short slotframe for TLC. *)
EXTENDS SfsbNetRefines, TLC

CONSTANTS na, nb, nc, s0, s1, s2, s3

OneWay == {<<na, nb>>}
BothWays == {<<na, nb>>, <<nb, na>>}
Leaves == {<<na, nb>>, <<nc, nb>>}         \* nb is the parent of na and nc

(* Timeslots are only compared: those that are not shared are alike, and   *)
(* so are the leaves.                                                      *)
SymSlots == Permutations(Timeslots \ {SharedSlot})
SymLeaves == {f @@ g : f \in SymSlots, g \in Permutations({na, nc})}

(* nb and nc are through with a request of nc, a state the network reaches *)
(* when both na and nc ask nb: Init but for the 6P state nb and nc have of *)
(* each other, their cell, and what nb has in res_storage. From here only  *)
(* na asks.                                                                *)
AfterC ==
  /\ Init!1 /\ Init!5 /\ Init!6 /\ Init!7
  /\ nbr = [n \in Peers |-> [p \in Peers |-> IF {n, p} = {nb, nc} THEN 1 ELSE NoNbr]]
  /\ cell = [n \in Peers |-> [t \in Timeslots |->
       CASE t = SharedSlot -> Shared
         [] t = s1 /\ n = nb -> Rx(nc)
         [] t = s1 /\ n = nc -> Tx(nb)
         [] OTHER -> Free]]
  /\ res = [n \in Peers |-> IF n = nb THEN {s1} ELSE {}]
FairSpecAfterC == AfterC /\ [][Next]_vars /\ Fairness
=============================================================================
