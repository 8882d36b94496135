---------------------------- MODULE MCTschSlots ----------------------------
(* Two slotframes and up to three links, in every order, for TLC. *)
EXTENDS TschSlots, SequencesExt, TLC

MCSize == 0 :> 3 @@ 1 :> 2

AnyLink == [handle : {0, 1}, timeslot : {0, 1}, options : {{"TX"}, {"RX"}, {"TX", "RX"}}]

(* A slotframe has one link in a timeslot, and its links come together.    *)
MCSchedules ==
  {s \in BoundedSeq(AnyLink, 3) :
     /\ \A i, j \in DOMAIN s : i < j =>
          s[i].handle # s[j].handle \/ s[i].timeslot # s[j].timeslot
     /\ Len(s) = 3 => s[1].handle = s[2].handle \/ s[2].handle = s[3].handle}
=============================================================================
