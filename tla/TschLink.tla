------------------------------ MODULE TschLink ------------------------------
(***************************************************************************)
(* Frames from one TSCH node to its neighbours: how they are numbered,     *)
(* sent, acknowledged and sent again (tsch_tx_slot), received and          *)
(* acknowledged (tsch_rx_slot), and handed up unless their number says     *)
(* they were before (packet_input). The queues of the sender are those of  *)
(* TschQueue without backoff and links: any of them may come next.         *)
(*                                                                         *)
(* A frame is known by its place in frames, in the order the upper layers  *)
(* handed it over in.                                                      *)
(***************************************************************************)
EXTENDS Integers, Sequences, FiniteSets, SequencesExt

CONSTANTS Receivers,
          Bcast,       (* the virtual neighbour n_broadcast                *)
          SeqMax,      (* the last of the numbers of unicast frames: 255   *)
          NoNumber,    (* a suppressed number: 0xffff in packetbuf         *)
          MaxFrames,   (* bound: frames handed to TSCH                     *)
          MaxRestarts, (* bound: restarts of the sender                    *)
          QueueCap,    (* frames a queue holds                             *)
          DequeuedRoom,(* frames dequeued_ringbuf holds                    *)
          InputRoom,   (* frames input_ringbuf holds                       *)
          Retries      (* TSCH_MAC_MAX_FRAME_RETRIES                       *)

Dests == Receivers \cup {Bcast}

ASSUME LinkAssumption ==
  /\ Bcast \notin Receivers /\ Receivers # {} /\ IsFiniteSet(Receivers)
  /\ {SeqMax, QueueCap, DequeuedRoom, InputRoom} \subseteq Nat \ {0}
  /\ {MaxFrames, MaxRestarts, Retries} \subseteq Nat
  /\ NoNumber \notin 0..SeqMax

VARIABLES seqno,    (* tsch_packet_seqno                                   *)
          given,    (* the numbers it has given out since it started       *)
          boots,    (* restarts of the sender                              *)
          frames,   (* what was sent so far: [to, num, turn, boot]         *)
          status,   (* of each frame: "queued" until its callback          *)
          queue,    (* [d -> frames in d's queue]                          *)
          tries,    (* [d -> transmissions of the first of them]           *)
          air,      (* the tx slot under way: who has received the frame   *)
          dequeued, (* dequeued_ringbuf: [id, ret]                         *)
          ring,     (* [r -> input_ringbuf of r]                           *)
          last,     (* [r -> number r registered last for the sender]      *)
          handed    (* [r -> frames r has handed up]                       *)

vars == <<seqno, given, boots, frames, status, queue, tries, air, dequeued, ring, last, handed>>
sender == <<seqno, given, boots, frames, queue, tries>>

Idle == [to |-> Bcast, id |-> 0, heard |-> {}]
Ids == 1 .. MaxFrames
Finished == {"ok", "noack", "err", "lost"}

TypeOK ==
  /\ seqno \in 0 .. SeqMax /\ given \in 0 .. Len(frames) /\ boots \in 0 .. MaxRestarts
  /\ frames \in Seq([to : Dests, num : (1 .. SeqMax) \cup {NoNumber}, turn : 0 .. MaxFrames,
                     boot : 0 .. MaxRestarts])
  /\ Len(frames) <= MaxFrames
  /\ status \in Seq(Finished \cup {"queued"}) /\ Len(status) = Len(frames)
  /\ queue \in [Dests -> Seq(Ids)] /\ \A d \in Dests : Len(queue[d]) <= QueueCap
  /\ tries \in [Dests -> 0 .. Retries + 1]
  /\ air \in [to : Dests, id : {0} \cup Ids, heard : SUBSET Receivers]
  /\ dequeued \in Seq([id : Ids, ret : {"ok", "noack"}]) /\ Len(dequeued) <= DequeuedRoom
  /\ ring \in [Receivers -> Seq(Ids)] /\ \A r \in Receivers : Len(ring[r]) <= InputRoom
  /\ last \in [Receivers -> 0 .. SeqMax]
  /\ handed \in [Receivers -> Seq(Ids)]
-----------------------------------------------------------------------------
(* Handing over                                                            *)

(* A number is given to a frame whether or not there is room for it. 0 is  *)
(* none to the framer, which would put one of its own in its place.        *)
NextSeqnoFromZero == IF seqno = SeqMax THEN 0 ELSE seqno + 1            \* mutant
NextSeqno == IF seqno = SeqMax THEN 1 ELSE seqno + 1

(* The framer suppresses the number of a broadcast frame (its version is   *)
(* that of 802.15.4e).                                                     *)
NumOfAny(d) == NextSeqno                                                \* mutant
Num(d) == IF d = Bcast THEN NoNumber ELSE NextSeqno

(* send_packet                                                             *)
Send(d) ==
  /\ Len(frames) < MaxFrames
  /\ frames' = Append(frames, [to |-> d, num |-> Num(d), turn |-> given, boot |-> boots])
  /\ IF d = Bcast THEN UNCHANGED <<seqno, given>> ELSE seqno' = NextSeqno /\ given' = given + 1
  /\ IF Len(queue[d]) < QueueCap
     THEN /\ queue' = [queue EXCEPT ![d] = Append(@, Len(frames'))]
          /\ status' = Append(status, "queued")
     ELSE /\ status' = Append(status, "err")
          /\ UNCHANGED queue
  /\ UNCHANGED <<boots, tries, air, dequeued, ring, last, handed>>
-----------------------------------------------------------------------------
(* Slots                                                                   *)

(* Those that may receive a frame to d: a node without room for one more   *)
(* does not listen.                                                        *)
ListeningAnyway(d) == IF d = Bcast THEN Receivers ELSE {d}              \* mutant
Listening(d) ==
  {r \in Receivers : d \in {r, Bcast} /\ Len(ring[r]) < InputRoom}

Put(r, id) == IF Len(ring[r]) < InputRoom THEN Append(ring[r], id) ELSE ring[r]

(* A slot of tsch_tx_slot up to the acknowledgement, and of tsch_rx_slot   *)
(* in those that receive the frame.                                        *)
Transmit(d) ==
  /\ air = Idle /\ queue[d] # <<>> /\ Len(dequeued) < DequeuedRoom
  /\ \E heard \in SUBSET Listening(d) :
       /\ air' = [to |-> d, id |-> Head(queue[d]), heard |-> heard]
       /\ ring' = [r \in Receivers |-> IF r \in heard THEN Put(r, Head(queue[d])) ELSE ring[r]]
  /\ tries' = [tries EXCEPT ![d] = @ + 1]
  /\ UNCHANGED <<seqno, given, boots, frames, status, queue, dequeued, last, handed>>

(* Broadcast frames are not acknowledged, and an acknowledgement may be    *)
(* lost.                                                                   *)
Outcomes ==
  IF air.to = Bcast THEN {"ok"}
  ELSE {"noack"} \cup (IF air.to \in air.heard THEN {"ok"} ELSE {})

(* update_neighbor_state                                                   *)
Over(ret) == ret = "ok" \/ tries[air.to] > Retries

(* The end of that slot.                                                   *)
SlotEnd ==
  /\ air # Idle
  /\ air' = Idle
  /\ \E ret \in Outcomes :
       IF Over(ret)
       THEN /\ queue' = [queue EXCEPT ![air.to] = Tail(@)]
            /\ tries' = [tries EXCEPT ![air.to] = 0]
            /\ dequeued' = Append(dequeued, [id |-> air.id, ret |-> ret])
       ELSE UNCHANGED <<queue, tries, dequeued>>
  /\ UNCHANGED <<seqno, given, boots, frames, status, ring, last, handed>>

(* tsch_tx_process_pending                                                 *)
ReportOfAcked ==                                                        \* mutant
  /\ dequeued # <<>>
  /\ status' = [status EXCEPT ![Head(dequeued).id] = IF Head(dequeued).ret = "ok" THEN "ok" ELSE @]
  /\ dequeued' = Tail(dequeued)
  /\ UNCHANGED <<sender, air, ring, last, handed>>
Report ==
  /\ dequeued # <<>>
  /\ status' = [status EXCEPT ![Head(dequeued).id] = Head(dequeued).ret]
  /\ dequeued' = Tail(dequeued)
  /\ UNCHANGED <<sender, air, ring, last, handed>>
-----------------------------------------------------------------------------
(* Handing up                                                              *)

(* mac_sequence_is_duplicate, of the frame id                              *)
Duplicate(r, id) == frames[id].num # NoNumber /\ last[r] = frames[id].num

(* mac_sequence_register_seqno                                             *)
Registered(r, id) == IF frames[id].num = NoNumber THEN last[r] ELSE frames[id].num

(* tsch_rx_process_pending and packet_input                                *)
PacketInput(r) ==
  /\ ring[r] # <<>>
  /\ LET id == Head(ring[r])
     IN IF Duplicate(r, id)
        THEN UNCHANGED <<last, handed>>
        ELSE /\ last' = [last EXCEPT ![r] = Registered(r, id)]
             /\ handed' = [handed EXCEPT ![r] = Append(@, id)]
  /\ ring' = [ring EXCEPT ![r] = Tail(@)]
  /\ UNCHANGED <<sender, status, air, dequeued>>

(* The sender starts again, between two slots: it numbers from 1, what it  *)
(* had queued is gone, and its neighbours know nothing of it.              *)
Restart ==
  /\ boots < MaxRestarts /\ air = Idle
  /\ boots' = boots + 1
  /\ seqno' = 0 /\ given' = 0
  /\ status' = [i \in DOMAIN status |-> IF status[i] = "queued" THEN "lost" ELSE status[i]]
  /\ queue' = [d \in Dests |-> <<>>] /\ tries' = [d \in Dests |-> 0] /\ dequeued' = <<>>
  /\ UNCHANGED <<frames, air, ring, last, handed>>

Init ==
  /\ seqno = 0 /\ given = 0 /\ boots = 0 /\ frames = <<>> /\ status = <<>>
  /\ queue = [d \in Dests |-> <<>>] /\ tries = [d \in Dests |-> 0]
  /\ air = Idle /\ dequeued = <<>>
  /\ ring = [r \in Receivers |-> <<>>] /\ last = [r \in Receivers |-> 0]
  /\ handed = [r \in Receivers |-> <<>>]

Next ==
  \/ \E d \in Dests : Send(d) \/ Transmit(d)
  \/ \E r \in Receivers : PacketInput(r)
  \/ SlotEnd \/ Report \/ Restart

Spec == Init /\ [][Next]_vars

(* Slots of each queue come again and again, and end; the process that is  *)
(* polled by them runs. Nothing is assumed of the radio.                   *)
Fairness ==
  /\ \A d \in Dests : SF_vars(Transmit(d))
  /\ WF_vars(SlotEnd) /\ WF_vars(Report)
  /\ \A r \in Receivers : WF_vars(PacketInput(r))

FairSpec == Spec /\ Fairness
-----------------------------------------------------------------------------
(* Properties *)

Has(r, id) == Contains(ring[r], id) \/ Contains(handed[r], id)

(* A number only says that two frames are one as long as the sender has    *)
(* not given out all others in between, or restarted.                      *)
Alike(i, j) ==
  \/ frames[i].boot # frames[j].boot
  \/ (frames[i].turn - frames[j].turn) % SeqMax = 0

(* What is reported to have been acknowledged was received, and is handed  *)
(* up or about to be, whatever the rings have room for. One exception: the *)
(* receiver took it for an earlier frame that is alike.                    *)
AckedIsKept ==
  \A id \in DOMAIN frames :
    LET r == frames[id].to
    IN r # Bcast /\ status[id] = "ok" =>
         \/ Has(r, id)
         \/ \E j \in 1 .. id - 1 : frames[j].to = r /\ Contains(handed[r], j) /\ Alike(id, j)

(* A receiver hands up each frame once, and unicast frames in the order    *)
(* they were sent in, however often they are sent again and whatever is    *)
(* broadcast in between.                                                   *)
HandedOnceInOrder ==
  \A r \in Receivers :
    /\ IsInjective(handed[r])
    /\ \A i, j \in DOMAIN handed[r] :
         i < j /\ frames[handed[r][i]].to = r /\ frames[handed[r][j]].to = r =>
           handed[r][i] < handed[r][j]

(* Each frame is reported, acknowledged or not, unless the sender restarts *)
(* before; and what a receiver has is handed up or dropped.                *)
Settled ==
  /\ \A id \in Ids :
       Len(frames) = id ~> Len(frames) >= id /\ status[id] \in Finished
  /\ \A r \in Receivers : []<>(ring[r] = <<>>)
=============================================================================
