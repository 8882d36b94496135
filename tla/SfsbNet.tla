------------------------------- MODULE SfsbNet -------------------------------
(***************************************************************************)
(* A network of nodes that negotiate dedicated cells: on each the          *)
(* scheduling function sfsb.c above the 6P layer (SixpTrans) above TSCH.   *)
(*                                                                         *)
(* TSCH appears as far as 6P sees it: a queue of frames per neighbour, the *)
(* ring of received frames and the ring of finished transmissions, which   *)
(* the slot interrupt fills and tsch_pending_events_process empties, the   *)
(* received frames first. Contiki runs that process before any timer, so a *)
(* timer runs only while both rings are empty.                             *)
(*                                                                         *)
(* Not modelled here: channel offsets (both ends take the requester's),    *)
(* DELETE (sfsb_remove_links is called by nothing), association, the links *)
(* and neighbours running out (TschSchedule) and the blacklist a SIGNAL    *)
(* carries. Every node is associated and knows its neighbours.             *)
(***************************************************************************)
EXTENDS SixpTrans, Sequences, FiniteSets

CONSTANTS Timeslots,   (* timeslots of the slotframe                        *)
          SharedSlot,  (* timeslot 0, which holds the shared cell           *)
          Blocks,      (* blocks of trans_memb, 1..SIXTOP_MAX_TRANSACTIONS  *)
          MaxLinks,    (* cells offered in a request, SF_SIMPLE_MAX_LINKS   *)
          NumCells,    (* cells asked for, SFSB_INIT_NUM_CELLS              *)
          Asks,        (* pairs <<n, p>>: n wants a cell to p               *)
          Signals,     (* pairs <<n, p>>: n sends its blacklist to p        *)
          QueueCap,    (* bound: 6P frames to one neighbour inside TSCH     *)
          RingCap,     (* places in the ring of received frames and in that *)
                       (* of finished transmissions                         *)
          AckLoss,     (* may a frame arrive and its acknowledgement not?   *)
          Lag,         (* may a frame go to a node with reports pending?     *)
          Late,        (* may a transaction time out on a frame under way?  *)
          NoBlock      (* the callback argument of a frame sent without one *)

ASSUME SfsbNetAssumption ==
  /\ {"ADD", "SIGNAL"} \subseteq Cmds
  /\ IsFiniteSet(Timeslots)
  /\ SharedSlot \in Timeslots
  /\ NumCells \in 1..MaxLinks
  /\ Asks \cup Signals \subseteq {e \in Peers \X Peers : e[1] # e[2]}
  /\ {QueueCap, RingCap} \subseteq Nat
  /\ {AckLoss, Lag, Late} \subseteq BOOLEAN
  /\ NoBlock \notin Blocks

VARIABLES blk,    (* [node -> [Blocks -> Trans]]                            *)
          nbr,    (* [node -> [peer -> next_seqno or NoNbr]]                *)
          cell,   (* [node -> [Timeslots -> link]]: slotframe 0             *)
          res,    (* [node -> set of timeslots]: cells read in res_storage  *)
          out,    (* [node -> [peer -> frames queued in TSCH]]              *)
          rx,     (* [node -> received frames not handled yet]              *)
          done    (* [node -> finished transmissions not reported yet]      *)

vars == <<blk, nbr, cell, res, out, rx, done>>

Free == [option |-> "NONE"]
Shared == [option |-> "SHARED"]
Tx(p) == [option |-> "TX", peer |-> p]
Rx(p) == [option |-> "RX", peer |-> p]
Links == {Free, Shared} \cup {Tx(p) : p \in Peers} \cup {Rx(p) : p \in Peers}

(* An ERROR is a response whose code is not SUCCESS. *)
Contents == [kind : {"REQUEST", "RESPONSE", "ERROR"}, cmd : Cmds,
             seqno : SeqNos, cells : SUBSET Timeslots]

TypeOK ==
  /\ blk \in [Peers -> [Blocks -> Trans]]
  /\ nbr \in [Peers -> [Peers -> SeqNos \cup {NoNbr}]]
  /\ cell \in [Peers -> [Timeslots -> Links]]
  /\ res \in [Peers -> SUBSET Timeslots]
  /\ out \in [Peers -> [Peers -> Seq([pkt : Contents, block : Blocks \cup {NoBlock}])]]
  /\ rx \in [Peers -> Seq([src : Peers, pkt : Contents])]
  /\ done \in [Peers -> Seq([to : Peers, kind : {"REQUEST", "RESPONSE", "ERROR"},
                         block : Blocks \cup {NoBlock}, ok : BOOLEAN])]

Used(n, b) == blk[n][b].peer # NoPeer
Busy(n, p) == \E b \in Blocks : blk[n][b].peer = p
FreeSlotsUnlessShared(n) == Timeslots \ {SharedSlot}     \* mutant
FreeSlots(n) == {t \in Timeslots : cell[n][t] = Free}
HasTx(n, p) == \E t \in Timeslots : cell[n][t] = Tx(p)
Idle(n) == rx[n] = <<>> /\ done[n] = <<>>

Pkt(kind, cmd, seqno, cells) ==
  [kind |-> kind, cmd |-> cmd, seqno |-> seqno, cells |-> cells]

(* memb_alloc takes the first free block, if there is one.                 *)
FirstFree(n, b) == ~Used(n, b) /\ \A c \in Blocks : c < b => Used(n, c)
Full(n) == \A b \in Blocks : Used(n, b)

(* tsch_schedule_add_link removes what the timeslot held.                  *)
Install(n, link, slots) ==
  cell' = [cell EXCEPT ![n] = [t \in Timeslots |-> IF t \in slots THEN link ELSE @[t]]]
-----------------------------------------------------------------------------
(* Block b holds t and its frame goes to p: queued, or refused for lack of *)
(* room, when mac_callback runs on the spot.                               *)
HandOver(n, p, b, t, pkt) ==
  IF Len(out[n][p]) < QueueCap
  THEN /\ blk' = [blk EXCEPT ![n][b] = t]
       /\ out' = [out EXCEPT ![n][p] = Append(@, [pkt |-> pkt, block |-> b])]
  ELSE /\ blk' = [blk EXCEPT ![n][b] = Reported(t, FALSE)]
       /\ UNCHANGED out

(* send_back_error *)
HandError(n, p, cmd, seqno) ==
  IF Len(out[n][p]) < QueueCap
  THEN out' = [out EXCEPT ![n][p] =
                 Append(@, [pkt |-> Pkt("ERROR", cmd, seqno, {}), block |-> NoBlock])]
  ELSE UNCHANGED out

(* sixp_output of a request of sfsb: a SIGNAL alone has a callback.        *)
Output(n, p, cmd, cells) ==
  LET seqno == IF nbr[n][p] = NoNbr THEN 0 ELSE nbr[n][p]
  IN /\ nbr' = [nbr EXCEPT ![n][p] = seqno]
     /\ \/ Full(n) /\ UNCHANGED <<blk, out>>
        \/ \E b \in Blocks :
             /\ FirstFree(n, b)
             /\ HandOver(n, p, b,
                         [NewTrans(p, seqno, cmd, 2) EXCEPT !.cb = (cmd = "SIGNAL")],
                         Pkt("REQUEST", cmd, seqno, cells))

(* callbackLinksAdded, run again and again by its timer until there is a   *)
(* dedicated cell, and sfsb_add_links: timeslots drawn at random among the *)
(* free ones. While a transaction with p runs it only waits again.         *)
Draw(n, p, cells) ==
  /\ Idle(n)
  /\ ~HasTx(n, p) /\ ~Busy(n, p)
  /\ cells \subseteq FreeSlots(n) /\ Cardinality(cells) = MaxLinks
  /\ Output(n, p, "ADD", cells)
  /\ UNCHANGED <<cell, res, rx, done>>

LinksAdded(n, p) == \E cells \in SUBSET Timeslots : Draw(n, p, cells)

(* sfsb_bl_send *)
BlSend(n, p) ==
  /\ Idle(n)
  /\ HasTx(n, p) /\ ~Busy(n, p)
  /\ Output(n, p, "SIGNAL", {})
  /\ UNCHANGED <<cell, res, rx, done>>
-----------------------------------------------------------------------------
InconsistentUnlessNext(n, p, seqno) ==                         \* mutant
  seqno # (IF nbr[n][p] = NoNbr THEN 0 ELSE nbr[n][p])
Inconsistent(n, p, seqno) ==
  \/ nbr[n][p] = NoNbr /\ seqno # 0
  \/ nbr[n][p] \notin {NoNbr, 0} /\ seqno = 0

(* add_req_input, with the request's transaction t in block b: the chosen  *)
(* cells go to res_storage; short of NumCells there is no answer and what  *)
(* res_storage has no cell for is zeroed, which reads as timeslot 0.       *)
AddReqInput(n, p, b, t, offered) ==
  \E cells \in SUBSET (offered \cap FreeSlots(n)) :
    IF Cardinality(cells) = NumCells
    THEN /\ res' = [res EXCEPT ![n] = cells]
         /\ nbr' = [nbr EXCEPT ![n][p] = IF @ = NoNbr THEN 0 ELSE @]
         /\ HandOver(n, p, b, [t EXCEPT !.cb = TRUE],
                     Pkt("RESPONSE", "ADD", t.seqno, cells))
    ELSE /\ Cardinality(offered \cap FreeSlots(n)) < NumCells
         /\ cells = offered \cap FreeSlots(n)
         /\ res' = [res EXCEPT ![n] = cells \cup {SharedSlot}]
         /\ blk' = [blk EXCEPT ![n][b] = t]
         /\ UNCHANGED <<nbr, out>>

(* signal_req_input: the blacklist is copied to res_storage, where its     *)
(* first bytes, 0 and the low byte of the ASN, read as timeslot 0 or as    *)
(* one beyond the slotframe. No answer.                                    *)
SignalReqInput(n, b, t) ==
  /\ \E cells \in {{}, {SharedSlot}} : res' = [res EXCEPT ![n] = cells]
  /\ blk' = [blk EXCEPT ![n][b] = t]
  /\ UNCHANGED <<nbr, out>>

(* sixp_input and the SF's input, a request                                *)
ReceiveRequest(n) ==
  /\ rx[n] # <<>> /\ Head(rx[n]).pkt.kind = "REQUEST"
  /\ rx' = [rx EXCEPT ![n] = Tail(@)]
  /\ LET p == Head(rx[n]).src
         pkt == Head(rx[n]).pkt
     IN IF Busy(n, p) \/ Full(n)
        THEN /\ HandError(n, p, pkt.cmd, pkt.seqno)                 \* BUSY
             /\ UNCHANGED <<blk, nbr, res>>
        ELSE \E b \in Blocks :
               LET t == Moved(NewTrans(p, pkt.seqno, pkt.cmd, 2), "REQUEST_RECEIVED")
               IN /\ FirstFree(n, b)
                  /\ IF Inconsistent(n, p, pkt.seqno)
                     THEN /\ blk' = [blk EXCEPT ![n][b] = t]
                          /\ HandError(n, p, pkt.cmd,
                                       IF nbr[n][p] = NoNbr THEN 0 ELSE nbr[n][p])
                          /\ UNCHANGED <<nbr, res>>                 \* SEQNUM
                     ELSE IF pkt.cmd = "ADD"
                          THEN AddReqInput(n, p, b, t, pkt.cells)
                          ELSE SignalReqInput(n, b, t)
  /\ UNCHANGED <<cell, done>>

Mine(n, p, seqno) == {b \in Blocks : blk[n][b].peer = p /\ blk[n][b].seqno = seqno}

FitsAnyState(t) == t.cmd = "ADD"                               \* mutant
Fits(t) == t.cmd = "ADD" /\ Legal(t, "RESPONSE_RECEIVED")

(* sixp_input and response_input, a response: only to a running            *)
(* transaction of that number, which ends when it is not waiting for it.   *)
ReceiveResponse(n) ==
  /\ rx[n] # <<>> /\ Head(rx[n]).pkt.kind # "REQUEST"
  /\ rx' = [rx EXCEPT ![n] = Tail(@)]
  /\ LET p == Head(rx[n]).src
         pkt == Head(rx[n]).pkt
         mine == Mine(n, p, pkt.seqno)
         fits == \E b \in mine : Fits(blk[n][b])
     IN /\ blk' = [blk EXCEPT ![n] = [b \in Blocks |->
             IF b \in mine THEN MovedOrEnded(@[b], "RESPONSE_RECEIVED") ELSE @[b]]]
        /\ IF fits /\ pkt.kind = "RESPONSE" /\ nbr[n][p] # NoNbr
           THEN Install(n, Tx(p), pkt.cells)
           ELSE UNCHANGED cell
  /\ UNCHANGED <<nbr, res, out, done>>

CallsBackAnyway(t, ok) == t.state = "REQUEST_RECEIVED" /\ t.cb /\ t.cmd = "ADD"   \* mutant
CallsBackIfLost(t, ok) == ~ok /\ t.state = "REQUEST_RECEIVED" /\ t.cb             \* mutant

(* A block of a SIGNAL may have its callback too: it installs nothing.     *)
CallsBack(t, ok) == ok /\ t.state = "REQUEST_RECEIVED" /\ t.cb /\ t.cmd = "ADD"

(* tsch_tx_process_pending, mac_callback and, when an ADD was answered,    *)
(* add_response_sent_callback, which reads res_storage as it now is.       *)
TxDone(n) ==
  /\ rx[n] = <<>> /\ done[n] # <<>>
  /\ done' = [done EXCEPT ![n] = Tail(@)]
  /\ LET b == Head(done[n]).block
         ok == Head(done[n]).ok
     IN IF b = NoBlock
        THEN UNCHANGED <<blk, nbr, cell>>
        ELSE LET t == blk[n][b]
             IN /\ blk' = [blk EXCEPT ![n][b] = Reported(t, ok)]
                /\ nbr' = [nbr EXCEPT ![n] = [p \in Peers |->
                     IF p = t.peer THEN SeqnoReported(t, ok, @[p]) ELSE @[p]]]
                /\ IF CallsBack(t, ok) /\ nbr[n][t.peer] # NoNbr
                   THEN Install(n, Rx(t.peer), res[n])
                   ELSE UNCHANGED cell
  /\ UNCHANGED <<res, out, rx>>
-----------------------------------------------------------------------------
(* The slot interrupts at n and p settle the first frame from n to p: it   *)
(* got there or not, all its retransmissions included (a frame that comes  *)
(* twice is dropped by its MAC sequence number), and n was told or not.    *)
(* A node with a full input ring does not listen, one whose other ring is  *)
(* full does not send.                                                     *)
Transmit(n, p, got, told) ==
  /\ out[n][p] # <<>>
  /\ told => got
  /\ got /\ ~told => AckLoss
  /\ Lag \/ done[p] = <<>>
  /\ got => Len(rx[p]) < RingCap
  /\ Len(done[n]) < RingCap
  /\ out' = [out EXCEPT ![n][p] = Tail(@)]
  /\ done' = [done EXCEPT ![n] =
       Append(@, [to |-> p, kind |-> Head(out[n][p]).pkt.kind,
                  block |-> Head(out[n][p]).block, ok |-> told])]
  /\ rx' = IF got THEN [rx EXCEPT ![p] = Append(@, [src |-> n, pkt |-> Head(out[n][p]).pkt])]
           ELSE rx
  /\ UNCHANGED <<blk, nbr, cell, res>>

(* A frame of the transaction numbered k of n with p is inside TSCH. An    *)
(* error counts whatever its number: ERR_SEQNUM carries the sender's own.  *)
UnderWay(n, p, k) ==
  \/ \E i \in DOMAIN out[n][p] : LET f == out[n][p][i].pkt
                                IN f.seqno = k /\ f.kind # "ERROR"
  \/ \E i \in DOMAIN out[p][n] : LET f == out[p][n][i].pkt
                                IN f.seqno = k \/ f.kind = "ERROR"
  \/ \E i \in DOMAIN rx[p] : rx[p][i].src = n /\ rx[p][i].pkt.seqno = k

TimeoutAtOnce(n, b) ==                                         \* mutant
  /\ Idle(n)
  /\ blk[n][b].timer = "timeout"
  /\ blk' = [blk EXCEPT ![n][b] = FreeTrans(@.cb)]
  /\ UNCHANGED <<nbr, cell, res, out, rx, done>>

(* handle_trans_timeout, after 60 s, far longer than a frame takes in TSCH *)
(* unless Late.                                                            *)
Timeout(n, b) ==
  /\ Idle(n)
  /\ blk[n][b].timer = "timeout"
  /\ Late \/ ~UnderWay(n, blk[n][b].peer, blk[n][b].seqno)
  /\ blk' = [blk EXCEPT ![n][b] = Moved(@, "TERMINATING")]
  /\ UNCHANGED <<nbr, cell, res, out, rx, done>>

(* process_trans *)
ProcessTrans(n, b) ==
  /\ Idle(n)
  /\ blk[n][b].timer = "process"
  /\ blk' = [blk EXCEPT ![n][b] =
       IF @.state = "TERMINATING" THEN FreeTrans(@.cb)
       ELSE IF Over(@) THEN Moved(@, "TERMINATING")
       ELSE [@ EXCEPT !.timer = "timeout"]]
  /\ UNCHANGED <<nbr, cell, res, out, rx, done>>
-----------------------------------------------------------------------------
Init ==
  /\ blk = [n \in Peers |-> [b \in Blocks |-> FreeTrans(FALSE)]]
  /\ nbr = [n \in Peers |-> [p \in Peers |-> NoNbr]]
  /\ cell = [n \in Peers |-> [t \in Timeslots |-> IF t = SharedSlot THEN Shared ELSE Free]]
  /\ res = [n \in Peers |-> {}]
  /\ out = [n \in Peers |-> [p \in Peers |-> <<>>]]
  /\ rx = [n \in Peers |-> <<>>]
  /\ done = [n \in Peers |-> <<>>]

Next ==
  \/ \E e \in Asks : LinksAdded(e[1], e[2])
  \/ \E e \in Signals : BlSend(e[1], e[2])
  \/ \E n \in Peers : ReceiveRequest(n)
  \/ \E n \in Peers : ReceiveResponse(n)
  \/ \E n \in Peers : TxDone(n)
  \/ \E n, p \in Peers, got, told \in BOOLEAN : Transmit(n, p, got, told)
  \/ \E n \in Peers, b \in Blocks : Timeout(n, b)
  \/ \E n \in Peers, b \in Blocks : ProcessTrans(n, b)

Spec == Init /\ [][Next]_vars

(* The next request comes 60 to 90 s after one, at random, and both ends   *)
(* give that one up after 60 s: again and again neither has a transaction  *)
(* with the other. The timeslots offered are drawn at random and a loss    *)
(* depends on neither them nor the nodes' state: each timeslot that is     *)
(* free at such times again and again is offered then, and a frame of each *)
(* kind gets through now and then. Contiki runs what is pending, and an    *)
(* expired timer when nothing is.                                          *)
AskFair(n, p) ==
  /\ []<>(~Busy(n, p) /\ ~Busy(p, n))
  /\ \A t \in Timeslots \ {SharedSlot} :
       /\ SF_vars(~Busy(p, n) /\ \E cells \in SUBSET Timeslots :
                                  t \in cells /\ Draw(n, p, cells))
       /\ SF_vars(/\ ~Busy(p, n) /\ Transmit(n, p, TRUE, TRUE)
                  /\ t \in Head(out[n][p]).pkt.cells)
  /\ SF_vars(/\ Transmit(p, n, TRUE, TRUE)
             /\ Head(out[p][n]).pkt.kind = "RESPONSE")

Fairness ==
  /\ \A e \in Asks : AskFair(e[1], e[2])
  /\ WF_vars(\E n, p \in Peers, got, told \in BOOLEAN : Transmit(n, p, got, told))
  /\ \A n \in Peers : WF_vars(ReceiveRequest(n) \/ ReceiveResponse(n) \/ TxDone(n))
  /\ \A n \in Peers, b \in Blocks : SF_vars(Timeout(n, b) \/ ProcessTrans(n, b))

FairSpec == Spec /\ Fairness
-----------------------------------------------------------------------------
(* Properties *)

(* A cell a node uses to transmit is one its peer listens on, or will once *)
(* the acknowledged answer is reported to it: otherwise every frame sent   *)
(* there is lost without either node ever noticing.                        *)
TxHasRx ==
  \A n, p \in Peers, t \in Timeslots :
    cell[n][t] = Tx(p) =>
      \/ cell[p][t] = Rx(n)
      \/ \E b \in Blocks : /\ blk[p][b].peer = n
                           /\ blk[p][b].state = "REQUEST_RECEIVED"
                           /\ blk[p][b].cb
                           /\ \E i \in DOMAIN done[p] : done[p][i] = [to |-> n, kind |-> "RESPONSE", block |-> b, ok |-> TRUE]
                           /\ t \in res[p]

(* A cell a node listens on is one its peer transmits in, or will once it  *)
(* handles the response it has received: no radio time is spent for ever   *)
(* on a cell nobody sends in.                                              *)
RxHasTx ==
  \A n, p \in Peers, t \in Timeslots :
    cell[n][t] = Rx(p) =>
      \/ cell[p][t] = Tx(n)
      \/ \E i \in DOMAIN rx[p] : /\ rx[p][i].src = n
                                 /\ rx[p][i].pkt.kind = "RESPONSE"
                                 /\ t \in rx[p][i].pkt.cells

(* However requests and answers are lost, repeated or late, a node never   *)
(* gets more dedicated cells to a peer than one request asks for: no       *)
(* answer to an earlier request is taken for one to the present request    *)
(* after that was answered.                                                *)
NoSurplus ==
  \A n, p \in Peers :
    Cardinality({t \in Timeslots : cell[n][t] = Tx(p)}) <= NumCells

(* Every node that asks gets its cell, and the peer listens in it: no      *)
(* sequence of losses, refusals and timeouts keeps the two apart for ever. *)
Paired ==
  \A e \in Asks :
    <>[](\E t \in Timeslots : cell[e[1]][t] = Tx(e[2]) /\ cell[e[2]][t] = Rx(e[1]))

(* "add: if and only if all the requested cells are available, accept the  *)
(* request" (sfsb.c): no installed cell takes the place of another.        *)
NeverEvicts ==
  [][\A n \in Peers, t \in Timeslots :
       cell[n][t] # Free => cell'[n][t] = cell[n][t]]_vars
=============================================================================
