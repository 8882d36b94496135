---------------------------- MODULE SfsbNetProofs ----------------------------
(***************************************************************************)
(* Proofs about the negotiation of dedicated cells, for any number of      *)
(* nodes, timeslots, cells asked for and frames inside TSCH.               *)
(***************************************************************************)
EXTENDS SfsbNetRefines, CommonLemmas

MaybeSeqNos == SeqNos \cup {NoNbr}
MaybeBlocks == Blocks \cup {NoBlock}

(* What lies in the queues, the rings of received frames and of reports.   *)
Queued == [pkt : Contents, block : MaybeBlocks]
Received == [src : Peers, pkt : Contents]
Reports == [to : Peers, kind : {"REQUEST", "RESPONSE", "ERROR"}, block : MaybeBlocks, ok : BOOLEAN]
-----------------------------------------------------------------------------
(* Transactions: what a move, a report and the state machine do to one.    *)

LEMMA MovedFields ==
  ASSUME NEW t \in Trans, NEW new \in States
  PROVE  /\ Moved(t, new) \in Trans
         /\ Moved(t, new).peer = t.peer /\ Moved(t, new).seqno = t.seqno
         /\ Moved(t, new).cmd = t.cmd /\ Moved(t, new).cb = t.cb
         /\ Moved(t, new).state = new /\ Moved(t, new).timer = "process"
BY DEF Moved, Trans, Timers

LEMMA MovedOrEndedFields ==
  ASSUME NEW t \in Trans, NEW new \in States
  PROVE  /\ MovedOrEnded(t, new) \in Trans
         /\ MovedOrEnded(t, new).peer = t.peer /\ MovedOrEnded(t, new).seqno = t.seqno
         /\ MovedOrEnded(t, new).cmd = t.cmd
         /\ MovedOrEnded(t, new).state = (IF Legal(t, new) THEN new ELSE "TERMINATING")
         /\ MovedOrEnded(t, new).timer = "process"
<1>1. PICK last \in States : last = IF Legal(t, new) THEN new ELSE "TERMINATING"
  BY DEF States
<1>2. MovedOrEnded(t, new) = Moved(t, last)
  BY <1>1 DEF MovedOrEnded
<1> QED BY <1>1, <1>2, MovedFields

LEMMA CallbackFields ==
  ASSUME NEW t \in Trans, NEW b \in BOOLEAN
  PROVE  LET u == [t EXCEPT !.cb = b]
         IN /\ u \in Trans
            /\ u.peer = t.peer /\ u.seqno = t.seqno /\ u.cmd = t.cmd
            /\ u.state = t.state /\ u.timer = t.timer /\ u.cb = b
BY DEF Trans

LEMMA TimerFields ==
  ASSUME NEW t \in Trans, NEW m \in Timers
  PROVE  LET u == [t EXCEPT !.timer = m]
         IN /\ u \in Trans
            /\ u.peer = t.peer /\ u.seqno = t.seqno /\ u.cmd = t.cmd
            /\ u.state = t.state /\ u.timer = m /\ u.cb = t.cb
BY DEF Trans

LEMMA FreeFields ==
  ASSUME NEW b \in BOOLEAN
  PROVE  /\ FreeTrans(b) \in Trans /\ FreeTrans(b).peer = NoPeer
         /\ FreeTrans(b).state = "TERMINATING" /\ FreeTrans(b).timer = "off"
BY SixpTransAssumption DEF FreeTrans, Trans, States, Timers, SeqNos

(* mac_callback                                                            *)
LEMMA ReportedFields ==
  ASSUME NEW t \in Trans, NEW ok \in BOOLEAN
  PROVE  /\ Reported(t, ok) \in Trans
         /\ Reported(t, ok).peer = t.peer /\ Reported(t, ok).seqno = t.seqno
         /\ Reported(t, ok).cmd = t.cmd
         /\ ~ok => /\ Reported(t, ok).state = IF t.state = "INIT" THEN "TERMINATING" ELSE t.state
                   /\ ~Reported(t, ok).cb
         /\ ok /\ t.state = "INIT" => Reported(t, ok).state = "REQUEST_SENT"
         /\ ok /\ t.state = "REQUEST_RECEIVED" => Reported(t, ok).state = "RESPONSE_SENT"
         /\ ok /\ t.state = "TERMINATING" => Reported(t, ok) = t
         /\ t.timer # "off" => Reported(t, ok).timer # "off"
         /\ t.state = "TERMINATING" /\ t.timer = "off" =>
              Reported(t, ok).state = "TERMINATING" /\ Reported(t, ok).timer = "off"
<1>1. CASE ~ok
  <2>1. PICK u \in Trans :
          /\ u = IF t.state = "INIT" THEN Moved(t, "TERMINATING") ELSE t
          /\ u.peer = t.peer /\ u.seqno = t.seqno /\ u.cmd = t.cmd
          /\ u.state = IF t.state = "INIT" THEN "TERMINATING" ELSE t.state
          /\ u.timer = IF t.state = "INIT" THEN "process" ELSE t.timer
    BY MovedFields DEF States
  <2>2. Reported(t, ok) = [u EXCEPT !.cb = FALSE]
    BY <1>1, <2>1 DEF Reported
  <2> QED BY <1>1, <2>1, <2>2, CallbackFields
<1>2. CASE ok /\ AckedState(t) = t.state
  BY <1>2 DEF Reported, AckedState
<1>3. CASE ok /\ AckedState(t) # t.state
  <2>1. AckedState(t) \in States
    BY DEF AckedState, Trans, States
  <2>2. PICK u : u = MovedOrEnded(t, AckedState(t))
    OBVIOUS
  <2>3. /\ u \in Trans /\ u.peer = t.peer /\ u.seqno = t.seqno /\ u.cmd = t.cmd
        /\ u.state = (IF Legal(t, AckedState(t)) THEN AckedState(t) ELSE "TERMINATING")
        /\ u.timer = "process"
    BY <2>1, <2>2, MovedOrEndedFields
  <2>4. PICK b \in BOOLEAN : b = (t.cb /\ ~Legal(t, AckedState(t)))
    BY Zenon
  <2>5. Reported(t, ok) = [u EXCEPT !.cb = b]
    BY <1>3, <2>2, <2>4 DEF Reported
  <2>6. t.state \in {"INIT", "REQUEST_RECEIVED"} => Legal(t, AckedState(t))
    BY DEF Legal, AckedState
  <2>7. /\ t.state = "INIT" => AckedState(t) = "REQUEST_SENT"
        /\ t.state = "REQUEST_RECEIVED" => AckedState(t) = "RESPONSE_SENT"
        /\ t.state # "TERMINATING"
    BY <1>3 DEF AckedState
  <2>8. PICK w : w = [u EXCEPT !.cb = b]
    OBVIOUS
  <2>9. /\ w \in Trans /\ w.peer = u.peer /\ w.seqno = u.seqno /\ w.cmd = u.cmd
        /\ w.state = u.state /\ w.timer = u.timer
    BY <2>3, <2>8, CallbackFields
  <2>10. Reported(t, ok) = w
    BY <2>5, <2>8
  <2> QED BY <1>3, <2>3, <2>6, <2>7, <2>9, <2>10
<1> QED BY <1>1, <1>2, <1>3

(* A number of a neighbour stays one, and no number appears.               *)
LEMMA SeqnoReportedType ==
  ASSUME NEW t \in Trans, NEW ok \in BOOLEAN, NEW n \in MaybeSeqNos
  PROVE  /\ SeqnoReported(t, ok, n) \in MaybeSeqNos
         /\ SeqnoReported(t, ok, n) = NoNbr <=> n = NoNbr
<1>1. \A k \in SeqNos : NextSeqno(k) \in SeqNos
  BY SixpTransAssumption DEF SeqNos, NextSeqno
<1>2. \A k \in SeqNos : k # NoNbr
  BY SixpTransAssumption DEF SeqNos
<1>3. t.seqno \in SeqNos
  BY DEF Trans
<1>4. SeqnoReported(t, ok, n) \in {n, NextSeqno(n), NextSeqno(t.seqno)}
  BY DEF SeqnoReported, SeqnoMoved
<1>5. n = NoNbr => SeqnoReported(t, ok, n) = n
  BY DEF SeqnoReported, SeqnoMoved
<1> QED BY <1>1, <1>2, <1>3, <1>4, <1>5 DEF MaybeSeqNos
-----------------------------------------------------------------------------
(* Types.                                                                  *)

LEMMA PktType ==
  ASSUME NEW kind \in {"REQUEST", "RESPONSE", "ERROR"}, NEW c \in Cmds, NEW k \in SeqNos,
         NEW cells \in SUBSET Timeslots
  PROVE  Pkt(kind, c, k, cells) \in Contents
BY DEF Pkt, Contents

LEMMA HandOverType ==
  ASSUME TypeOK, NEW n \in Peers, NEW p \in Peers, NEW b \in Blocks,
         NEW t \in Trans, NEW pkt \in Contents, HandOver(n, p, b, t, pkt)
  PROVE  /\ blk' \in [Peers -> [Blocks -> Trans]]
         /\ out' \in [Peers -> [Peers -> Seq(Queued)]]
<1>1. out \in [Peers -> [Peers -> Seq(Queued)]] /\ blk \in [Peers -> [Blocks -> Trans]]
  BY DEF TypeOK, Queued, MaybeBlocks
<1>2. PICK u \in Trans : u = Reported(t, FALSE)
  BY ReportedFields
<1>3. PICK f \in Queued : f = [pkt |-> pkt, block |-> b]
  BY DEF Queued, MaybeBlocks
<1>4. CASE Len(out[n][p]) < QueueCap
  <2>1. blk' = [blk EXCEPT ![n][b] = t] /\ out' = [out EXCEPT ![n][p] = Append(@, f)]
    BY <1>3, <1>4 DEF HandOver
  <2>2. Append(out[n][p], f) \in Seq(Queued)
    BY <1>1, <1>3, AppendProperties
  <2> QED BY <1>1, <2>1, <2>2
<1>5. CASE ~(Len(out[n][p]) < QueueCap)
  <2>1. blk' = [blk EXCEPT ![n][b] = u] /\ out' = out
    BY <1>2, <1>5 DEF HandOver
  <2> QED BY <1>1, <1>2, <2>1
<1> QED BY <1>4, <1>5

LEMMA HandErrorType ==
  ASSUME TypeOK, NEW n \in Peers, NEW p \in Peers, NEW c \in Cmds, NEW k \in SeqNos,
         HandError(n, p, c, k)
  PROVE  out' \in [Peers -> [Peers -> Seq(Queued)]]
<1>1. out \in [Peers -> [Peers -> Seq(Queued)]]
  BY DEF TypeOK, Queued, MaybeBlocks
<1>2. PICK f \in Queued : f = [pkt |-> Pkt("ERROR", c, k, {}), block |-> NoBlock]
  BY PktType DEF Queued, MaybeBlocks
<1>3. Append(out[n][p], f) \in Seq(Queued)
  BY <1>1, <1>2, AppendProperties
<1>4. out' = [out EXCEPT ![n][p] = Append(@, f)] \/ out' = out
  <2>1. CASE Len(out[n][p]) < QueueCap
    BY <1>2, <2>1 DEF HandError
  <2>2. CASE ~(Len(out[n][p]) < QueueCap)
    BY <2>2 DEF HandError
  <2> QED BY <2>1, <2>2
<1>5. CASE out' = [out EXCEPT ![n][p] = Append(@, f)]
  BY <1>1, <1>3, <1>5
<1> QED BY <1>1, <1>4, <1>5

LEMMA ZeroSeqno == 0 \in SeqNos /\ NoNbr \notin SeqNos
BY SixpTransAssumption DEF SeqNos

LEMMA OutputType ==
  ASSUME TypeOK, NEW n \in Peers, NEW p \in Peers, NEW c \in Cmds,
         NEW cells \in SUBSET Timeslots, Output(n, p, c, cells),
         UNCHANGED <<cell, res, rx, done>>
  PROVE  TypeOK'
<1>1. PICK seqno \in SeqNos : seqno = IF nbr[n][p] = NoNbr THEN 0 ELSE nbr[n][p]
  BY ZeroSeqno DEF TypeOK
<1>2. nbr' \in [Peers -> [Peers -> SeqNos \cup {NoNbr}]]
  BY <1>1 DEF Output, TypeOK
<1>3. PICK cb \in BOOLEAN : cb = (c = "SIGNAL")
  OBVIOUS
<1>4. PICK t \in Trans : t = [NewTrans(p, seqno, c, 2) EXCEPT !.cb = cb]
  <2>1. PICK u : u = NewTrans(p, seqno, c, 2)
    OBVIOUS
  <2>2. u \in Trans
    BY <1>1, <2>1 DEF NewTrans, Trans, States, Timers
  <2> QED BY <2>1, <2>2, CallbackFields
<1>5. PICK pkt \in Contents : pkt = Pkt("REQUEST", c, seqno, cells)
  BY <1>1, PktType
<1>6. \/ UNCHANGED <<blk, out>>
      \/ \E b \in Blocks : HandOver(n, p, b, t, pkt)
  BY <1>1, <1>3, <1>4, <1>5 DEF Output
<1>7. /\ blk' \in [Peers -> [Blocks -> Trans]]
      /\ out' \in [Peers -> [Peers -> Seq(Queued)]]
  <2>1. CASE UNCHANGED <<blk, out>>
    BY <2>1 DEF TypeOK, Queued, MaybeBlocks
  <2> QED BY <1>6, <2>1, HandOverType
<1> QED BY <1>2, <1>7 DEF TypeOK, Queued, MaybeBlocks

LEMMA InstallType ==
  ASSUME TypeOK, NEW n \in Peers, NEW link \in Links, NEW slots, Install(n, link, slots)
  PROVE  cell' \in [Peers -> [Timeslots -> Links]]
BY DEF TypeOK, Install

LEMMA RequestType ==
  ASSUME TypeOK, NEW n \in Peers, ReceiveRequest(n)
  PROVE  TypeOK'
<1>1. rx[n] \in Seq(Received) /\ rx[n] # <<>>
  BY DEF TypeOK, Received, ReceiveRequest
<1>2. PICK r \in Received : r = Head(rx[n])
  BY <1>1, HeadTaken
<1>3. PICK p \in Peers, pkt \in Contents : p = r.src /\ pkt = r.pkt
  BY <1>2 DEF Received
<1>4. rx' \in [Peers -> Seq(Received)]
  <2>1. Tail(rx[n]) \in Seq(Received)
    BY <1>1, HeadTaken
  <2> QED BY <2>1 DEF ReceiveRequest, TypeOK, Received
<1>5. pkt.seqno \in SeqNos /\ pkt.cells \in SUBSET Timeslots
  BY <1>3 DEF Contents
<1>6. CASE Busy(n, p) \/ Full(n)
  <2>1. HandError(n, p, pkt.cmd, pkt.seqno) /\ UNCHANGED <<blk, nbr, res, cell, done>>
    BY <1>2, <1>3, <1>6 DEF ReceiveRequest
  <2>2. out' \in [Peers -> [Peers -> Seq(Queued)]]
    BY <2>1, <1>5, HandErrorType DEF Contents
  <2> QED BY <1>4, <2>1, <2>2 DEF TypeOK, Queued, MaybeBlocks, Received
<1>7. CASE ~(Busy(n, p) \/ Full(n))
  <2>1. PICK t : t = Moved(NewTrans(p, pkt.seqno, pkt.cmd, 2), "REQUEST_RECEIVED")
    OBVIOUS
  <2>2. pkt.cmd \in Cmds
    BY DEF Contents
  <2>3. t \in Trans /\ t.seqno = pkt.seqno
    <3>1. PICK v : v = NewTrans(p, pkt.seqno, pkt.cmd, 2)
      OBVIOUS
    <3>2. v \in Trans /\ v.seqno = pkt.seqno
      BY <1>5, <2>2, <3>1 DEF NewTrans, Trans, States, Timers
    <3> QED BY <2>1, <3>1, <3>2, MovedFields DEF States
  <2>4. PICK b \in Blocks :
          IF Inconsistent(n, p, pkt.seqno)
          THEN /\ blk' = [blk EXCEPT ![n][b] = t]
               /\ HandError(n, p, pkt.cmd, IF nbr[n][p] = NoNbr THEN 0 ELSE nbr[n][p])
               /\ UNCHANGED <<nbr, res>>
          ELSE IF pkt.cmd = "ADD" THEN AddReqInput(n, p, b, t, pkt.cells)
               ELSE SignalReqInput(n, b, t)
    BY <1>2, <1>3, <1>7, <2>1 DEF ReceiveRequest
  <2>5. UNCHANGED <<cell, done>>
    BY DEF ReceiveRequest
  <2>6. CASE Inconsistent(n, p, pkt.seqno)
    <3>1. PICK k \in SeqNos : k = IF nbr[n][p] = NoNbr THEN 0 ELSE nbr[n][p]
      BY ZeroSeqno DEF TypeOK
    <3>2. out' \in [Peers -> [Peers -> Seq(Queued)]]
      BY <2>2, <2>4, <2>6, <3>1, HandErrorType
    <3>3. blk' = [blk EXCEPT ![n][b] = t] /\ UNCHANGED <<nbr, res>>
      BY <2>4, <2>6
    <3>4. blk' \in [Peers -> [Blocks -> Trans]]
      BY <2>3, <3>3 DEF TypeOK
    <3> QED BY <1>4, <2>5, <3>2, <3>3, <3>4 DEF TypeOK, Queued, MaybeBlocks, Received
  <2>7. CASE ~Inconsistent(n, p, pkt.seqno) /\ pkt.cmd # "ADD"
    <3>1. SignalReqInput(n, b, t)
      BY <2>4, <2>7
    <3>2. PICK cells \in {{}, {SharedSlot}} : res' = [res EXCEPT ![n] = cells]
      BY <3>1 DEF SignalReqInput
    <3>3. cells \in SUBSET Timeslots
      BY <3>2, SfsbNetAssumption
    <3> QED BY <1>4, <2>3, <2>5, <3>1, <3>2, <3>3
            DEF SignalReqInput, TypeOK, Queued, MaybeBlocks, Received
  <2>8. CASE ~Inconsistent(n, p, pkt.seqno) /\ pkt.cmd = "ADD"
    <3>1. AddReqInput(n, p, b, t, pkt.cells)
      BY <2>4, <2>8
    <3>2. PICK cells \in SUBSET (pkt.cells \cap FreeSlots(n)) :
            IF Cardinality(cells) = NumCells
            THEN /\ res' = [res EXCEPT ![n] = cells]
                 /\ nbr' = [nbr EXCEPT ![n][p] = IF @ = NoNbr THEN 0 ELSE @]
                 /\ HandOver(n, p, b, [t EXCEPT !.cb = TRUE], Pkt("RESPONSE", "ADD", t.seqno, cells))
            ELSE /\ Cardinality(pkt.cells \cap FreeSlots(n)) < NumCells
                 /\ cells = pkt.cells \cap FreeSlots(n)
                 /\ res' = [res EXCEPT ![n] = cells \cup {SharedSlot}]
                 /\ blk' = [blk EXCEPT ![n][b] = t]
                 /\ UNCHANGED <<nbr, out>>
      BY <3>1 DEF AddReqInput
    <3>3. cells \in SUBSET Timeslots /\ SharedSlot \in Timeslots
      BY <1>5, SfsbNetAssumption
    <3>4. CASE Cardinality(cells) = NumCells
      <4>1. PICK u \in Trans : u = [t EXCEPT !.cb = TRUE]
        BY <2>3, CallbackFields
      <4>2. PICK answer \in Contents : answer = Pkt("RESPONSE", "ADD", t.seqno, cells)
        BY <1>5, <2>2, <2>3, <2>8, <3>3, PktType
      <4>3. HandOver(n, p, b, u, answer)
        BY <3>2, <3>4, <4>1, <4>2
      <4>4. /\ blk' \in [Peers -> [Blocks -> Trans]]
            /\ out' \in [Peers -> [Peers -> Seq(Queued)]]
        BY <4>3, HandOverType
      <4>5. nbr' \in [Peers -> [Peers -> SeqNos \cup {NoNbr}]]
        <5>1. PICK m \in SeqNos \cup {NoNbr} : m = IF nbr[n][p] = NoNbr THEN 0 ELSE nbr[n][p]
          BY ZeroSeqno DEF TypeOK
        <5>2. nbr' = [nbr EXCEPT ![n][p] = m]
          BY <3>2, <3>4, <5>1
        <5> QED BY <5>1, <5>2 DEF TypeOK
      <4>6. res' \in [Peers -> SUBSET Timeslots]
        BY <3>2, <3>3, <3>4 DEF TypeOK
      <4> QED BY <1>4, <2>5, <4>4, <4>5, <4>6 DEF TypeOK, Queued, MaybeBlocks, Received
    <3>5. CASE Cardinality(cells) # NumCells
      <4>1. /\ res' = [res EXCEPT ![n] = cells \cup {SharedSlot}]
            /\ blk' = [blk EXCEPT ![n][b] = t]
            /\ UNCHANGED <<nbr, out>>
        BY <3>2, <3>5
      <4> QED BY <1>4, <2>3, <2>5, <3>3, <4>1 DEF TypeOK, Queued, MaybeBlocks, Received
    <3> QED BY <3>4, <3>5
  <2> QED BY <2>6, <2>7, <2>8
<1> QED BY <1>6, <1>7

LEMMA ResponseType ==
  ASSUME TypeOK, NEW n \in Peers, ReceiveResponse(n)
  PROVE  TypeOK'
<1>1. rx[n] \in Seq(Received) /\ rx[n] # <<>>
  BY DEF TypeOK, Received, ReceiveResponse
<1>2. PICK r \in Received : r = Head(rx[n])
  BY <1>1, HeadTaken
<1>3. PICK p \in Peers, pkt \in Contents : p = r.src /\ pkt = r.pkt
  BY <1>2 DEF Received
<1>4. rx' \in [Peers -> Seq(Received)]
  <2>1. Tail(rx[n]) \in Seq(Received)
    BY <1>1, HeadTaken
  <2> QED BY <2>1 DEF ReceiveResponse, TypeOK, Received
<1>5. blk' \in [Peers -> [Blocks -> Trans]]
  <2>1. PICK moved : moved = [b \in Blocks |->
          IF b \in Mine(n, p, pkt.seqno) THEN MovedOrEnded(blk[n][b], "RESPONSE_RECEIVED") ELSE blk[n][b]]
    OBVIOUS
  <2>2. moved \in [Blocks -> Trans]
    <3>1. \A b \in Blocks : blk[n][b] \in Trans /\ MovedOrEnded(blk[n][b], "RESPONSE_RECEIVED") \in Trans
      BY MovedOrEndedFields DEF TypeOK, States
    <3> QED BY <2>1, <3>1
  <2>3. blk' = [blk EXCEPT ![n] = moved]
    BY <1>2, <1>3, <2>1 DEF ReceiveResponse
  <2> QED BY <2>2, <2>3 DEF TypeOK
<1>6. cell' \in [Peers -> [Timeslots -> Links]]
  <2>1. Install(n, Tx(p), pkt.cells) \/ UNCHANGED cell
    BY <1>2, <1>3 DEF ReceiveResponse
  <2>2. Tx(p) \in Links
    BY DEF Links
  <2> QED BY <2>1, <2>2, InstallType DEF TypeOK
<1>7. UNCHANGED <<nbr, res, out, done>>
  BY DEF ReceiveResponse
<1> QED BY <1>4, <1>5, <1>6, <1>7 DEF TypeOK, Received

(* A block that is free was freed in the last state of a transaction.      *)
FreeIsOver(t) == t.peer = NoPeer => t.state = "TERMINATING"
FreeOver == \A n \in Peers, b \in Blocks : FreeIsOver(blk[n][b])

LEMMA TxDoneType ==
  ASSUME TypeOK, FreeOver, NEW n \in Peers, TxDone(n)
  PROVE  TypeOK'
<1>1. done[n] \in Seq(Reports) /\ done[n] # <<>>
  BY DEF TypeOK, Reports, MaybeBlocks, TxDone
<1>2. PICK d \in Reports : d = Head(done[n])
  BY <1>1, HeadTaken
<1>3. done' \in [Peers -> Seq(Reports)]
  <2>1. Tail(done[n]) \in Seq(Reports)
    BY <1>1, HeadTaken
  <2> QED BY <2>1 DEF TxDone, TypeOK, Reports, MaybeBlocks
<1>4. UNCHANGED <<res, out, rx>>
  BY DEF TxDone
<1>5. CASE d.block = NoBlock
  <2>1. UNCHANGED <<blk, nbr, cell>>
    BY <1>2, <1>5 DEF TxDone
  <2> QED BY <1>3, <1>4, <2>1 DEF TypeOK, Reports, MaybeBlocks
<1>6. CASE d.block # NoBlock
  <2>1. PICK b \in Blocks, ok \in BOOLEAN, t \in Trans : b = d.block /\ ok = d.ok /\ t = blk[n][b]
    BY <1>2, <1>6 DEF Reports, MaybeBlocks, TypeOK
  <2>2. /\ blk' = [blk EXCEPT ![n][b] = Reported(t, ok)]
        /\ nbr' = [nbr EXCEPT ![n] = [p \in Peers |->
                     IF p = t.peer THEN SeqnoReported(t, ok, nbr[n][p]) ELSE nbr[n][p]]]
        /\ IF CallsBack(t, ok) /\ nbr[n][t.peer] # NoNbr
           THEN Install(n, Rx(t.peer), res[n])
           ELSE UNCHANGED cell
    BY <1>2, <1>6, <2>1 DEF TxDone
  <2>3. blk' \in [Peers -> [Blocks -> Trans]]
    BY <2>1, <2>2, ReportedFields DEF TypeOK
  <2>4. nbr' \in [Peers -> [Peers -> MaybeSeqNos]]
    <3>1. PICK moved : moved = [p \in Peers |->
                     IF p = t.peer THEN SeqnoReported(t, ok, nbr[n][p]) ELSE nbr[n][p]]
      OBVIOUS
    <3>2. \A p \in Peers : nbr[n][p] \in MaybeSeqNos
      BY DEF TypeOK, MaybeSeqNos
    <3>3. moved \in [Peers -> MaybeSeqNos]
      BY <2>1, <3>1, <3>2, SeqnoReportedType
    <3> QED BY <2>2, <3>1, <3>3 DEF TypeOK, MaybeSeqNos
  <2>5. cell' \in [Peers -> [Timeslots -> Links]]
    <3>1. CASE t.peer \in Peers
      <4>1. Rx(t.peer) \in Links
        BY <3>1 DEF Links
      <4> QED BY <2>2, <4>1, InstallType DEF TypeOK
    <3>2. CASE t.peer \notin Peers
      <4>1. t.peer = NoPeer
        BY <3>2 DEF Trans
      <4>2. ~CallsBack(t, ok)
        BY <2>1, <4>1 DEF FreeOver, FreeIsOver, CallsBack
      <4> QED BY <2>2, <4>2 DEF TypeOK
    <3> QED BY <3>1, <3>2
  <2> QED BY <1>3, <1>4, <2>3, <2>4, <2>5 DEF TypeOK, Reports, MaybeBlocks, MaybeSeqNos
<1> QED BY <1>5, <1>6

LEMMA TransmitType ==
  ASSUME TypeOK, NEW n \in Peers, NEW p \in Peers, NEW got \in BOOLEAN, NEW told \in BOOLEAN,
         Transmit(n, p, got, told)
  PROVE  TypeOK'
<1>1. out[n][p] \in Seq(Queued) /\ out[n][p] # <<>>
  BY DEF TypeOK, Queued, MaybeBlocks, Transmit
<1>2. PICK f \in Queued : f = Head(out[n][p])
  BY <1>1, HeadTaken
<1>3. PICK rest \in Seq(Queued) : rest = Tail(out[n][p])
  BY <1>1, HeadTaken
<1>4. out' \in [Peers -> [Peers -> Seq(Queued)]]
  <2>1. out' = [out EXCEPT ![n][p] = rest]
    BY <1>3 DEF Transmit
  <2> QED BY <2>1 DEF TypeOK, Queued, MaybeBlocks
<1>5. done' \in [Peers -> Seq(Reports)]
  <2>1. PICK d \in Reports : d = [to |-> p, kind |-> f.pkt.kind, block |-> f.block, ok |-> told]
    BY <1>2 DEF Reports, Queued, Contents
  <2>2. done' = [done EXCEPT ![n] = Append(@, d)]
    BY <1>2, <2>1 DEF Transmit
  <2>3. done[n] \in Seq(Reports)
    BY DEF TypeOK, Reports, MaybeBlocks
  <2>4. Append(done[n], d) \in Seq(Reports)
    BY <2>3, AppendProperties
  <2> QED BY <2>2, <2>4 DEF TypeOK, Reports, MaybeBlocks
<1>6. rx' \in [Peers -> Seq(Received)]
  <2>1. PICK r \in Received : r = [src |-> n, pkt |-> f.pkt]
    BY <1>2 DEF Queued, Received
  <2>2. rx' = [rx EXCEPT ![p] = Append(@, r)] \/ rx' = rx
    BY <1>2, <2>1 DEF Transmit
  <2>3. rx[p] \in Seq(Received)
    BY DEF TypeOK, Received
  <2>4. Append(rx[p], r) \in Seq(Received)
    BY <2>3, AppendProperties
  <2> QED BY <2>2, <2>4 DEF TypeOK, Received
<1>7. UNCHANGED <<blk, nbr, cell, res>>
  BY DEF Transmit
<1> QED BY <1>4, <1>5, <1>6, <1>7 DEF TypeOK, Queued, Reports, MaybeBlocks, Received

LEMMA TimerType ==
  ASSUME TypeOK, NEW n \in Peers, NEW b \in Blocks, Timeout(n, b) \/ ProcessTrans(n, b)
  PROVE  TypeOK'
<1>1. PICK t \in Trans : t = blk[n][b]
  BY DEF TypeOK
<1>2. PICK u : /\ blk' = [blk EXCEPT ![n][b] = u]
               /\ u \in {Moved(t, "TERMINATING"), FreeTrans(t.cb), [t EXCEPT !.timer = "timeout"]}
  BY <1>1 DEF Timeout, ProcessTrans
<1>3. t.cb \in BOOLEAN
  BY DEF Trans
<1>4. u \in Trans
  <2>1. "TERMINATING" \in States /\ "timeout" \in Timers
    BY DEF States, Timers
  <2>2. Moved(t, "TERMINATING") \in Trans
    BY <2>1, MovedFields
  <2>3. FreeTrans(t.cb) \in Trans
    BY <1>3, FreeFields
  <2>4. [t EXCEPT !.timer = "timeout"] \in Trans
    BY <2>1, TimerFields
  <2> QED BY <1>2, <2>2, <2>3, <2>4
<1>5. blk' \in [Peers -> [Blocks -> Trans]]
  BY <1>2, <1>4 DEF TypeOK
<1>6. UNCHANGED <<nbr, cell, res, out, rx, done>>
  BY DEF Timeout, ProcessTrans
<1> QED BY <1>5, <1>6 DEF TypeOK

LEMMA InitType ==
  ASSUME Init
  PROVE  TypeOK
<1>1. FreeTrans(FALSE) \in Trans
  BY FreeFields
<1>2. blk \in [Peers -> [Blocks -> Trans]]
  BY <1>1 DEF Init
<1>3. cell \in [Peers -> [Timeslots -> Links]]
  BY DEF Init, Links
<1>4. /\ out \in [Peers -> [Peers -> Seq([pkt : Contents, block : Blocks \cup {NoBlock}])]]
      /\ rx \in [Peers -> Seq([src : Peers, pkt : Contents])]
      /\ done \in [Peers -> Seq([to : Peers, kind : {"REQUEST", "RESPONSE", "ERROR"},
                                 block : Blocks \cup {NoBlock}, ok : BOOLEAN])]
  BY EmptySeq DEF Init
<1>5. nbr \in [Peers -> [Peers -> SeqNos \cup {NoNbr}]] /\ res \in [Peers -> SUBSET Timeslots]
  BY DEF Init
<1> QED BY <1>2, <1>3, <1>4, <1>5 DEF TypeOK

LEMMA OverKept ==
  ASSUME NEW t \in Trans, FreeIsOver(t)
  PROVE  /\ \A ok \in BOOLEAN : FreeIsOver(Reported(t, ok))
         /\ t.peer \in Peers => FreeIsOver(MovedOrEnded(t, "RESPONSE_RECEIVED"))
         /\ FreeIsOver(Moved(t, "TERMINATING")) /\ FreeIsOver(FreeTrans(t.cb))
         /\ FreeIsOver([t EXCEPT !.timer = "timeout"])
<1>1. /\ "RESPONSE_RECEIVED" \in States /\ "TERMINATING" \in States /\ "timeout" \in Timers
      /\ t.cb \in BOOLEAN /\ NoPeer \notin Peers
  BY SixpTransAssumption DEF States, Timers, Trans
<1>2. \A ok \in BOOLEAN : FreeIsOver(Reported(t, ok))
  BY ReportedFields DEF FreeIsOver
<1>3. t.peer \in Peers => FreeIsOver(MovedOrEnded(t, "RESPONSE_RECEIVED"))
  BY <1>1, MovedOrEndedFields DEF FreeIsOver
<1>4. FreeIsOver(Moved(t, "TERMINATING")) /\ FreeIsOver(FreeTrans(t.cb))
  BY <1>1, MovedFields, FreeFields DEF FreeIsOver
<1>5. FreeIsOver([t EXCEPT !.timer = "timeout"])
  BY <1>1, TimerFields DEF FreeIsOver
<1> QED BY <1>2, <1>3, <1>4, <1>5

LEMMA HandOverOver ==
  ASSUME TypeOK, FreeOver, NEW n \in Peers, NEW p \in Peers, NEW b \in Blocks,
         NEW t \in Trans, NEW pkt, t.peer \in Peers, HandOver(n, p, b, t, pkt)
  PROVE  FreeOver'
<1>1. PICK u \in Trans : u = Reported(t, FALSE) /\ u.peer = t.peer
  BY ReportedFields
<1>2. PICK v \in Trans : blk' = [blk EXCEPT ![n][b] = v] /\ v.peer \in Peers
  <2>1. CASE Len(out[n][p]) < QueueCap
    BY <2>1 DEF HandOver
  <2>2. CASE ~(Len(out[n][p]) < QueueCap)
    BY <1>1, <2>2 DEF HandOver
  <2> QED BY <2>1, <2>2
<1>3. \A m \in Peers, c \in Blocks : blk'[m][c] = IF m = n /\ c = b THEN v ELSE blk[m][c]
  BY <1>2 DEF TypeOK
<1> QED BY <1>2, <1>3, SixpTransAssumption DEF FreeOver, FreeIsOver

LEMMA OneBlockOver ==
  ASSUME TypeOK, FreeOver, NEW n \in Peers, NEW b \in Blocks, NEW u,
         FreeIsOver(u), blk' = [blk EXCEPT ![n][b] = u]
  PROVE  FreeOver'
<1>1. \A m \in Peers, c \in Blocks : blk'[m][c] = IF m = n /\ c = b THEN u ELSE blk[m][c]
  BY DEF TypeOK
<1> QED BY <1>1 DEF FreeOver

LEMMA OutputOver ==
  ASSUME TypeOK, FreeOver, NEW n \in Peers, NEW p \in Peers, NEW c \in Cmds,
         NEW cells \in SUBSET Timeslots, Output(n, p, c, cells)
  PROVE  FreeOver'
<1>1. PICK k \in SeqNos : k = IF nbr[n][p] = NoNbr THEN 0 ELSE nbr[n][p]
  BY ZeroSeqno DEF TypeOK
<1>2. PICK cb \in BOOLEAN : cb = (c = "SIGNAL")
  OBVIOUS
<1>3. PICK u : u = NewTrans(p, k, c, 2)
  OBVIOUS
<1>4. u \in Trans /\ u.peer = p
  BY <1>1, <1>3 DEF NewTrans, Trans, States, Timers
<1>5. PICK t : t = [u EXCEPT !.cb = cb]
  OBVIOUS
<1>6. t \in Trans /\ t.peer \in Peers
  BY <1>4, <1>5, CallbackFields
<1>7. blk' = blk \/ \E b \in Blocks : HandOver(n, p, b, t, Pkt("REQUEST", c, k, cells))
  BY <1>1, <1>2, <1>3, <1>5 DEF Output
<1>8. CASE blk' = blk
  BY <1>8 DEF FreeOver
<1> QED BY <1>6, <1>7, <1>8, HandOverOver

LEMMA RequestOver ==
  ASSUME TypeOK, FreeOver, NEW n \in Peers, ReceiveRequest(n)
  PROVE  FreeOver'
<1>1. rx[n] \in Seq(Received) /\ rx[n] # <<>>
  BY DEF TypeOK, Received, ReceiveRequest
<1>2. PICK r \in Received : r = Head(rx[n])
  BY <1>1, HeadTaken
<1>3. PICK p \in Peers, pkt \in Contents : p = r.src /\ pkt = r.pkt
  BY <1>2 DEF Received
<1>4. PICK v : v = NewTrans(p, pkt.seqno, pkt.cmd, 2)
  OBVIOUS
<1>5. v \in Trans /\ v.peer = p
  BY <1>4 DEF Contents, NewTrans, Trans, States, Timers
<1>6. PICK t : t = Moved(v, "REQUEST_RECEIVED")
  OBVIOUS
<1>7. t \in Trans /\ t.peer = p
  BY <1>5, <1>6, MovedFields DEF States
<1>8. FreeIsOver(t)
  BY <1>7, SixpTransAssumption DEF FreeIsOver
<1>9. CASE blk' = blk
  BY <1>9 DEF FreeOver
<1>10. CASE blk' # blk
  <2>1. PICK b \in Blocks :
          blk' = [blk EXCEPT ![n][b] = t] \/ AddReqInput(n, p, b, t, pkt.cells)
    BY <1>2, <1>3, <1>4, <1>6, <1>10 DEF ReceiveRequest, SignalReqInput
  <2>2. CASE blk' = [blk EXCEPT ![n][b] = t]
    BY <1>8, <2>2, OneBlockOver
  <2>3. CASE AddReqInput(n, p, b, t, pkt.cells) /\ blk' # [blk EXCEPT ![n][b] = t]
    <3>1. PICK u : u = [t EXCEPT !.cb = TRUE]
      OBVIOUS
    <3>2. u \in Trans /\ u.peer \in Peers
      BY <1>7, <3>1, CallbackFields
    <3>3. \E cells : HandOver(n, p, b, u, Pkt("RESPONSE", "ADD", t.seqno, cells))
      BY <2>3, <3>1 DEF AddReqInput
    <3> QED BY <3>2, <3>3, HandOverOver
  <2> QED BY <2>1, <2>2, <2>3
<1> QED BY <1>9, <1>10

LEMMA ResponseOver ==
  ASSUME TypeOK, FreeOver, NEW n \in Peers, ReceiveResponse(n)
  PROVE  FreeOver'
<1>1. rx[n] \in Seq(Received) /\ rx[n] # <<>>
  BY DEF TypeOK, Received, ReceiveResponse
<1>2. PICK r \in Received : r = Head(rx[n])
  BY <1>1, HeadTaken
<1>3. PICK p \in Peers, pkt \in Contents : p = r.src /\ pkt = r.pkt
  BY <1>2 DEF Received
<1>4. PICK moved : moved = [b \in Blocks |->
        IF b \in Mine(n, p, pkt.seqno) THEN MovedOrEnded(blk[n][b], "RESPONSE_RECEIVED") ELSE blk[n][b]]
  OBVIOUS
<1>5. blk' = [blk EXCEPT ![n] = moved]
  BY <1>2, <1>3, <1>4 DEF ReceiveResponse
<1>6. \A b \in Blocks : FreeIsOver(moved[b])
  <2>1. SUFFICES ASSUME NEW b \in Blocks PROVE FreeIsOver(moved[b])
    OBVIOUS
  <2>2. blk[n][b] \in Trans /\ FreeIsOver(blk[n][b])
    BY DEF TypeOK, FreeOver
  <2>3. CASE b \in Mine(n, p, pkt.seqno)
    <3>1. blk[n][b].peer \in Peers
      BY <2>3 DEF Mine
    <3> QED BY <1>4, <2>2, <2>3, <3>1, OverKept
  <2>4. CASE b \notin Mine(n, p, pkt.seqno)
    BY <1>4, <2>2, <2>4
  <2> QED BY <2>3, <2>4
<1> QED BY <1>5, <1>6 DEF FreeOver, TypeOK

LEMMA TxDoneOver ==
  ASSUME TypeOK, FreeOver, NEW n \in Peers, TxDone(n)
  PROVE  FreeOver'
<1>1. done[n] \in Seq(Reports) /\ done[n] # <<>>
  BY DEF TypeOK, Reports, MaybeBlocks, TxDone
<1>2. PICK d \in Reports : d = Head(done[n])
  BY <1>1, HeadTaken
<1>3. CASE d.block = NoBlock
  BY <1>2, <1>3 DEF TxDone, FreeOver
<1>4. CASE d.block # NoBlock
  <2>1. PICK b \in Blocks, ok \in BOOLEAN : b = d.block /\ ok = d.ok
    BY <1>4 DEF Reports, MaybeBlocks
  <2>2. PICK t \in Trans : t = blk[n][b] /\ FreeIsOver(t)
    BY DEF TypeOK, FreeOver
  <2>3. blk' = [blk EXCEPT ![n][b] = Reported(t, ok)]
    BY <1>2, <1>4, <2>1, <2>2 DEF TxDone
  <2>4. FreeIsOver(Reported(t, ok))
    BY <2>2, OverKept
  <2> QED BY <2>3, <2>4, OneBlockOver
<1> QED BY <1>3, <1>4

LEMMA TimerOver ==
  ASSUME TypeOK, FreeOver, NEW n \in Peers, NEW b \in Blocks, Timeout(n, b) \/ ProcessTrans(n, b)
  PROVE  FreeOver'
<1>1. PICK t \in Trans : t = blk[n][b] /\ FreeIsOver(t)
  BY DEF TypeOK, FreeOver
<1>2. PICK u : /\ blk' = [blk EXCEPT ![n][b] = u]
               /\ u \in {Moved(t, "TERMINATING"), FreeTrans(t.cb), [t EXCEPT !.timer = "timeout"]}
  BY <1>1 DEF Timeout, ProcessTrans
<1>3. FreeIsOver(u)
  BY <1>1, <1>2, OverKept
<1> QED BY <1>2, <1>3, OneBlockOver

(* What the ring, the queues and the transactions of a node hold stays in  *)
(* its type, whatever is lost, late or refused.                            *)
THEOREM TypeCorrect == Spec => []TypeOK
<1>1. Init => TypeOK /\ FreeOver
  <2>1. Init => \A n \in Peers, b \in Blocks : FreeIsOver(blk[n][b])
    <3>1. FreeIsOver(FreeTrans(FALSE))
      BY FreeFields DEF FreeIsOver
    <3>2. Init => \A n \in Peers, b \in Blocks : blk[n][b] = FreeTrans(FALSE)
      BY DEF Init
    <3> QED BY <3>1, <3>2
  <2> QED BY <2>1, InitType DEF FreeOver
<1>2. TypeOK /\ FreeOver /\ [Next]_vars => TypeOK' /\ FreeOver'
  <2> SUFFICES ASSUME TypeOK, FreeOver, [Next]_vars PROVE TypeOK' /\ FreeOver'
    OBVIOUS
  <2>1. ASSUME NEW e \in Asks, LinksAdded(e[1], e[2]) PROVE TypeOK' /\ FreeOver'
    <3>1. e[1] \in Peers /\ e[2] \in Peers
      BY SfsbNetAssumption
    <3>2. PICK cells \in SUBSET Timeslots : Draw(e[1], e[2], cells)
      BY <2>1 DEF LinksAdded
    <3>3. /\ Output(e[1], e[2], "ADD", cells)
          /\ UNCHANGED <<cell, res, rx, done>>
      BY <3>2 DEF Draw
    <3> QED BY <3>1, <3>3, SfsbNetAssumption, OutputType, OutputOver
  <2>2. ASSUME NEW e \in Signals, BlSend(e[1], e[2]) PROVE TypeOK' /\ FreeOver'
    <3>1. e[1] \in Peers /\ e[2] \in Peers
      BY SfsbNetAssumption
    <3>2. /\ Output(e[1], e[2], "SIGNAL", {})
          /\ UNCHANGED <<cell, res, rx, done>>
      BY <2>2 DEF BlSend
    <3> QED BY <3>1, <3>2, SfsbNetAssumption, OutputType, OutputOver
  <2>3. ASSUME NEW n \in Peers, ReceiveRequest(n) \/ ReceiveResponse(n) \/ TxDone(n)
        PROVE  TypeOK' /\ FreeOver'
    BY <2>3, RequestType, ResponseType, TxDoneType, RequestOver, ResponseOver, TxDoneOver
  <2>4. ASSUME NEW n \in Peers, NEW p \in Peers, NEW got \in BOOLEAN, NEW told \in BOOLEAN,
               Transmit(n, p, got, told)
        PROVE  TypeOK' /\ FreeOver'
    <3>1. FreeOver'
      BY <2>4 DEF Transmit, FreeOver
    <3> QED BY <2>4, <3>1, TransmitType
  <2>5. ASSUME NEW n \in Peers, NEW b \in Blocks, Timeout(n, b) \/ ProcessTrans(n, b)
        PROVE  TypeOK' /\ FreeOver'
    BY <2>5, TimerType, TimerOver
  <2>6. CASE UNCHANGED vars
    BY <2>6 DEF vars, TypeOK, FreeOver
  <2> QED BY <2>1, <2>2, <2>3, <2>4, <2>5, <2>6 DEF Next
<1> QED BY <1>1, <1>2, PTL DEF Spec
-----------------------------------------------------------------------------
(* No more cells than one request asks for, whatever is lost or late.      *)

LEMMA LinksDiffer ==
  \A p, q : /\ Tx(p) = Tx(q) <=> p = q
            /\ Rx(p) = Rx(q) <=> p = q
            /\ Tx(p) # Rx(q) /\ Tx(p) # Free /\ Rx(p) # Free /\ Tx(p) # Shared /\ Rx(p) # Shared
            /\ Free # Shared
BY DEF Tx, Rx, Free, Shared

(* An ADD whose answer may still count.                                    *)
Asking(t) == t.cmd = "ADD" /\ t.state \in {"INIT", "REQUEST_SENT"}

(* A node has one transaction at most with each other one, ...             *)
OneEach ==
  \A n \in Peers, b, c \in Blocks :
    blk[n][b].peer # NoPeer /\ blk[n][b].peer = blk[n][c].peer => b = c

(* ... asks for cells to whom it has none to, ...                          *)
AsksIfNone ==
  \A n \in Peers, b \in Blocks :
    blk[n][b].peer \in Peers /\ Asking(blk[n][b]) => ~HasTx(n, blk[n][b].peer)

(* ... and no answer has more of them than were asked for.                 *)
Few(pkt) == pkt.kind = "RESPONSE" => Cardinality(pkt.cells) = NumCells
AnswersFew ==
  /\ \A n, p \in Peers : \A i \in DOMAIN out[n][p] : Few(out[n][p][i].pkt)
  /\ \A n \in Peers : \A i \in DOMAIN rx[n] : Few(rx[n][i].pkt)

SurplusInv == TypeOK /\ OneEach /\ AsksIfNone /\ AnswersFew /\ NoSurplus

(* Reports and moves ask for nothing.                                      *)
LEMMA AskingKept ==
  ASSUME NEW t \in Trans
  PROVE  /\ \A ok \in BOOLEAN : Asking(Reported(t, ok)) => Asking(t)
         /\ ~Asking(MovedOrEnded(t, "RESPONSE_RECEIVED"))
         /\ ~Asking(Moved(t, "TERMINATING"))
         /\ ~Asking(FreeTrans(t.cb))
         /\ \A ok \in BOOLEAN : Reported(t, ok).peer = t.peer
<1>1. ASSUME NEW ok \in BOOLEAN, Asking(Reported(t, ok)) PROVE Asking(t)
  <2>1. Reported(t, ok).cmd = t.cmd /\ Reported(t, ok).state \in {"INIT", "REQUEST_SENT"}
    BY <1>1, ReportedFields DEF Asking
  <2>2. CASE ~ok
    BY <2>1, <2>2, ReportedFields, <1>1 DEF Asking
  <2>3. CASE ok /\ t.state \in {"INIT", "REQUEST_SENT"}
    BY <2>1, <2>3, <1>1 DEF Asking
  <2>4. CASE ok /\ t.state \notin {"INIT", "REQUEST_SENT"}
    <3>1. CASE t.state \in {"REQUEST_RECEIVED", "TERMINATING"}
      BY <2>1, <2>4, <3>1, ReportedFields
    <3>2. CASE t.state \notin {"REQUEST_RECEIVED", "RESPONSE_RECEIVED", "TERMINATING"}
      <4>1. AckedState(t) = t.state
        BY <2>4, <3>2 DEF AckedState
      <4>2. Reported(t, ok) = t
        BY <2>4, <4>1 DEF Reported
      <4> QED BY <1>1, <4>2
    <3>3. CASE t.state = "RESPONSE_RECEIVED"
      <4>1. AckedState(t) = "CONFIRMATION_SENT" /\ "CONFIRMATION_SENT" \in States
        BY <3>3 DEF AckedState, States
      <4>2. PICK u \in Trans : u = MovedOrEnded(t, "CONFIRMATION_SENT")
        BY <4>1, MovedOrEndedFields
      <4>3. u.state \in {"CONFIRMATION_SENT", "TERMINATING"}
        BY <4>1, <4>2, MovedOrEndedFields
      <4>4. PICK b \in BOOLEAN : b = (t.cb /\ ~Legal(t, AckedState(t)))
        BY Zenon
      <4>5. Reported(t, ok) = [u EXCEPT !.cb = b]
        BY <2>4, <3>3, <4>1, <4>2, <4>4 DEF Reported
      <4>6. Reported(t, ok).state = u.state
        BY <4>5, CallbackFields
      <4> QED BY <2>1, <4>3, <4>6
    <3> QED BY <3>1, <3>2, <3>3
  <2> QED BY <2>2, <2>3, <2>4
<1>2. "RESPONSE_RECEIVED" \in States /\ "TERMINATING" \in States
  BY DEF States
<1>3. ~Asking(MovedOrEnded(t, "RESPONSE_RECEIVED"))
  BY <1>2, MovedOrEndedFields DEF Asking
<1>4. ~Asking(Moved(t, "TERMINATING"))
  BY <1>2, MovedFields DEF Asking
<1>5. ~Asking(FreeTrans(t.cb))
  BY DEF Asking, FreeTrans
<1> QED BY <1>1, <1>3, <1>4, <1>5, ReportedFields

(* What is left after the first, and what one more adds.                   *)
LEMMA TailFew ==
  ASSUME NEW S, NEW s \in Seq(S), s # <<>>, \A i \in DOMAIN s : Few(s[i].pkt)
  PROVE  Few(Head(s).pkt) /\ \A i \in DOMAIN Tail(s) : Few(Tail(s)[i].pkt)
<1>1. Head(s) = s[1] /\ 1 \in DOMAIN s
  BY HeadTaken
<1>2. \A i \in DOMAIN Tail(s) : i + 1 \in DOMAIN s /\ Tail(s)[i] = s[i + 1]
  BY HeadTaken
<1> QED BY <1>1, <1>2

LEMMA AppendFew ==
  ASSUME NEW S, NEW s \in Seq(S), NEW e \in S, \A i \in DOMAIN s : Few(s[i].pkt), Few(e.pkt)
  PROVE  \A i \in DOMAIN Append(s, e) : Few(Append(s, e)[i].pkt)
<1>1. Len(s) \in Nat /\ DOMAIN s = 1 .. Len(s)
  BY LenProperties
<1>2. DOMAIN Append(s, e) = 1 .. Len(s) + 1
  BY Appended
<1>3. \A i \in DOMAIN s : Append(s, e)[i] = s[i]
  BY Appended
<1>4. Append(s, e)[Len(s) + 1] = e
  BY Appended
<1> SUFFICES ASSUME NEW i \in 1 .. Len(s) + 1 PROVE Few(Append(s, e)[i].pkt)
  BY <1>2
<1>5. CASE i \in DOMAIN s
  BY <1>3, <1>5
<1>6. CASE i = Len(s) + 1
  BY <1>4, <1>6
<1> QED BY <1>1, <1>5, <1>6

LEMMA QueueTypes ==
  ASSUME TypeOK
  PROVE  /\ out \in [Peers -> [Peers -> Seq(Queued)]]
         /\ \A n, p \in Peers : out[n][p] \in Seq(Queued)
         /\ rx \in [Peers -> Seq(Received)] /\ \A n \in Peers : rx[n] \in Seq(Received)
         /\ done \in [Peers -> Seq(Reports)] /\ \A n \in Peers : done[n] \in Seq(Reports)
<1>1. out \in [Peers -> [Peers -> Seq(Queued)]]
  BY DEF TypeOK, Queued, MaybeBlocks
<1>2. rx \in [Peers -> Seq(Received)]
  BY DEF TypeOK, Received
<1>3. done \in [Peers -> Seq(Reports)]
  BY DEF TypeOK, Reports, MaybeBlocks
<1> QED BY <1>1, <1>2, <1>3

(* A frame handed over.                                                    *)
LEMMA HandOverFew ==
  ASSUME TypeOK, AnswersFew, NEW n \in Peers, NEW p \in Peers, NEW b \in Blocks,
         NEW t \in Trans, NEW pkt \in Contents, HandOver(n, p, b, t, pkt), Few(pkt)
  PROVE  /\ \A m, q \in Peers : \A i \in DOMAIN out'[m][q] : Few(out'[m][q][i].pkt)
         /\ \E u \in Trans : /\ blk' = [blk EXCEPT ![n][b] = u]
                             /\ u.peer = t.peer /\ (Asking(u) => Asking(t))
<1>1. PICK f : f = [pkt |-> pkt, block |-> b]
  OBVIOUS
<1>2. f \in Queued /\ f.pkt = pkt
  BY <1>1 DEF Queued, MaybeBlocks
<1>3. CASE Len(out[n][p]) < QueueCap
  <2>1. blk' = [blk EXCEPT ![n][b] = t] /\ out' = [out EXCEPT ![n][p] = Append(@, f)]
    BY <1>1, <1>3 DEF HandOver
  <2>2. PICK s : s = Append(out[n][p], f)
    OBVIOUS
  <2>3. \A i \in DOMAIN s : Few(s[i].pkt)
    BY <1>2, <2>2, QueueTypes, AppendFew DEF AnswersFew
  <2>4. \A m, q \in Peers : out'[m][q] = IF m = n /\ q = p THEN s ELSE out[m][q]
    BY <2>1, <2>2, QueueTypes
  <2>5. \A m, q \in Peers : \A i \in DOMAIN out'[m][q] : Few(out'[m][q][i].pkt)
    BY <2>3, <2>4 DEF AnswersFew
  <2> QED BY <2>1, <2>5
<1>4. CASE ~(Len(out[n][p]) < QueueCap)
  <2>1. blk' = [blk EXCEPT ![n][b] = Reported(t, FALSE)] /\ out' = out
    BY <1>4 DEF HandOver
  <2>2. /\ Reported(t, FALSE) \in Trans /\ Reported(t, FALSE).peer = t.peer
        /\ Asking(Reported(t, FALSE)) => Asking(t)
    BY AskingKept, ReportedFields
  <2> QED BY <2>1, <2>2 DEF AnswersFew
<1> QED BY <1>3, <1>4

LEMMA HandErrorFew ==
  ASSUME TypeOK, AnswersFew, NEW n \in Peers, NEW p \in Peers, NEW c \in Cmds, NEW k \in SeqNos,
         HandError(n, p, c, k)
  PROVE  \A m, q \in Peers : \A i \in DOMAIN out'[m][q] : Few(out'[m][q][i].pkt)
<1>1. PICK pkt \in Contents : pkt = Pkt("ERROR", c, k, {})
  BY PktType
<1>2. Few(pkt)
  BY <1>1 DEF Few, Pkt
<1>3. PICK f : f = [pkt |-> pkt, block |-> NoBlock]
  OBVIOUS
<1>4. f \in Queued /\ f.pkt = pkt
  BY <1>3 DEF Queued, MaybeBlocks
<1>5. CASE Len(out[n][p]) < QueueCap
  <2>1. out' = [out EXCEPT ![n][p] = Append(@, f)]
    BY <1>1, <1>3, <1>5 DEF HandError
  <2>2. PICK s : s = Append(out[n][p], f)
    OBVIOUS
  <2>3. \A i \in DOMAIN s : Few(s[i].pkt)
    BY <1>2, <1>4, <2>2, QueueTypes, AppendFew DEF AnswersFew
  <2>4. \A m, q \in Peers : out'[m][q] = IF m = n /\ q = p THEN s ELSE out[m][q]
    BY <2>1, <2>2, QueueTypes
  <2> QED BY <2>3, <2>4 DEF AnswersFew
<1>6. CASE ~(Len(out[n][p]) < QueueCap)
  BY <1>6 DEF HandError, AnswersFew
<1> QED BY <1>5, <1>6

(* Whatever changes the queues and one block, cells apart.                 *)
LEMMA SurplusKept ==
  ASSUME SurplusInv, TypeOK', AnswersFew', cell' = cell,
         NEW n \in Peers, NEW b \in Blocks, NEW u \in Trans, blk' = [blk EXCEPT ![n][b] = u],
         \/ u.peer = NoPeer
         \/ u.peer = blk[n][b].peer
         \/ \A c \in Blocks : blk[n][c].peer # u.peer,
         u.peer = blk[n][b].peer /\ Asking(u) => Asking(blk[n][b]),
         u.peer \in Peers /\ u.peer # blk[n][b].peer /\ Asking(u) => ~HasTx(n, u.peer)
  PROVE  SurplusInv'
<1>1. \A m \in Peers, c \in Blocks : blk'[m][c] = IF m = n /\ c = b THEN u ELSE blk[m][c]
  BY DEF SurplusInv, TypeOK
<1>2. OneEach'
  <2>1. SUFFICES ASSUME NEW m \in Peers, NEW c \in Blocks, NEW d \in Blocks,
                        blk'[m][c].peer # NoPeer, blk'[m][c].peer = blk'[m][d].peer
                 PROVE  c = d
    BY DEF OneEach
  <2>2. OneEach
    BY DEF SurplusInv
  <2>3. CASE m # n \/ (c # b /\ d # b)
    BY <1>1, <2>1, <2>2, <2>3 DEF OneEach
  <2>4. CASE m = n /\ c = b /\ d # b
    <3>1. blk'[m][c] = u /\ blk'[m][d] = blk[n][d]
      BY <1>1, <2>4
    <3> QED BY <2>1, <2>2, <2>4, <3>1 DEF OneEach
  <2>5. CASE m = n /\ c # b /\ d = b
    <3>1. blk'[m][d] = u /\ blk'[m][c] = blk[n][c]
      BY <1>1, <2>5
    <3> QED BY <2>1, <2>2, <2>5, <3>1 DEF OneEach
  <2> QED BY <2>3, <2>4, <2>5
<1>3. AsksIfNone'
  <2>1. SUFFICES ASSUME NEW m \in Peers, NEW c \in Blocks,
                        blk'[m][c].peer \in Peers, Asking(blk'[m][c]), HasTx(m, blk'[m][c].peer)
                 PROVE  FALSE
    BY DEF AsksIfNone, HasTx
  <2>2. AsksIfNone
    BY DEF SurplusInv
  <2>3. CASE m = n /\ c = b
    <3>1. blk'[m][c] = u
      BY <1>1, <2>3
    <3>2. CASE u.peer = blk[n][b].peer
      BY <2>1, <2>2, <2>3, <3>1, <3>2 DEF AsksIfNone
    <3>3. CASE u.peer # blk[n][b].peer
      BY <2>1, <2>3, <3>1, <3>3
    <3> QED BY <3>2, <3>3
  <2>4. CASE ~(m = n /\ c = b)
    BY <1>1, <2>1, <2>2, <2>4 DEF AsksIfNone
  <2> QED BY <2>3, <2>4
<1>4. NoSurplus'
  BY DEF SurplusInv, NoSurplus
<1> QED BY <1>2, <1>3, <1>4 DEF SurplusInv

LEMMA SurplusRequest ==
  ASSUME SurplusInv, TypeOK', NEW n \in Peers, ReceiveRequest(n)
  PROVE  SurplusInv'
<1>1. TypeOK /\ AnswersFew
  BY DEF SurplusInv
<1>2. rx[n] \in Seq(Received) /\ rx[n] # <<>>
  BY <1>1, QueueTypes DEF ReceiveRequest
<1>3. PICK r \in Received : r = Head(rx[n])
  BY <1>2, HeadTaken
<1>4. PICK p \in Peers, pkt \in Contents : p = r.src /\ pkt = r.pkt
  BY <1>3 DEF Received
<1>5. \A m \in Peers : \A i \in DOMAIN rx'[m] : Few(rx'[m][i].pkt)
  <2>1. PICK s : s = Tail(rx[n])
    OBVIOUS
  <2>2. \A i \in DOMAIN s : Few(s[i].pkt)
    BY <1>1, <1>2, <2>1, TailFew DEF AnswersFew
  <2>3. \A m \in Peers : rx'[m] = IF m = n THEN s ELSE rx[m]
    BY <1>1, <2>1, QueueTypes DEF ReceiveRequest
  <2> QED BY <1>1, <2>2, <2>3 DEF AnswersFew
<1>6. pkt.seqno \in SeqNos /\ pkt.cells \in SUBSET Timeslots /\ pkt.cmd \in Cmds
  BY <1>4 DEF Contents
<1>7. cell' = cell
  BY DEF ReceiveRequest
<1>8. CASE Busy(n, p) \/ Full(n)
  <2>1. HandError(n, p, pkt.cmd, pkt.seqno) /\ UNCHANGED <<blk, nbr, res, cell, done>>
    BY <1>3, <1>4, <1>8 DEF ReceiveRequest
  <2>2. AnswersFew'
    BY <1>1, <1>5, <1>6, <2>1, HandErrorFew DEF AnswersFew
  <2>3. OneEach' /\ AsksIfNone' /\ NoSurplus'
    BY <2>1 DEF SurplusInv, OneEach, AsksIfNone, NoSurplus, HasTx
  <2> QED BY <2>2, <2>3 DEF SurplusInv
<1>9. CASE ~(Busy(n, p) \/ Full(n))
  <2>1. PICK t : t = Moved(NewTrans(p, pkt.seqno, pkt.cmd, 2), "REQUEST_RECEIVED")
    OBVIOUS
  <2>2. t \in Trans /\ t.seqno = pkt.seqno /\ t.peer = p /\ ~Asking(t)
    <3>1. PICK v : v = NewTrans(p, pkt.seqno, pkt.cmd, 2)
      OBVIOUS
    <3>2. v \in Trans /\ v.seqno = pkt.seqno /\ v.peer = p
      BY <1>6, <3>1 DEF NewTrans, Trans, States, Timers
    <3> QED BY <2>1, <3>1, <3>2, MovedFields DEF States, Asking
  <2>3. PICK b \in Blocks :
          IF Inconsistent(n, p, pkt.seqno)
          THEN /\ blk' = [blk EXCEPT ![n][b] = t]
               /\ HandError(n, p, pkt.cmd, IF nbr[n][p] = NoNbr THEN 0 ELSE nbr[n][p])
          ELSE IF pkt.cmd = "ADD" THEN AddReqInput(n, p, b, t, pkt.cells)
               ELSE SignalReqInput(n, b, t)
    BY <1>3, <1>4, <1>9, <2>1 DEF ReceiveRequest
  <2>4. /\ \A m, q \in Peers : \A i \in DOMAIN out'[m][q] : Few(out'[m][q][i].pkt)
        /\ \E u \in Trans : blk' = [blk EXCEPT ![n][b] = u] /\ u.peer = p /\ ~Asking(u)
    <3>1. CASE Inconsistent(n, p, pkt.seqno)
      <4>1. PICK k \in SeqNos : k = IF nbr[n][p] = NoNbr THEN 0 ELSE nbr[n][p]
        BY <1>1, ZeroSeqno DEF TypeOK
      <4>2. HandError(n, p, pkt.cmd, k) /\ blk' = [blk EXCEPT ![n][b] = t]
        BY <2>3, <3>1, <4>1
      <4> QED BY <1>1, <1>6, <2>2, <4>2, HandErrorFew
    <3>2. CASE ~Inconsistent(n, p, pkt.seqno) /\ pkt.cmd # "ADD"
      <4>1. blk' = [blk EXCEPT ![n][b] = t] /\ out' = out
        BY <2>3, <3>2 DEF SignalReqInput
      <4> QED BY <1>1, <2>2, <4>1 DEF AnswersFew
    <3>3. CASE ~Inconsistent(n, p, pkt.seqno) /\ pkt.cmd = "ADD"
      <4>1. PICK cells \in SUBSET (pkt.cells \cap FreeSlots(n)) :
              IF Cardinality(cells) = NumCells
              THEN HandOver(n, p, b, [t EXCEPT !.cb = TRUE], Pkt("RESPONSE", "ADD", t.seqno, cells))
              ELSE blk' = [blk EXCEPT ![n][b] = t] /\ out' = out
        <5>1. AddReqInput(n, p, b, t, pkt.cells)
          BY <2>3, <3>3
        <5> QED BY <5>1 DEF AddReqInput
      <4>2. CASE Cardinality(cells) = NumCells
        <5>1. PICK u \in Trans : u = [t EXCEPT !.cb = TRUE] /\ u.peer = p /\ ~Asking(u)
          BY <2>2, CallbackFields DEF Asking
        <5>2. cells \in SUBSET Timeslots
          BY <1>6
        <5>3. PICK answer \in Contents : answer = Pkt("RESPONSE", "ADD", t.seqno, cells)
          BY <1>6, <2>2, <3>3, <5>2, PktType
        <5>4. Few(answer)
          BY <4>2, <5>3 DEF Few, Pkt
        <5>5. HandOver(n, p, b, u, answer)
          BY <4>1, <4>2, <5>1, <5>3
        <5>6. PICK w \in Trans : /\ blk' = [blk EXCEPT ![n][b] = w]
                                /\ w.peer = u.peer /\ (Asking(w) => Asking(u))
          BY <1>1, <5>4, <5>5, HandOverFew
        <5>7. \A m, q \in Peers : \A i \in DOMAIN out'[m][q] : Few(out'[m][q][i].pkt)
          BY <1>1, <5>4, <5>5, HandOverFew
        <5> QED BY <5>1, <5>6, <5>7
      <4>3. CASE Cardinality(cells) # NumCells
        BY <1>1, <2>2, <4>1, <4>3 DEF AnswersFew
      <4> QED BY <4>2, <4>3
    <3> QED BY <3>1, <3>2, <3>3
  <2>5. PICK u \in Trans : blk' = [blk EXCEPT ![n][b] = u] /\ u.peer = p /\ ~Asking(u)
    BY <2>4
  <2>6. AnswersFew'
    BY <1>5, <2>4 DEF AnswersFew
  <2>7. \A c \in Blocks : blk[n][c].peer # u.peer
    BY <1>9, <2>5 DEF Busy
  <2> QED BY <1>7, <2>5, <2>6, <2>7, SurplusKept
<1> QED BY <1>8, <1>9

LEMMA SurplusOutput ==
  ASSUME SurplusInv, TypeOK', cell' = cell, rx' = rx, NEW n \in Peers, NEW p \in Peers,
         NEW c \in Cmds, NEW cells \in SUBSET Timeslots, Output(n, p, c, cells),
         ~Busy(n, p), c = "ADD" => ~HasTx(n, p)
  PROVE  SurplusInv'
<1>1. TypeOK /\ AnswersFew
  BY DEF SurplusInv
<1>2. PICK k \in SeqNos : k = IF nbr[n][p] = NoNbr THEN 0 ELSE nbr[n][p]
  BY <1>1, ZeroSeqno DEF TypeOK
<1>3. PICK cb \in BOOLEAN : cb = (c = "SIGNAL")
  OBVIOUS
<1>4. PICK t \in Trans : t = [NewTrans(p, k, c, 2) EXCEPT !.cb = cb] /\ t.peer = p /\ t.cmd = c
  <2>1. PICK u : u = NewTrans(p, k, c, 2)
    OBVIOUS
  <2>2. u \in Trans /\ u.peer = p /\ u.cmd = c
    BY <1>2, <2>1 DEF NewTrans, Trans, States, Timers
  <2>3. PICK t : t = [u EXCEPT !.cb = cb]
    OBVIOUS
  <2>4. t \in Trans /\ t.peer = p /\ t.cmd = c
    BY <2>2, <2>3, CallbackFields
  <2> QED BY <2>1, <2>3, <2>4
<1>5. PICK pkt \in Contents : pkt = Pkt("REQUEST", c, k, cells)
  BY <1>2, PktType
<1>6. Few(pkt)
  BY <1>5 DEF Few, Pkt
<1>7. CASE UNCHANGED <<blk, out>>
  <2>1. AnswersFew'
    BY <1>1, <1>7 DEF AnswersFew
  <2> QED BY <1>7, <2>1 DEF SurplusInv, OneEach, AsksIfNone, NoSurplus, HasTx
<1>8. CASE \E b \in Blocks : HandOver(n, p, b, t, pkt)
  <2>1. PICK b \in Blocks : HandOver(n, p, b, t, pkt)
    BY <1>8
  <2>2. PICK u \in Trans : /\ blk' = [blk EXCEPT ![n][b] = u]
                           /\ u.peer = t.peer /\ (Asking(u) => Asking(t))
    BY <1>1, <1>6, <2>1, HandOverFew
  <2>3. AnswersFew'
    <3>1. \A m, q \in Peers : \A i \in DOMAIN out'[m][q] : Few(out'[m][q][i].pkt)
      BY <1>1, <1>6, <2>1, HandOverFew
    <3> QED BY <1>1, <3>1 DEF AnswersFew
  <2>4. \A d \in Blocks : blk[n][d].peer # u.peer
    BY <1>4, <2>2 DEF Busy
  <2>5. u.peer \in Peers /\ u.peer # blk[n][b].peer /\ Asking(u) => ~HasTx(n, u.peer)
    BY <1>4, <2>2 DEF Asking
  <2> QED BY <2>2, <2>3, <2>4, <2>5, SurplusKept
<1> QED BY <1>2, <1>3, <1>4, <1>5, <1>7, <1>8 DEF Output

(* Fewer cells than before are few enough.                                 *)
LEMMA FewerCells ==
  ASSUME NEW S \in SUBSET Timeslots, NEW R \in SUBSET S, Cardinality(S) <= NumCells
  PROVE  Cardinality(R) <= NumCells
<1>1. IsFiniteSet(S)
  BY SfsbNetAssumption, FS_Subset
<1>2. IsFiniteSet(R) /\ Cardinality(R) <= Cardinality(S)
  BY <1>1, FS_Subset
<1>3. Cardinality(S) \in Nat /\ Cardinality(R) \in Nat
  BY <1>1, <1>2, FS_CardinalityType
<1>4. NumCells \in Int
  BY <1>3, SfsbNetAssumption
<1> QED BY <1>2, <1>3, <1>4

LEMMA InstalledRx ==
  ASSUME SurplusInv, NEW n \in Peers, NEW p, NEW slots, Install(n, Rx(p), slots)
  PROVE  NoSurplus' /\ \A m, q \in Peers : HasTx(m, q)' => HasTx(m, q)
<1>1. \A m \in Peers, t \in Timeslots :
        cell'[m][t] = IF m = n /\ t \in slots THEN Rx(p) ELSE cell[m][t]
  BY DEF Install, SurplusInv, TypeOK
<1>2. \A m, q \in Peers, t \in Timeslots : cell'[m][t] = Tx(q) => cell[m][t] = Tx(q)
  BY <1>1, LinksDiffer
<1>3. ASSUME NEW m \in Peers, NEW q \in Peers
      PROVE  Cardinality({t \in Timeslots : cell'[m][t] = Tx(q)}) <= NumCells
  <2>1. PICK S, R : S = {t \in Timeslots : cell[m][t] = Tx(q)} /\ R = {t \in Timeslots : cell'[m][t] = Tx(q)}
    OBVIOUS
  <2>2. S \in SUBSET Timeslots /\ R \in SUBSET S
    BY <1>2, <2>1
  <2>3. Cardinality(S) <= NumCells
    BY <2>1 DEF SurplusInv, NoSurplus
  <2> QED BY <2>1, <2>2, <2>3, FewerCells
<1> QED BY <1>2, <1>3 DEF NoSurplus, HasTx

LEMMA SurplusResponse ==
  ASSUME SurplusInv, TypeOK', NEW n \in Peers, ReceiveResponse(n)
  PROVE  SurplusInv'
<1>1. TypeOK /\ OneEach /\ AsksIfNone /\ AnswersFew /\ NoSurplus
  BY DEF SurplusInv
<1>2. rx[n] \in Seq(Received) /\ rx[n] # <<>>
  BY <1>1, QueueTypes DEF ReceiveResponse
<1>3. PICK r \in Received : r = Head(rx[n])
  BY <1>2, HeadTaken
<1>4. PICK p \in Peers, pkt \in Contents : p = r.src /\ pkt = r.pkt
  BY <1>3 DEF Received
<1>5. PICK s : s = Tail(rx[n])
  OBVIOUS
<1>6. Few(r.pkt) /\ \A i \in DOMAIN s : Few(s[i].pkt)
  BY <1>1, <1>2, <1>3, <1>5, TailFew DEF AnswersFew
<1>7. AnswersFew'
  <2>1. \A m \in Peers : rx'[m] = IF m = n THEN s ELSE rx[m]
    BY <1>1, <1>5, QueueTypes DEF ReceiveResponse
  <2>2. out' = out
    BY DEF ReceiveResponse
  <2> QED BY <1>1, <1>6, <2>1, <2>2 DEF AnswersFew
<1>8. PICK mine : mine = Mine(n, p, pkt.seqno)
  OBVIOUS
<1>9. \A b \in mine : b \in Blocks /\ blk[n][b].peer = p
  BY <1>8 DEF Mine
<1>10. \A m \in Peers, b \in Blocks :
         blk'[m][b] = IF m = n /\ b \in mine THEN MovedOrEnded(blk[n][b], "RESPONSE_RECEIVED") ELSE blk[m][b]
  <2>1. PICK moved : moved = [b \in Blocks |->
          IF b \in mine THEN MovedOrEnded(blk[n][b], "RESPONSE_RECEIVED") ELSE blk[n][b]]
    OBVIOUS
  <2>2. blk' = [blk EXCEPT ![n] = moved]
    BY <1>3, <1>4, <1>8, <2>1 DEF ReceiveResponse
  <2> QED BY <1>1, <2>1, <2>2 DEF TypeOK
<1>11. \A m \in Peers, b \in Blocks :
         /\ blk'[m][b].peer = blk[m][b].peer
         /\ Asking(blk'[m][b]) => Asking(blk[m][b]) /\ ~(m = n /\ b \in mine)
  <2>1. SUFFICES ASSUME NEW m \in Peers, NEW b \in Blocks
                 PROVE  /\ blk'[m][b].peer = blk[m][b].peer
                        /\ Asking(blk'[m][b]) => Asking(blk[m][b]) /\ ~(m = n /\ b \in mine)
    OBVIOUS
  <2>2. blk[m][b] \in Trans /\ "RESPONSE_RECEIVED" \in States
    BY <1>1 DEF TypeOK, States
  <2>3. CASE m = n /\ b \in mine
    <3>1. MovedOrEnded(blk[m][b], "RESPONSE_RECEIVED").peer = blk[m][b].peer
      BY <2>2, MovedOrEndedFields
    <3>2. ~Asking(MovedOrEnded(blk[m][b], "RESPONSE_RECEIVED"))
      BY <2>2, AskingKept
    <3> QED BY <1>10, <2>3, <3>1, <3>2
  <2>4. CASE ~(m = n /\ b \in mine)
    BY <1>10, <2>4
  <2> QED BY <2>3, <2>4
<1>12. OneEach'
  BY <1>1, <1>11 DEF OneEach
<1>13. CASE cell' = cell
  <2>1. AsksIfNone'
    BY <1>1, <1>11, <1>13 DEF AsksIfNone, HasTx
  <2>2. NoSurplus'
    BY <1>1, <1>13 DEF NoSurplus
  <2> QED BY <1>7, <1>12, <2>1, <2>2 DEF SurplusInv
<1>14. CASE cell' # cell
  <2>1. /\ \E b \in mine : Fits(blk[n][b])
        /\ pkt.kind = "RESPONSE" /\ Install(n, Tx(p), pkt.cells)
    BY <1>3, <1>4, <1>8, <1>14 DEF ReceiveResponse
  <2>2. PICK b \in mine : Fits(blk[n][b])
    BY <2>1
  <2>3. b \in Blocks /\ blk[n][b].peer = p /\ Asking(blk[n][b])
    BY <1>9, <2>2 DEF Fits, Legal, Asking
  <2>4. ~HasTx(n, p)
    BY <1>1, <2>3 DEF AsksIfNone
  <2>5. \A m \in Peers, t \in Timeslots :
          cell'[m][t] = IF m = n /\ t \in pkt.cells THEN Tx(p) ELSE cell[m][t]
    BY <1>1, <2>1 DEF Install, TypeOK
  <2>6. \A m, q \in Peers, t \in Timeslots :
          ~(m = n /\ q = p) /\ cell'[m][t] = Tx(q) => cell[m][t] = Tx(q)
    BY <2>5, LinksDiffer
  <2>7. \A m, q \in Peers : ~(m = n /\ q = p) /\ HasTx(m, q)' => HasTx(m, q)
    BY <2>6 DEF HasTx
  <2>8. AsksIfNone'
    <3>1. SUFFICES ASSUME NEW m \in Peers, NEW c \in Blocks, NEW q \in Peers,
                          blk'[m][c].peer = q, Asking(blk'[m][c]), HasTx(m, q)'
                   PROVE  FALSE
      BY DEF AsksIfNone, HasTx
    <3>2. Asking(blk[m][c]) /\ blk[m][c].peer = q /\ ~(m = n /\ c \in mine)
      BY <1>11, <3>1
    <3>3. CASE m = n /\ q = p
      <4>1. b = c
        BY <1>1, <2>3, <3>2, <3>3, SixpTransAssumption DEF OneEach
      <4> QED BY <2>2, <3>2, <3>3, <4>1
    <3>4. CASE ~(m = n /\ q = p)
      <4>1. HasTx(m, q)
        BY <2>7, <3>1, <3>4
      <4> QED BY <1>1, <3>2, <4>1 DEF AsksIfNone
    <3> QED BY <3>3, <3>4
  <2>9. NoSurplus'
    <3>1. SUFFICES ASSUME NEW m \in Peers, NEW q \in Peers
                   PROVE  Cardinality({t \in Timeslots : cell'[m][t] = Tx(q)}) <= NumCells
      BY DEF NoSurplus
    <3>2. CASE m = n /\ q = p
      <4>1. pkt.cells \in SUBSET Timeslots
        BY DEF Contents
      <4>2. {t \in Timeslots : cell'[m][t] = Tx(q)} = pkt.cells
        BY <2>4, <2>5, <3>2, <4>1 DEF HasTx
      <4>3. Cardinality(pkt.cells) = NumCells
        BY <1>4, <1>6, <2>1 DEF Few
      <4>4. Cardinality(pkt.cells) \in Nat
        BY <4>1, SfsbNetAssumption, FS_Subset, FS_CardinalityType
      <4> QED BY <4>2, <4>3, <4>4
    <3>3. CASE ~(m = n /\ q = p)
      <4>1. PICK S, R : /\ S = {t \in Timeslots : cell[m][t] = Tx(q)}
                        /\ R = {t \in Timeslots : cell'[m][t] = Tx(q)}
        OBVIOUS
      <4>2. S \in SUBSET Timeslots /\ R \in SUBSET S
        BY <2>6, <3>3, <4>1
      <4>3. Cardinality(S) <= NumCells
        BY <1>1, <4>1 DEF NoSurplus
      <4> QED BY <4>1, <4>2, <4>3, FewerCells
    <3> QED BY <3>2, <3>3
  <2> QED BY <1>7, <1>12, <2>8, <2>9 DEF SurplusInv
<1> QED BY <1>13, <1>14

LEMMA SurplusTxDone ==
  ASSUME SurplusInv, TypeOK', NEW n \in Peers, TxDone(n)
  PROVE  SurplusInv'
<1>1. TypeOK /\ OneEach /\ AsksIfNone /\ AnswersFew /\ NoSurplus
  BY DEF SurplusInv
<1>2. done[n] \in Seq(Reports) /\ done[n] # <<>>
  BY <1>1, QueueTypes DEF TxDone
<1>3. PICK d \in Reports : d = Head(done[n])
  BY <1>2, HeadTaken
<1>4. AnswersFew'
  BY <1>1 DEF AnswersFew, TxDone
<1>5. CASE d.block = NoBlock
  <2>1. UNCHANGED <<blk, cell>>
    BY <1>3, <1>5 DEF TxDone
  <2> QED BY <1>1, <1>4, <2>1 DEF SurplusInv, OneEach, AsksIfNone, NoSurplus, HasTx
<1>6. CASE d.block # NoBlock
  <2>0. PICK b \in Blocks, ok \in BOOLEAN : b = d.block /\ ok = d.ok
    BY <1>6 DEF Reports, MaybeBlocks
  <2>1. PICK t \in Trans : t = blk[n][b]
    BY <1>1 DEF TypeOK
  <2>2. PICK u \in Trans : u = Reported(t, ok) /\ u.peer = t.peer /\ (Asking(u) => Asking(t))
    BY <2>1, AskingKept, ReportedFields
  <2>3. /\ blk' = [blk EXCEPT ![n][b] = u]
        /\ Install(n, Rx(t.peer), res[n]) \/ UNCHANGED cell
    BY <1>3, <1>6, <2>0, <2>1, <2>2 DEF TxDone
  <2>4. NoSurplus' /\ \A m, q \in Peers : HasTx(m, q)' => HasTx(m, q)
    <3>1. CASE cell' = cell
      BY <1>1, <3>1 DEF NoSurplus, HasTx
    <3>2. CASE Install(n, Rx(t.peer), res[n])
      BY <3>2, InstalledRx
    <3> QED BY <2>3, <3>1, <3>2
  <2>5. \A m \in Peers, c \in Blocks : blk'[m][c] = IF m = n /\ c = b THEN u ELSE blk[m][c]
    BY <1>1, <2>3 DEF TypeOK
  <2>6. \A m \in Peers, c \in Blocks :
          blk'[m][c].peer = blk[m][c].peer /\ (Asking(blk'[m][c]) => Asking(blk[m][c]))
    BY <2>1, <2>2, <2>5
  <2>7. OneEach'
    BY <1>1, <2>6 DEF OneEach
  <2>8. AsksIfNone'
    <3>1. SUFFICES ASSUME NEW m \in Peers, NEW c \in Blocks, NEW q \in Peers,
                          blk'[m][c].peer = q, Asking(blk'[m][c]), HasTx(m, q)'
                   PROVE  FALSE
      BY DEF AsksIfNone, HasTx
    <3>2. blk[m][c].peer = q /\ Asking(blk[m][c]) /\ HasTx(m, q)
      BY <2>4, <2>6, <3>1
    <3> QED BY <1>1, <3>2 DEF AsksIfNone
  <2> QED BY <1>4, <2>4, <2>7, <2>8 DEF SurplusInv
<1> QED BY <1>5, <1>6

LEMMA SurplusTransmit ==
  ASSUME SurplusInv, TypeOK', NEW n \in Peers, NEW p \in Peers, NEW got \in BOOLEAN,
         NEW told \in BOOLEAN, Transmit(n, p, got, told)
  PROVE  SurplusInv'
<1>1. TypeOK /\ AnswersFew
  BY DEF SurplusInv
<1>2. out[n][p] \in Seq(Queued) /\ out[n][p] # <<>>
  BY <1>1, QueueTypes DEF Transmit
<1>3. PICK f \in Queued, s \in Seq(Queued) : f = Head(out[n][p]) /\ s = Tail(out[n][p])
  BY <1>2, HeadTaken
<1>4. Few(f.pkt) /\ \A i \in DOMAIN s : Few(s[i].pkt)
  BY <1>1, <1>2, <1>3, TailFew DEF AnswersFew
<1>5. \A m, q \in Peers : out'[m][q] = IF m = n /\ q = p THEN s ELSE out[m][q]
  BY <1>1, <1>3, QueueTypes DEF Transmit
<1>6. PICK r \in Received : r = [src |-> n, pkt |-> f.pkt]
  BY <1>3 DEF Queued, Received
<1>7. PICK a : a = Append(rx[p], r)
  OBVIOUS
<1>8. rx' = [rx EXCEPT ![p] = a] \/ rx' = rx
  BY <1>3, <1>6, <1>7 DEF Transmit
<1>9. \A i \in DOMAIN a : Few(a[i].pkt)
  <2>1. rx[p] \in Seq(Received) /\ \A i \in DOMAIN rx[p] : Few(rx[p][i].pkt)
    BY <1>1, QueueTypes DEF AnswersFew
  <2>2. Few(r.pkt)
    BY <1>4, <1>6
  <2> QED BY <1>7, <2>1, <2>2, AppendFew
<1>10. \A m \in Peers : (rx'[m] = a /\ m = p) \/ rx'[m] = rx[m]
  BY <1>1, <1>8, QueueTypes
<1>11. \A m \in Peers : \A i \in DOMAIN rx'[m] : Few(rx'[m][i].pkt)
  BY <1>1, <1>9, <1>10 DEF AnswersFew
<1>12. AnswersFew'
  BY <1>1, <1>4, <1>5, <1>11 DEF AnswersFew
<1>13. UNCHANGED <<blk, cell>>
  BY DEF Transmit
<1> QED BY <1>12, <1>13 DEF SurplusInv, OneEach, AsksIfNone, NoSurplus, HasTx

LEMMA SurplusTimer ==
  ASSUME SurplusInv, TypeOK', NEW n \in Peers, NEW b \in Blocks, Timeout(n, b) \/ ProcessTrans(n, b)
  PROVE  SurplusInv'
<1>1. TypeOK /\ AnswersFew
  BY DEF SurplusInv
<1>2. PICK t \in Trans : t = blk[n][b]
  BY <1>1 DEF TypeOK
<1>3. PICK u : /\ blk' = [blk EXCEPT ![n][b] = u]
               /\ u \in {Moved(t, "TERMINATING"), FreeTrans(t.cb), [t EXCEPT !.timer = "timeout"]}
  BY <1>2 DEF Timeout, ProcessTrans
<1>4. u \in Trans /\ (u.peer = NoPeer \/ u.peer = t.peer) /\ (Asking(u) => Asking(t) /\ u.peer = t.peer)
  <2>1. "TERMINATING" \in States /\ "timeout" \in Timers /\ t.cb \in BOOLEAN
    BY DEF States, Timers, Trans
  <2>2. CASE u = Moved(t, "TERMINATING")
    BY <2>1, <2>2, MovedFields, AskingKept
  <2>3. CASE u = FreeTrans(t.cb)
    BY <2>1, <2>3, FreeFields, AskingKept
  <2>4. CASE u = [t EXCEPT !.timer = "timeout"]
    BY <2>1, <2>4, TimerFields DEF Asking
  <2> QED BY <1>3, <2>2, <2>3, <2>4
<1>5. AnswersFew' /\ cell' = cell
  BY <1>1 DEF AnswersFew, Timeout, ProcessTrans
<1> QED BY <1>2, <1>3, <1>4, <1>5, SurplusKept

LEMMA SurplusNext ==
  ASSUME SurplusInv, TypeOK', Next
  PROVE  SurplusInv'
<1>1. ASSUME NEW n \in Peers, NEW p \in Peers, LinksAdded(n, p) PROVE SurplusInv'
  <2>1. PICK cells \in SUBSET Timeslots : Draw(n, p, cells)
    BY <1>1 DEF LinksAdded
  <2>2. /\ Output(n, p, "ADD", cells) /\ ~Busy(n, p) /\ ~HasTx(n, p)
        /\ cell' = cell /\ rx' = rx /\ "ADD" \in Cmds
    BY <2>1, SfsbNetAssumption DEF Draw
  <2> QED BY <2>2, SurplusOutput
<1>2. ASSUME NEW n \in Peers, NEW p \in Peers, BlSend(n, p) PROVE SurplusInv'
  <2>1. /\ Output(n, p, "SIGNAL", {}) /\ ~Busy(n, p)
        /\ cell' = cell /\ rx' = rx /\ "SIGNAL" \in Cmds /\ {} \in SUBSET Timeslots
    BY <1>2, SfsbNetAssumption DEF BlSend
  <2> QED BY <2>1, SurplusOutput
<1>3. \A e \in Asks \cup Signals : e[1] \in Peers /\ e[2] \in Peers
  BY SfsbNetAssumption
<1>4. CASE \E e \in Asks : LinksAdded(e[1], e[2])
  BY <1>1, <1>3, <1>4
<1>5. CASE \E e \in Signals : BlSend(e[1], e[2])
  BY <1>2, <1>3, <1>5
<1>6. CASE \E n \in Peers : ReceiveRequest(n)
  BY <1>6, SurplusRequest
<1>7. CASE \E n \in Peers : ReceiveResponse(n)
  BY <1>7, SurplusResponse
<1>8. CASE \E n \in Peers : TxDone(n)
  BY <1>8, SurplusTxDone
<1>9. CASE \E n, p \in Peers, got, told \in BOOLEAN : Transmit(n, p, got, told)
  BY <1>9, SurplusTransmit
<1>10. CASE \E n \in Peers, b \in Blocks : Timeout(n, b)
  BY <1>10, SurplusTimer
<1>11. CASE \E n \in Peers, b \in Blocks : ProcessTrans(n, b)
  BY <1>11, SurplusTimer
<1> QED BY <1>4, <1>5, <1>6, <1>7, <1>8, <1>9, <1>10, <1>11 DEF Next

(* However requests and answers are lost, repeated or late, and however    *)
(* many transactions a node may run, it never has more dedicated cells to  *)
(* a peer than one request asks for.                                       *)
THEOREM FewCells == Spec => []NoSurplus
<1>1. Init => SurplusInv
  <2> SUFFICES ASSUME Init PROVE SurplusInv
    OBVIOUS
  <2>1. TypeOK
    BY InitType
  <2>2. OneEach /\ AsksIfNone
    <3>1. \A n \in Peers, b \in Blocks : blk[n][b] = FreeTrans(FALSE)
      BY DEF Init
    <3>2. \A n \in Peers, b \in Blocks : blk[n][b].peer = NoPeer
      BY <3>1, FreeFields
    <3> QED BY <3>2, SixpTransAssumption DEF OneEach, AsksIfNone
  <2>3. AnswersFew
    BY DEF Init, AnswersFew
  <2>4. NoSurplus
    <3>1. SUFFICES ASSUME NEW n \in Peers, NEW p \in Peers
                   PROVE  Cardinality({t \in Timeslots : cell[n][t] = Tx(p)}) <= NumCells
      BY DEF NoSurplus
    <3>2. {t \in Timeslots : cell[n][t] = Tx(p)} = {}
      BY LinksDiffer DEF Init
    <3> QED BY <3>2, FS_EmptySet, SfsbNetAssumption
  <2> QED BY <2>1, <2>2, <2>3, <2>4 DEF SurplusInv
<1>2. SurplusInv /\ TypeOK' /\ [Next]_vars => SurplusInv'
  <2>1. CASE UNCHANGED vars
    BY <2>1 DEF vars, SurplusInv, TypeOK, OneEach, AsksIfNone, AnswersFew, NoSurplus, HasTx
  <2> QED BY <2>1, SurplusNext
<1>3. SurplusInv => NoSurplus
  BY DEF SurplusInv
<1> QED BY <1>1, <1>2, <1>3, TypeCorrect, PTL DEF Spec
-----------------------------------------------------------------------------
(* Cells agreed by both ends, where a node has one transaction at a time.  *)

(* SIXTOP_MAX_TRANSACTIONS is 1 unless a platform says otherwise.          *)
Block == CHOOSE b \in Blocks : TRUE
OneBlock == Blocks = {Block}
T(n) == blk[n][Block]

(* At most one of the sequence s is in K.                                  *)
Once(s, K) == \A i, j \in DOMAIN s : s[i] \in K /\ s[j] \in K => i = j
No(s, K) == \A e \in Range(s) : e \notin K

(* Own frames and reports are those of the node's transaction.             *)
OwnFrames == {f \in Queued : f.pkt.kind # "ERROR"}
Answers == {f \in Queued : f.pkt.kind # "REQUEST"}
RequestsOf(n) == {r \in Received : r.src = n /\ r.pkt.kind = "REQUEST"}
Replies == {r \in Received : r.pkt.kind # "REQUEST"}
OwnReports == {d \in Reports : d.kind # "ERROR"}

(* The MAC of n had its request acknowledged by p, and n is still waiting. *)
Requested(n, p) ==
  /\ T(n).peer = p
  /\ \/ T(n).state = "REQUEST_SENT"
     \/ T(n).state = "INIT" /\ \E d \in Range(done[n]) : d \in OwnReports /\ d.ok

(* n offers p cells, free ones, and installs them once that gets there.    *)
Answering(n, p, cells) ==
  /\ T(n).peer = p /\ T(n).state = "REQUEST_RECEIVED" /\ T(n).cb /\ T(n).cmd = "ADD"
  /\ nbr[n][p] # NoNbr
  /\ res[n] = cells /\ cells \subseteq FreeSlots(n)

(* pkt is of the transaction of n, and what it offers is free at n.        *)
Matches(n, pkt) ==
  T(n).seqno = pkt.seqno /\ T(n).cmd = pkt.cmd /\ pkt.cells \subseteq FreeSlots(n)

(* p listens to n in timeslot t, or will when a report to it is handled.   *)
Acked(n) == [to |-> n, kind |-> "RESPONSE", block |-> Block, ok |-> TRUE]
Backed(n, p, t) ==
  \/ cell[p][t] = Rx(n)
  \/ /\ T(p).peer = n /\ T(p).state = "REQUEST_RECEIVED" /\ T(p).cb
     /\ Acked(n) \in Range(done[p]) /\ t \in res[p]

BlockOK(n) ==
  /\ T(n).peer # n
  /\ T(n).peer = NoPeer => T(n).timer = "off" /\ T(n).state = "TERMINATING"
  /\ T(n).peer # NoPeer /\ T(n).state \in {"INIT", "REQUEST_SENT"} => nbr[n][T(n).peer] # NoNbr

FrameOK(n, p, f) ==
  /\ f.block = IF f.pkt.kind = "ERROR" THEN NoBlock ELSE Block
  /\ f.pkt.kind # "ERROR" => No(done[n], OwnReports)
  /\ f.pkt.kind = "REQUEST" => T(n).peer = p /\ T(n).state = "INIT" /\ Matches(n, f.pkt)
  /\ f.pkt.kind = "RESPONSE" => Answering(n, p, f.pkt.cells) /\ Matches(n, f.pkt) /\ Matches(p, f.pkt)
  /\ f.pkt.kind # "REQUEST" => Requested(p, n) /\ No(rx[p], Replies)

ReportOK(n, d) ==
  /\ d.block = IF d.kind = "ERROR" THEN NoBlock ELSE Block
  /\ d.kind = "REQUEST" => T(n).peer = d.to /\ T(n).state \in {"INIT", "TERMINATING"}
  /\ d.kind = "RESPONSE" => Answering(n, d.to, res[n])

InputOK(n, r) ==
  /\ r.pkt.kind = "REQUEST" =>
       /\ Requested(r.src, n) /\ Matches(r.src, r.pkt)
       /\ No(out[n][r.src], Answers) /\ No(rx[r.src], Replies)
  /\ r.pkt.kind # "REQUEST" => Requested(n, r.src)
  /\ r.pkt.kind = "RESPONSE" => Matches(n, r.pkt) /\ \A t \in r.pkt.cells : Backed(n, r.src, t)

OutOK(n) ==
  \A p \in Peers : /\ \A f \in Range(out[n][p]) : FrameOK(n, p, f)
                   /\ Once(out[n][p], OwnFrames) /\ Once(out[n][p], Answers)
DoneOK(n) ==
  (\A d \in Range(done[n]) : ReportOK(n, d)) /\ Once(done[n], OwnReports)
RxOK(n) ==
  /\ \A r \in Range(rx[n]) : InputOK(n, r)
  /\ Once(rx[n], Replies) /\ \A p \in Peers : Once(rx[n], RequestsOf(p))
CellsOK(n) == \A p \in Peers, t \in Timeslots : cell[n][t] = Tx(p) => Backed(n, p, t)

NodeOK(n) == BlockOK(n) /\ OutOK(n) /\ DoneOK(n) /\ RxOK(n) /\ CellsOK(n)
IInv == TypeOK /\ \A n \in Peers : NodeOK(n)

(* Sequences: what is in them, and in what is left or added to.            *)
LEMMA TailRange ==
  ASSUME NEW S, NEW s \in Seq(S), s # <<>>
  PROVE  /\ Head(s) \in Range(s)
         /\ \A e \in Range(Tail(s)) : e \in Range(s)
         /\ \A e \in Range(s) : e = Head(s) \/ e \in Range(Tail(s))
<1>1. Head(s) = s[1] /\ 1 \in DOMAIN s
  BY HeadTaken
<1>2. \A i \in DOMAIN Tail(s) : i + 1 \in DOMAIN s /\ Tail(s)[i] = s[i + 1]
  BY HeadTaken
<1>3. ASSUME NEW i \in DOMAIN s, i # 1 PROVE i - 1 \in DOMAIN Tail(s) /\ Tail(s)[i - 1] = s[i]
  <2>1. Len(s) \in Nat /\ DOMAIN s = 1 .. Len(s)
    BY LenProperties
  <2>2. DOMAIN Tail(s) = 1 .. Len(s) - 1
    BY HeadTaken
  <2>3. i - 1 \in 1 .. Len(s) - 1 /\ (i - 1) + 1 = i
    BY <1>3, <2>1
  <2> QED BY <1>2, <2>2, <2>3
<1> QED BY <1>1, <1>2, <1>3 DEF Range

LEMMA OnceTail ==
  ASSUME NEW S, NEW s \in Seq(S), s # <<>>, NEW K, Once(s, K)
  PROVE  Once(Tail(s), K) /\ (Head(s) \in K => No(Tail(s), K))
<1>1. Head(s) = s[1] /\ 1 \in DOMAIN s
  BY HeadTaken
<1>2. Len(s) \in Nat /\ DOMAIN Tail(s) = 1 .. Len(s) - 1
  BY HeadTaken, LenProperties
<1>3. \A i \in DOMAIN Tail(s) : i + 1 \in DOMAIN s /\ Tail(s)[i] = s[i + 1]
  BY HeadTaken
<1>4. ASSUME NEW i \in DOMAIN Tail(s), NEW j \in DOMAIN Tail(s), Tail(s)[i] \in K, Tail(s)[j] \in K
      PROVE  i = j
  <2>1. i + 1 = j + 1
    BY <1>3, <1>4 DEF Once
  <2> QED BY <1>2, <2>1
<1>5. ASSUME Head(s) \in K, NEW i \in DOMAIN Tail(s), Tail(s)[i] \in K
      PROVE  FALSE
  <2>1. i + 1 = 1
    BY <1>1, <1>3, <1>5 DEF Once
  <2> QED BY <1>2, <2>1
<1> QED BY <1>4, <1>5 DEF Once, No, Range

LEMMA AppendRange ==
  ASSUME NEW S, NEW s \in Seq(S), NEW e \in S
  PROVE  /\ e \in Range(Append(s, e))
         /\ \A x \in Range(s) : x \in Range(Append(s, e))
         /\ \A x \in Range(Append(s, e)) : x \in Range(s) \/ x = e
<1>1. Len(s) \in Nat /\ DOMAIN s = 1 .. Len(s) /\ DOMAIN Append(s, e) = 1 .. Len(s) + 1
  BY Appended, LenProperties
<1>2. Append(s, e)[Len(s) + 1] = e /\ \A i \in DOMAIN s : Append(s, e)[i] = s[i]
  BY Appended
<1>3. \A i \in 1 .. Len(s) + 1 : i \in 1 .. Len(s) \/ i = Len(s) + 1
  BY <1>1
<1>4. Len(s) + 1 \in 1 .. Len(s) + 1 /\ \A i \in 1 .. Len(s) : i \in 1 .. Len(s) + 1
  BY <1>1
<1> QED BY <1>1, <1>2, <1>3, <1>4 DEF Range

LEMMA OnceAppend ==
  ASSUME NEW S, NEW s \in Seq(S), NEW e \in S, NEW K, Once(s, K), e \in K => No(s, K)
  PROVE  Once(Append(s, e), K)
<1>1. Len(s) \in Nat /\ DOMAIN s = 1 .. Len(s) /\ DOMAIN Append(s, e) = 1 .. Len(s) + 1
  BY Appended, LenProperties
<1>2. Append(s, e)[Len(s) + 1] = e /\ \A i \in DOMAIN s : Append(s, e)[i] = s[i]
  BY Appended
<1>3. \A i \in 1 .. Len(s) + 1 : i \in 1 .. Len(s) \/ i = Len(s) + 1
  BY <1>1
<1> SUFFICES ASSUME NEW i \in DOMAIN Append(s, e), NEW j \in DOMAIN Append(s, e),
                    Append(s, e)[i] \in K, Append(s, e)[j] \in K
             PROVE  i = j
  BY DEF Once
<1>4. CASE i \in DOMAIN s /\ j \in DOMAIN s
  BY <1>2, <1>4 DEF Once
<1>5. CASE i \in DOMAIN s /\ j = Len(s) + 1
  BY <1>2, <1>5 DEF No, Range
<1>6. CASE i = Len(s) + 1 /\ j \in DOMAIN s
  BY <1>2, <1>6 DEF No, Range
<1> QED BY <1>1, <1>3, <1>4, <1>5, <1>6

LEMMA InQueues ==
  ASSUME TypeOK, NEW n \in Peers
  PROVE  /\ \A p \in Peers : \A f \in Range(out[n][p]) : f \in Queued
         /\ \A r \in Range(rx[n]) : r \in Received
         /\ \A d \in Range(done[n]) : d \in Reports
<1>1. /\ \A p \in Peers : out[n][p] \in Seq(Queued)
      /\ rx[n] \in Seq(Received) /\ done[n] \in Seq(Reports)
  BY QueueTypes
<1>2. ASSUME NEW S, NEW s \in Seq(S) PROVE \A e \in Range(s) : e \in S
  BY DEF Range
<1> QED BY <1>1, <1>2

-----------------------------------------------------------------------------
(* A step at node n: what the other nodes rely on at n is kept.            *)

Same(m) ==
  /\ blk'[m] = blk[m] /\ nbr'[m] = nbr[m] /\ cell'[m] = cell[m] /\ res'[m] = res[m]
  /\ out'[m] = out[m] /\ rx'[m] = rx[m] /\ done'[m] = done[m]
OnlyAt(n) == \A m \in Peers : m # n => Same(m)

(* A frame under way says that the MAC of n had its request acknowledged.  *)
AwaitedBy(n, m) ==
  ~No(out[m][n], Answers) \/ ~No(rx[m], RequestsOf(n))
Awaited(n) == \E m \in Peers : AwaitedBy(n, m)

Keeps(n) ==
  /\ \A p \in Peers : Requested(n, p) => Requested(n, p)'
  /\ T(n)'.seqno = T(n).seqno /\ T(n)'.cmd = T(n).cmd
  /\ FreeSlots(n) \subseteq FreeSlots(n)'

LEMMA SameFacts ==
  ASSUME NEW m \in Peers, Same(m)
  PROVE  /\ BlockOK(m) => BlockOK(m)'
         /\ \A p : Requested(m, p) => Requested(m, p)'
         /\ \A p, c : Answering(m, p, c) => Answering(m, p, c)'
         /\ \A pkt : Matches(m, pkt) => Matches(m, pkt)'
         /\ \A p, t : Backed(p, m, t) => Backed(p, m, t)'
         /\ \A d : ReportOK(m, d) => ReportOK(m, d)'
<1>1. T(m)' = T(m) /\ FreeSlots(m)' = FreeSlots(m)
  BY DEF Same, T, FreeSlots
<1>2. BlockOK(m) => BlockOK(m)'
  BY <1>1 DEF BlockOK, Same
<1>3. \A p : Requested(m, p) => Requested(m, p)'
  BY <1>1 DEF Requested, Same
<1>4. \A p, c : Answering(m, p, c) => Answering(m, p, c)'
  BY <1>1 DEF Answering, Same
<1>5. \A pkt : Matches(m, pkt) => Matches(m, pkt)'
  BY <1>1 DEF Matches
<1>6. \A p, t : Backed(p, m, t) => Backed(p, m, t)'
  BY <1>1 DEF Backed, Same, Acked
<1>7. \A d : ReportOK(m, d) => ReportOK(m, d)'
  <2>1. res'[m] = res[m]
    BY DEF Same
  <2> QED BY <1>1, <1>4, <2>1 DEF ReportOK
<1> QED BY <1>2, <1>3, <1>4, <1>5, <1>6, <1>7

LEMMA OthersKept ==
  ASSUME IInv, TypeOK', NEW n \in Peers, OnlyAt(n), NEW m \in Peers, m # n,
         Keeps(n) \/ ~Awaited(n),
         No(rx[n], Replies) => No(rx'[n], Replies),
         \A t \in Timeslots : Backed(m, n, t) => Backed(m, n, t)'
  PROVE  NodeOK(m)'
<1>1. Same(m) /\ NodeOK(m)
  BY DEF OnlyAt, IInv
<1>2. /\ out'[m] = out[m] /\ rx'[m] = rx[m] /\ done'[m] = done[m] /\ cell'[m] = cell[m]
  BY <1>1 DEF Same
<1>3. AwaitedBy(n, m) => Keeps(n)
  BY DEF Awaited
<1>4. \A p \in Peers : No(rx[p], Replies) => No(rx'[p], Replies)
  BY DEF OnlyAt, Same
<1>5. \A p \in Peers, t \in Timeslots : Backed(m, p, t) => Backed(m, p, t)'
  BY SameFacts DEF OnlyAt
<1>6. BlockOK(m)'
  BY <1>1, SameFacts DEF NodeOK
<1>7. OutOK(m)'
  <2>1. SUFFICES ASSUME NEW p \in Peers, NEW f \in Range(out[m][p]) PROVE FrameOK(m, p, f)'
    BY <1>1, <1>2 DEF OutOK, NodeOK
  <2>2. FrameOK(m, p, f) /\ f \in Queued
    BY <1>1, InQueues DEF NodeOK, OutOK, IInv
  <2>3. ASSUME f.pkt.kind # "REQUEST"
        PROVE  Requested(p, m)' /\ (Matches(p, f.pkt) => Matches(p, f.pkt)')
    <3>1. Requested(p, m)
      BY <2>2, <2>3 DEF FrameOK
    <3>2. CASE p = n
      <4>1. AwaitedBy(n, m)
        BY <2>2, <2>3, <3>2 DEF AwaitedBy, Answers, No
      <4> QED BY <1>3, <3>1, <3>2, <4>1 DEF Keeps, Matches
    <3>3. CASE p # n
      BY <3>1, <3>3, SameFacts DEF OnlyAt
    <3> QED BY <3>2, <3>3
  <2>4. ASSUME f.pkt.kind # "ERROR" PROVE No(done'[m], OwnReports)
    BY <1>2, <2>2, <2>4 DEF FrameOK
  <2>5. ASSUME f.pkt.kind = "REQUEST" PROVE T(m)'.peer = p /\ T(m)'.state = "INIT" /\ Matches(m, f.pkt)'
    BY <1>1, <2>2, <2>5, SameFacts DEF FrameOK, Same, T
  <2>6. ASSUME f.pkt.kind = "RESPONSE"
        PROVE  Answering(m, p, f.pkt.cells)' /\ Matches(m, f.pkt)' /\ Matches(p, f.pkt)'
    BY <1>1, <2>2, <2>3, <2>6, SameFacts DEF FrameOK
  <2> QED BY <1>4, <2>2, <2>3, <2>4, <2>5, <2>6 DEF FrameOK
<1>8. DoneOK(m)'
  BY <1>1, <1>2, SameFacts DEF DoneOK, NodeOK
<1>9. RxOK(m)'
  <2>1. SUFFICES ASSUME NEW r \in Range(rx[m]) PROVE InputOK(m, r)'
    BY <1>1, <1>2 DEF RxOK, NodeOK
  <2>2. InputOK(m, r) /\ r \in Received
    BY <1>1, InQueues DEF NodeOK, RxOK, IInv
  <2>3. r.src \in Peers
    BY <2>2 DEF Received
  <2>4. ASSUME r.pkt.kind = "REQUEST" PROVE Requested(r.src, m)' /\ Matches(r.src, r.pkt)'
    <3>1. Requested(r.src, m) /\ Matches(r.src, r.pkt)
      BY <2>2, <2>4 DEF InputOK
    <3>2. CASE r.src = n
      <4>1. AwaitedBy(n, m)
        BY <2>2, <2>4, <3>2 DEF AwaitedBy, RequestsOf, No
      <4> QED BY <1>3, <3>1, <3>2, <4>1 DEF Keeps, Matches
    <3>3. CASE r.src # n
      BY <2>3, <3>1, <3>3, SameFacts DEF OnlyAt
    <3> QED BY <3>2, <3>3
  <2>5. ASSUME r.pkt.kind = "REQUEST" PROVE No(out'[m][r.src], Answers) /\ No(rx'[r.src], Replies)
    BY <1>2, <1>4, <2>2, <2>3, <2>5 DEF InputOK
  <2>6. ASSUME r.pkt.kind # "REQUEST" PROVE Requested(m, r.src)'
    BY <1>1, <2>2, <2>6, SameFacts DEF InputOK
  <2>7. ASSUME r.pkt.kind = "RESPONSE"
        PROVE  Matches(m, r.pkt)' /\ \A t \in r.pkt.cells : Backed(m, r.src, t)'
    <3>1. r.pkt.cells \subseteq Timeslots
      BY <2>2 DEF Received, Contents
    <3> QED BY <1>1, <1>5, <2>2, <2>3, <2>7, <3>1, SameFacts DEF InputOK
  <2> QED BY <2>4, <2>5, <2>6, <2>7 DEF InputOK
<1>10. CellsOK(m)'
  BY <1>1, <1>2, <1>5 DEF CellsOK, NodeOK
<1> QED BY <1>6, <1>7, <1>8, <1>9, <1>10 DEF NodeOK

LEMMA Unheard ==
  ASSUME IInv, NEW n \in Peers
  PROVE  /\ \A p \in Peers : Requested(p, n) => p # n
         /\ \A p \in Peers : AwaitedBy(n, p) => Requested(n, p) /\ No(rx[n], Replies)
         /\ ~No(rx[n], Replies) => \E p \in Peers : Requested(n, p)
<1>1. NodeOK(n) /\ TypeOK /\ T(n).peer # n
  BY DEF IInv, NodeOK, BlockOK
<1>2. \A p \in Peers : Requested(p, n) => p # n
  BY <1>1 DEF Requested
<1>3. ASSUME NEW p \in Peers, AwaitedBy(n, p) PROVE Requested(n, p) /\ No(rx[n], Replies)
  <2>1. CASE ~No(out[p][n], Answers)
    <3>1. PICK f \in Range(out[p][n]) : f \in Answers
      BY <2>1 DEF No
    <3>2. FrameOK(p, n, f)
      BY DEF IInv, NodeOK, OutOK
    <3> QED BY <3>1, <3>2 DEF FrameOK, Answers
  <2>2. CASE ~No(rx[p], RequestsOf(n))
    <3>1. PICK r \in Range(rx[p]) : r \in RequestsOf(n)
      BY <2>2 DEF No
    <3>2. InputOK(p, r)
      BY DEF IInv, NodeOK, RxOK
    <3> QED BY <3>1, <3>2 DEF InputOK, RequestsOf
  <2> QED BY <1>3, <2>1, <2>2 DEF AwaitedBy
<1>4. ASSUME ~No(rx[n], Replies) PROVE \E p \in Peers : Requested(n, p)
  <2>1. PICK r \in Range(rx[n]) : r \in Replies
    BY <1>4 DEF No
  <2>2. InputOK(n, r) /\ r.src \in Peers
    BY <1>1, <2>1 DEF NodeOK, RxOK, Replies, Received
  <2> QED BY <2>1, <2>2 DEF InputOK, Replies
<1> QED BY <1>2, <1>3, <1>4

LEMMA Unasked ==
  ASSUME IInv, NEW n \in Peers, \A p \in Peers : ~Requested(n, p)
  PROVE  ~Awaited(n) /\ No(rx[n], Replies)
BY Unheard DEF Awaited

(* Only a transaction that just began has frames of its own under way.     *)
LEMMA NoOwnFrames ==
  ASSUME IInv, NEW n \in Peers,
         T(n).state \notin {"INIT", "REQUEST_RECEIVED"} \/ ~No(done[n], OwnReports)
  PROVE  \A p \in Peers : No(out[n][p], OwnFrames)
<1> SUFFICES ASSUME NEW p \in Peers, NEW f \in Range(out[n][p]), f \in OwnFrames
             PROVE  FALSE
  BY DEF No
<1>1. FrameOK(n, p, f)
  BY DEF IInv, NodeOK, OutOK
<1>2. f.pkt.kind = "REQUEST" \/ f.pkt.kind = "RESPONSE"
  BY DEF OwnFrames, Queued, Contents
<1>3. f.pkt.kind # "ERROR"
  BY DEF OwnFrames
<1> QED BY <1>1, <1>2, <1>3 DEF FrameOK, Answering

LEMMA NoOwnReports ==
  ASSUME IInv, NEW n \in Peers,
         T(n).state \notin {"INIT", "REQUEST_RECEIVED", "TERMINATING"} \/ T(n).peer = NoPeer
  PROVE  No(done[n], OwnReports)
<1> SUFFICES ASSUME NEW d \in Range(done[n]), d \in OwnReports
             PROVE  FALSE
  BY DEF No
<1>1. ReportOK(n, d)
  BY DEF IInv, NodeOK, DoneOK
<1>2. d.kind \in {"REQUEST", "RESPONSE"} /\ d.to \in Peers
  BY DEF OwnReports, Reports
<1> QED BY <1>1, <1>2, SixpTransAssumption DEF ReportOK, Answering

(* The frames of n that are still queued.                                  *)
Alike(n) ==
  /\ T(n)'.peer = T(n).peer /\ T(n)'.state = T(n).state
  /\ \A p, c : Answering(n, p, c) => Answering(n, p, c)'
  /\ \A pkt : Matches(n, pkt) => Matches(n, pkt)'
  /\ No(done[n], OwnReports) => No(done'[n], OwnReports)

LEMMA FrameKept ==
  ASSUME IInv, NEW n \in Peers, OnlyAt(n), NEW p \in Peers, NEW f \in Range(out[n][p]),
         f \notin OwnFrames \/ Alike(n)
  PROVE  FrameOK(n, p, f)'
<1>1. FrameOK(n, p, f) /\ f \in Queued
  BY InQueues DEF IInv, NodeOK, OutOK
<1>2. ASSUME f.pkt.kind # "REQUEST"
      PROVE  p # n /\ Requested(p, n)' /\ No(rx'[p], Replies)
  <2>1. Requested(p, n) /\ No(rx[p], Replies)
    BY <1>1, <1>2 DEF FrameOK
  <2>2. p # n
    BY <2>1, Unheard
  <2>3. Same(p)
    BY <2>2 DEF OnlyAt
  <2> QED BY <2>1, <2>2, <2>3, SameFacts DEF Same
<1>3. CASE f.pkt.kind = "ERROR"
  BY <1>1, <1>2, <1>3 DEF FrameOK
<1>4. CASE f.pkt.kind # "ERROR"
  <2>1. Alike(n)
    BY <1>1, <1>4 DEF OwnFrames
  <2>2. No(done'[n], OwnReports)
    BY <1>1, <1>4, <2>1 DEF FrameOK, Alike
  <2>3. ASSUME f.pkt.kind = "REQUEST"
        PROVE  T(n)'.peer = p /\ T(n)'.state = "INIT" /\ Matches(n, f.pkt)'
    BY <1>1, <2>1, <2>3 DEF FrameOK, Alike
  <2>4. ASSUME f.pkt.kind = "RESPONSE"
        PROVE  Answering(n, p, f.pkt.cells)' /\ Matches(n, f.pkt)' /\ Matches(p, f.pkt)'
    <3>1. Answering(n, p, f.pkt.cells) /\ Matches(n, f.pkt) /\ Matches(p, f.pkt)
      BY <1>1, <2>4 DEF FrameOK
    <3>2. Same(p)
      BY <1>2, <2>4 DEF OnlyAt
    <3> QED BY <2>1, <3>1, <3>2, SameFacts DEF Alike
  <2> QED BY <1>1, <1>2, <1>4, <2>2, <2>3, <2>4 DEF FrameOK
<1> QED BY <1>3, <1>4

LEMMA OutKept ==
  ASSUME IInv, NEW n \in Peers, OnlyAt(n), out'[n] = out[n],
         (\A p \in Peers : No(out[n][p], OwnFrames)) \/ Alike(n)
  PROVE  OutOK(n)'
<1>1. \A p \in Peers : \A f \in Range(out[n][p]) : FrameOK(n, p, f)'
  BY FrameKept DEF No
<1>2. OutOK(n)
  BY DEF IInv, NodeOK
<1> QED BY <1>1, <1>2 DEF OutOK

(* One more frame.                                                         *)
LEMMA OutAppended ==
  ASSUME IInv, NEW n \in Peers, OnlyAt(n), NEW p \in Peers, NEW f \in Queued,
         \A q \in Peers : out'[n][q] = IF q = p THEN Append(out[n][q], f) ELSE out[n][q],
         FrameOK(n, p, f)',
         (\A q \in Peers : No(out[n][q], OwnFrames)) \/ (Alike(n) /\ f \notin OwnFrames),
         f \in Answers => No(out[n][p], Answers)
  PROVE  OutOK(n)'
<1>1. OutOK(n) /\ \A q \in Peers : out[n][q] \in Seq(Queued)
  BY QueueTypes DEF IInv, NodeOK
<1>2. \A q \in Peers : \A g \in Range(out[n][q]) : FrameOK(n, q, g)'
  BY FrameKept DEF No
<1>3. SUFFICES ASSUME NEW q \in Peers
               PROVE  /\ \A g \in Range(out'[n][q]) : FrameOK(n, q, g)'
                      /\ Once(out'[n][q], OwnFrames) /\ Once(out'[n][q], Answers)
  BY DEF OutOK
<1>4. CASE q # p
  <2>1. out'[n][q] = out[n][q]
    BY <1>4
  <2> QED BY <1>1, <1>2, <2>1 DEF OutOK
<1>5. CASE q = p
  <2>1. PICK s : s = Append(out[n][p], f)
    OBVIOUS
  <2>2. out'[n][q] = s
    BY <1>5, <2>1
  <2>3. \A g \in Range(s) : FrameOK(n, p, g)'
    BY <1>1, <1>2, <2>1, AppendRange
  <2>4. Once(s, OwnFrames) /\ Once(s, Answers)
    <3>1. Once(out[n][p], OwnFrames) /\ Once(out[n][p], Answers)
      BY <1>1 DEF OutOK
    <3>2. f \in OwnFrames => No(out[n][p], OwnFrames)
      OBVIOUS
    <3>3. Once(s, OwnFrames)
      BY <1>1, <2>1, <3>1, <3>2, OnceAppend
    <3>4. Once(s, Answers)
      BY <1>1, <2>1, <3>1, OnceAppend
    <3> QED BY <3>3, <3>4
  <2> QED BY <1>5, <2>2, <2>3, <2>4
<1> QED BY <1>4, <1>5

(* What n has received.                                                    *)
LEMMA RxKept ==
  ASSUME IInv, NEW n \in Peers, OnlyAt(n),
         rx'[n] = rx[n] \/ (rx[n] # <<>> /\ rx'[n] = Tail(rx[n])),
         \A p \in Peers : No(out[n][p], Answers) =>
                            No(out'[n][p], Answers) \/ No(rx'[n], RequestsOf(p)),
         Keeps(n) \/ No(rx'[n], Replies)
  PROVE  RxOK(n)' /\ (No(rx[n], Replies) => No(rx'[n], Replies))
<1>1. RxOK(n) /\ rx[n] \in Seq(Received) /\ TypeOK
  BY QueueTypes DEF IInv, NodeOK
<1>2. \A r \in Range(rx'[n]) : r \in Range(rx[n])
  BY <1>1, TailRange
<1>3. No(rx[n], Replies) => No(rx'[n], Replies)
  BY <1>2 DEF No
<1>4. Once(rx'[n], Replies) /\ \A p \in Peers : Once(rx'[n], RequestsOf(p))
  BY <1>1, OnceTail DEF RxOK
<1>5. ASSUME NEW r \in Range(rx'[n]) PROVE InputOK(n, r)'
  <2>1. InputOK(n, r) /\ r \in Received /\ r.src \in Peers /\ r.pkt.cells \subseteq Timeslots
    BY <1>1, <1>2, InQueues DEF RxOK, Received, Contents
  <2>2. ASSUME r.pkt.kind = "REQUEST"
        PROVE  /\ Requested(r.src, n)' /\ Matches(r.src, r.pkt)'
               /\ No(out'[n][r.src], Answers) /\ No(rx'[r.src], Replies)
    <3>1. /\ Requested(r.src, n) /\ Matches(r.src, r.pkt)
          /\ No(out[n][r.src], Answers) /\ No(rx[r.src], Replies)
      BY <2>1, <2>2 DEF InputOK
    <3>2. Same(r.src)
      BY <2>1, <3>1, Unheard DEF OnlyAt
    <3>3. ~No(rx'[n], RequestsOf(r.src))
      BY <2>1, <2>2 DEF No, RequestsOf
    <3>4. No(out'[n][r.src], Answers)
      BY <2>1, <3>1, <3>3
    <3>5. No(rx'[r.src], Replies)
      BY <3>1, <3>2 DEF Same
    <3> QED BY <3>1, <3>2, <3>4, <3>5, SameFacts, <2>1
  <2>3. ASSUME r.pkt.kind # "REQUEST" PROVE Keeps(n) /\ Requested(n, r.src) /\ Requested(n, r.src)'
    <3>1. ~No(rx'[n], Replies)
      BY <2>1, <2>3 DEF No, Replies
    <3>2. Requested(n, r.src)
      BY <2>1, <2>3 DEF InputOK
    <3> QED BY <2>1, <3>1, <3>2 DEF Keeps
  <2>4. ASSUME r.pkt.kind = "RESPONSE"
        PROVE  Matches(n, r.pkt)' /\ \A t \in r.pkt.cells : Backed(n, r.src, t)'
    <3>1. Matches(n, r.pkt) /\ \A t \in r.pkt.cells : Backed(n, r.src, t)
      BY <2>1, <2>4 DEF InputOK
    <3>2. r.src # n
      BY <2>3, <2>4, Unheard
    <3>3. Same(r.src)
      BY <2>1, <3>2 DEF OnlyAt
    <3>4. Matches(n, r.pkt)'
      BY <2>3, <2>4, <3>1 DEF Keeps, Matches
    <3> QED BY <2>1, <3>1, <3>3, <3>4, SameFacts
  <2> QED BY <2>2, <2>3, <2>4 DEF InputOK
<1> QED BY <1>3, <1>4, <1>5 DEF RxOK

(* A step at n.                                                            *)
LEMMA LocalStep ==
  ASSUME IInv, TypeOK', NEW n \in Peers, OnlyAt(n),
         BlockOK(n)', OutOK(n)', DoneOK(n)', RxOK(n)',
         No(rx[n], Replies) => No(rx'[n], Replies),
         Keeps(n) \/ ~Awaited(n),
         \A m \in Peers, t \in Timeslots : Backed(m, n, t) => Backed(m, n, t)',
         \A p \in Peers, t \in Timeslots : cell'[n][t] = Tx(p) => Backed(n, p, t)
  PROVE  IInv'
<1>1. \A m \in Peers : m # n => NodeOK(m)'
  BY OthersKept
<1>2. CellsOK(n)'
  <2>1. SUFFICES ASSUME NEW p \in Peers, NEW t \in Timeslots, cell'[n][t] = Tx(p)
                 PROVE  Backed(n, p, t)'
    BY DEF CellsOK
  <2>2. Backed(n, p, t)
    BY <2>1
  <2>3. CASE p = n
    BY <2>2, <2>3
  <2>4. CASE p # n
    <3>1. Same(p)
      BY <2>4 DEF OnlyAt
    <3> QED BY <2>2, <3>1, SameFacts
  <2> QED BY <2>3, <2>4
<1> QED BY <1>1, <1>2 DEF IInv, NodeOK

-----------------------------------------------------------------------------
(* The steps, one transaction at a time.                                   *)

LEMMA TheBlock ==
  ASSUME OneBlock
  PROVE  Block \in Blocks /\ Block # NoBlock /\ \A b \in Blocks : b = Block
BY SfsbNetAssumption DEF OneBlock

LEMMA BlockSet ==
  ASSUME OneBlock, TypeOK, NEW n \in Peers, NEW u, blk' = [blk EXCEPT ![n][Block] = u]
  PROVE  T(n)' = u /\ \A m \in Peers : m # n => blk'[m] = blk[m]
BY TheBlock DEF TypeOK, T

LEMMA IdleQueues ==
  ASSUME NEW n, Idle(n)
  PROVE  /\ Range(rx[n]) = {} /\ Range(done[n]) = {}
         /\ \A K : No(rx[n], K) /\ No(done[n], K) /\ Once(rx[n], K) /\ Once(done[n], K)
<1>1. rx[n] = <<>> /\ done[n] = <<>> /\ DOMAIN <<>> = {}
  BY DEF Idle
<1>2. Range(rx[n]) = {} /\ Range(done[n]) = {}
  BY <1>1 DEF Range
<1> QED BY <1>1, <1>2 DEF No, Once

(* A timer, or a request that goes nowhere.                                *)
LEMMA IdleStep ==
  ASSUME IInv, TypeOK', NEW n \in Peers, OnlyAt(n), Idle(n), BlockOK(n)',
         cell'[n] = cell[n] /\ out'[n] = out[n] /\ rx'[n] = rx[n] /\ done'[n] = done[n],
         \/ ~Awaited(n) /\ \A p \in Peers : No(out[n][p], OwnFrames)
         \/ Keeps(n) /\ Alike(n)
  PROVE  IInv'
<1>1. OutOK(n)'
  BY OutKept
<1>2. DoneOK(n)'
  BY IdleQueues DEF DoneOK
<1>3. No(rx'[n], Replies)
  BY IdleQueues
<1>4. RxOK(n)'
  <2>1. \A p \in Peers : out'[n][p] = out[n][p]
    OBVIOUS
  <2> QED BY <1>3, <2>1, RxKept
<1>5. \A m \in Peers, t \in Timeslots : Backed(m, n, t) => Backed(m, n, t)'
  BY IdleQueues DEF Backed
<1>6. \A p \in Peers, t \in Timeslots : cell'[n][t] = Tx(p) => Backed(n, p, t)
  BY DEF IInv, NodeOK, CellsOK
<1> QED BY <1>1, <1>2, <1>3, <1>4, <1>5, <1>6, LocalStep

LEMMA TimeoutStep ==
  ASSUME OneBlock, ~Late, IInv, TypeOK', NEW n \in Peers, NEW b \in Blocks, Timeout(n, b)
  PROVE  IInv'
<1>1. TypeOK /\ NodeOK(n) /\ b = Block
  BY TheBlock DEF IInv
<1>2. PICK t \in Trans : t = T(n)
  BY <1>1 DEF TypeOK, T
<1>3. /\ Idle(n) /\ t.timer = "timeout" /\ ~UnderWay(n, t.peer, t.seqno)
      /\ blk' = [blk EXCEPT ![n][Block] = Moved(t, "TERMINATING")]
      /\ UNCHANGED <<nbr, cell, res, out, rx, done>>
  BY <1>1, <1>2 DEF Timeout, T
<1>4. t.peer \in Peers
  BY <1>1, <1>2, <1>3 DEF NodeOK, BlockOK, Trans
<1>5. T(n)' = Moved(t, "TERMINATING") /\ OnlyAt(n)
  BY <1>1, <1>3, BlockSet DEF OnlyAt, Same
<1>6. T(n)'.peer = t.peer /\ T(n)'.state = "TERMINATING"
  BY <1>5, MovedFields DEF States
<1>7. BlockOK(n)'
  BY <1>1, <1>2, <1>4, <1>6, SixpTransAssumption DEF NodeOK, BlockOK
<1>8. \A p \in Peers : No(out[n][p], OwnFrames)
  <2>1. SUFFICES ASSUME NEW p \in Peers, NEW f \in Range(out[n][p]), f \in OwnFrames
                 PROVE  FALSE
    BY DEF No
  <2>2. FrameOK(n, p, f) /\ f.pkt.kind \in {"REQUEST", "RESPONSE"}
    BY <1>1, <2>1 DEF NodeOK, OutOK, OwnFrames, Queued, Contents
  <2>3. p = t.peer /\ f.pkt.seqno = t.seqno /\ f.pkt.kind # "ERROR"
    BY <1>2, <2>2 DEF FrameOK, Answering, Matches
  <2>4. PICK i \in DOMAIN out[n][p] : out[n][p][i] = f
    BY DEF Range
  <2> QED BY <1>3, <2>3, <2>4 DEF UnderWay
<1>9. ~Awaited(n)
  <2>1. SUFFICES ASSUME NEW m \in Peers, AwaitedBy(n, m)
                 PROVE  FALSE
    BY DEF Awaited
  <2>2. m = t.peer
    BY <1>2, <2>1, Unheard DEF Requested
  <2>3. CASE ~No(out[m][n], Answers)
    <3>1. PICK f \in Range(out[m][n]) : f \in Answers
      BY <2>3 DEF No
    <3>2. FrameOK(m, n, f) /\ f.pkt.kind \in {"RESPONSE", "ERROR"}
      BY <3>1 DEF IInv, NodeOK, OutOK, Answers, Queued, Contents
    <3>3. f.pkt.seqno = t.seqno \/ f.pkt.kind = "ERROR"
      BY <1>2, <3>2 DEF FrameOK, Matches
    <3>4. PICK i \in DOMAIN out[m][n] : out[m][n][i] = f
      BY DEF Range
    <3> QED BY <1>3, <2>2, <3>3, <3>4 DEF UnderWay
  <2>4. CASE ~No(rx[m], RequestsOf(n))
    <3>1. PICK r \in Range(rx[m]) : r \in RequestsOf(n)
      BY <2>4 DEF No
    <3>2. r.src = n /\ r.pkt.seqno = t.seqno
      BY <1>2, <3>1 DEF IInv, NodeOK, RxOK, InputOK, RequestsOf, Matches
    <3>3. PICK i \in DOMAIN rx[m] : rx[m][i] = r
      BY DEF Range
    <3> QED BY <1>3, <2>2, <3>2, <3>3 DEF UnderWay
  <2> QED BY <2>1, <2>3, <2>4 DEF AwaitedBy
<1> QED BY <1>3, <1>5, <1>7, <1>8, <1>9, IdleStep

LEMMA ProcessStep ==
  ASSUME OneBlock, IInv, TypeOK', NEW n \in Peers, NEW b \in Blocks, ProcessTrans(n, b)
  PROVE  IInv'
<1>1. TypeOK /\ NodeOK(n) /\ b = Block
  BY TheBlock DEF IInv
<1>2. PICK t \in Trans : t = T(n)
  BY <1>1 DEF TypeOK, T
<1>3. PICK u : u = IF t.state = "TERMINATING" THEN FreeTrans(t.cb)
                   ELSE IF Over(t) THEN Moved(t, "TERMINATING")
                   ELSE [t EXCEPT !.timer = "timeout"]
  OBVIOUS
<1>4. /\ Idle(n) /\ t.timer = "process"
      /\ blk' = [blk EXCEPT ![n][Block] = u]
      /\ UNCHANGED <<nbr, cell, res, out, rx, done>>
  BY <1>1, <1>2, <1>3 DEF ProcessTrans, T
<1>5. t.peer \in Peers /\ t.peer # n
  BY <1>1, <1>2, <1>4 DEF NodeOK, BlockOK, Trans
<1>6. T(n)' = u /\ OnlyAt(n)
  BY <1>1, <1>4, BlockSet DEF OnlyAt, Same
<1>7. t.cb \in BOOLEAN /\ "TERMINATING" \in States /\ "timeout" \in Timers
  BY DEF Trans, States, Timers
<1>8. CASE t.state = "TERMINATING" \/ Over(t)
  <2>1. u = FreeTrans(t.cb) \/ u = Moved(t, "TERMINATING")
    BY <1>3, <1>8
  <2>2. u.state = "TERMINATING" /\ (u.peer = t.peer \/ (u.peer = NoPeer /\ u.timer = "off"))
    BY <1>7, <2>1, MovedFields, FreeFields
  <2>3. BlockOK(n)'
    BY <1>5, <1>6, <2>2, SixpTransAssumption DEF BlockOK
  <2>4. t.state \notin {"INIT", "REQUEST_SENT", "REQUEST_RECEIVED"}
    BY <1>8 DEF Over
  <2>5. ~Awaited(n)
    BY <1>2, <2>4, Unasked DEF Requested
  <2>6. \A p \in Peers : No(out[n][p], OwnFrames)
    BY <1>2, <2>4, NoOwnFrames
  <2> QED BY <1>4, <1>6, <2>3, <2>5, <2>6, IdleStep
<1>9. CASE ~(t.state = "TERMINATING" \/ Over(t))
  <2>1. u = [t EXCEPT !.timer = "timeout"]
    BY <1>3, <1>9
  <2>2. /\ u.peer = t.peer /\ u.state = t.state /\ u.seqno = t.seqno
        /\ u.cmd = t.cmd /\ u.cb = t.cb
    BY <1>7, <2>1, TimerFields
  <2>3. BlockOK(n)'
    BY <1>1, <1>2, <1>4, <1>5, <1>6, <2>2, SixpTransAssumption DEF NodeOK, BlockOK
  <2>4. Keeps(n)
    BY <1>2, <1>4, <1>6, <2>2 DEF Keeps, Requested, FreeSlots
  <2>5. Alike(n)
    BY <1>2, <1>4, <1>6, <2>2 DEF Alike, Answering, Matches, FreeSlots
  <2> QED BY <1>4, <1>6, <2>3, <2>4, <2>5, IdleStep
<1> QED BY <1>8, <1>9

LEMMA OutputStep ==
  ASSUME OneBlock, IInv, TypeOK', NEW n \in Peers, NEW p \in Peers, n # p, NEW c \in Cmds,
         NEW cells \in SUBSET Timeslots, cells \subseteq FreeSlots(n), Idle(n),
         Output(n, p, c, cells), UNCHANGED <<cell, res, rx, done>>
  PROVE  IInv'
<1>1. TypeOK /\ NodeOK(n) /\ BlockOK(n)
  BY DEF IInv, NodeOK
<1>2. PICK k \in SeqNos : k = IF nbr[n][p] = NoNbr THEN 0 ELSE nbr[n][p]
  BY <1>1, ZeroSeqno DEF TypeOK
<1>3. nbr' = [nbr EXCEPT ![n][p] = k] /\ k # NoNbr
  BY <1>2, ZeroSeqno DEF Output
<1>4. /\ \A q \in Peers : nbr'[n][q] = IF q = p THEN k ELSE nbr[n][q]
      /\ \A m \in Peers : m # n => nbr'[m] = nbr[m]
  BY <1>1, <1>3 DEF TypeOK
<1>5. CASE blk' = blk /\ out' = out
  <2>1. OnlyAt(n) /\ T(n)' = T(n)
    BY <1>4, <1>5 DEF OnlyAt, Same, T
  <2>2. \A q \in Peers : nbr[n][q] # NoNbr => nbr'[n][q] # NoNbr
    BY <1>3, <1>4
  <2>3. T(n).peer = NoPeer \/ T(n).peer \in Peers
    BY <1>1, TheBlock DEF TypeOK, T, Trans
  <2>4. BlockOK(n)'
    BY <1>1, <2>1, <2>2, <2>3 DEF BlockOK
  <2>5. Keeps(n)
    BY <2>1 DEF Keeps, Requested, FreeSlots
  <2>6. Alike(n)
    <3>1. \A q, d : Answering(n, q, d) => q \in Peers
      BY <1>1, <2>3 DEF Answering, BlockOK
    <3>2. \A q, d : Answering(n, q, d) => Answering(n, q, d)'
      BY <2>1, <2>2, <3>1 DEF Answering, FreeSlots
    <3> QED BY <2>1, <3>2 DEF Alike, Matches, FreeSlots
  <2> QED BY <1>5, <2>1, <2>4, <2>5, <2>6, IdleStep
<1>6. CASE ~(blk' = blk /\ out' = out)
  <2>1. PICK cb \in BOOLEAN : cb = (c = "SIGNAL")
    OBVIOUS
  <2>2. PICK v : v = NewTrans(p, k, c, 2)
    OBVIOUS
  <2>3. v \in Trans /\ v.peer = p /\ v.seqno = k /\ v.cmd = c /\ v.state = "INIT"
    BY <1>2, <2>2 DEF NewTrans, Trans, States, Timers
  <2>4. PICK t : t = [v EXCEPT !.cb = cb]
    OBVIOUS
  <2>5. t \in Trans /\ t.peer = p /\ t.seqno = k /\ t.cmd = c /\ t.state = "INIT"
    BY <2>3, <2>4, CallbackFields
  <2>6. PICK pkt \in Contents : pkt = Pkt("REQUEST", c, k, cells)
    BY <1>2, PktType
  <2>7. FirstFree(n, Block) /\ HandOver(n, p, Block, t, pkt)
    <3>1. \E b \in Blocks : FirstFree(n, b) /\ HandOver(n, p, b, t, pkt)
      BY <1>2, <1>6, <2>1, <2>2, <2>4, <2>6 DEF Output
    <3> QED BY <3>1, TheBlock
  <2>8. T(n).peer = NoPeer /\ T(n).state = "TERMINATING"
    BY <1>1, <2>7 DEF FirstFree, Used, T, BlockOK
  <2>9. ~Awaited(n) /\ \A q \in Peers : No(out[n][q], OwnFrames)
    BY <2>8, Unasked, NoOwnFrames DEF Requested
  <2>10. CASE Len(out[n][p]) < QueueCap
    <3>1. PICK f \in Queued : f = [pkt |-> pkt, block |-> Block]
      BY TheBlock DEF Queued, MaybeBlocks
    <3>2. blk' = [blk EXCEPT ![n][Block] = t] /\ out' = [out EXCEPT ![n][p] = Append(@, f)]
      BY <2>7, <2>10, <3>1 DEF HandOver
    <3>3. /\ \A q \in Peers : out'[n][q] = IF q = p THEN Append(out[n][q], f) ELSE out[n][q]
          /\ \A m \in Peers : m # n => out'[m] = out[m]
      BY <1>1, <3>2, QueueTypes
    <3>4. T(n)' = t /\ OnlyAt(n)
      BY <1>1, <1>4, <3>2, <3>3, BlockSet DEF OnlyAt, Same
    <3>5. BlockOK(n)'
      BY <1>3, <1>4, <2>5, <3>4, SixpTransAssumption DEF BlockOK
    <3>6. f.pkt.kind = "REQUEST" /\ f.pkt.seqno = k /\ f.pkt.cmd = c /\ f.pkt.cells = cells /\ f.block = Block
      BY <2>6, <3>1 DEF Pkt
    <3>7. FrameOK(n, p, f)'
      <4>1. No(done'[n], OwnReports)
        BY IdleQueues
      <4>2. Matches(n, f.pkt)'
        BY <2>5, <3>4, <3>6 DEF Matches, FreeSlots
      <4> QED BY <2>5, <3>4, <3>6, <4>1, <4>2 DEF FrameOK
    <3>8. f \notin Answers
      BY <3>6 DEF Answers
    <3>9. OutOK(n)'
      BY <2>9, <3>3, <3>4, <3>7, <3>8, OutAppended
    <3>10. DoneOK(n)'
      BY IdleQueues DEF DoneOK
    <3>11. RxOK(n)' /\ (No(rx[n], Replies) => No(rx'[n], Replies))
      <4>1. \A K : No(rx'[n], K)
        BY IdleQueues
      <4> QED BY <3>4, <4>1, RxKept
    <3>12. \A m \in Peers, s \in Timeslots : Backed(m, n, s) => Backed(m, n, s)'
      BY IdleQueues DEF Backed
    <3>13. \A q \in Peers, s \in Timeslots : cell'[n][s] = Tx(q) => Backed(n, q, s)
      BY <1>1 DEF NodeOK, CellsOK
    <3> QED BY <2>9, <3>4, <3>5, <3>9, <3>10, <3>11, <3>12, <3>13, LocalStep
  <2>11. CASE ~(Len(out[n][p]) < QueueCap)
    <3>1. PICK u \in Trans : u = Reported(t, FALSE) /\ u.peer = p /\ u.state = "TERMINATING"
      BY <2>5, ReportedFields
    <3>2. blk' = [blk EXCEPT ![n][Block] = u] /\ out' = out
      BY <2>7, <2>11, <3>1 DEF HandOver
    <3>3. T(n)' = u /\ OnlyAt(n)
      BY <1>1, <1>4, <3>2, BlockSet DEF OnlyAt, Same
    <3>4. BlockOK(n)'
      BY <3>1, <3>3, SixpTransAssumption DEF BlockOK
    <3> QED BY <2>9, <3>2, <3>3, <3>4, IdleStep
  <2> QED BY <2>10, <2>11
<1> QED BY <1>5, <1>6

(* The error that answers a request of p.                                  *)
LEMMA ErrorHanded ==
  ASSUME IInv, NEW n \in Peers, NEW p \in Peers, OnlyAt(n), NEW c \in Cmds, NEW k \in SeqNos,
         HandError(n, p, c, k),
         Requested(p, n), No(rx[p], Replies), No(out[n][p], Answers),
         (\A q \in Peers : No(out[n][q], OwnFrames)) \/ Alike(n)
  PROVE  OutOK(n)' /\ \A q \in Peers : q # p => out'[n][q] = out[n][q]
<1>1. TypeOK
  BY DEF IInv
<1>2. PICK pkt \in Contents : pkt = Pkt("ERROR", c, k, {})
  BY PktType
<1>3. PICK f \in Queued : f = [pkt |-> pkt, block |-> NoBlock]
  BY DEF Queued, MaybeBlocks
<1>4. f.pkt.kind = "ERROR" /\ f.block = NoBlock
  BY <1>2, <1>3 DEF Pkt
<1>5. p # n
  BY Unheard
<1>6. FrameOK(n, p, f)'
  <2>1. Same(p)
    BY <1>5 DEF OnlyAt
  <2>2. Requested(p, n)' /\ No(rx'[p], Replies)
    BY <2>1, SameFacts DEF Same
  <2> QED BY <1>4, <2>2 DEF FrameOK
<1>7. CASE Len(out[n][p]) < QueueCap
  <2>1. out' = [out EXCEPT ![n][p] = Append(@, f)]
    BY <1>2, <1>3, <1>7 DEF HandError
  <2>2. \A q \in Peers : out'[n][q] = IF q = p THEN Append(out[n][q], f) ELSE out[n][q]
    BY <1>1, <2>1, QueueTypes
  <2>3. f \notin OwnFrames
    BY <1>4 DEF OwnFrames
  <2>4. OutOK(n)'
    BY <1>6, <2>2, <2>3, OutAppended
  <2> QED BY <2>2, <2>4
<1>8. CASE ~(Len(out[n][p]) < QueueCap)
  <2>1. out' = out
    BY <1>8 DEF HandError
  <2> QED BY <2>1, OutKept
<1> QED BY <1>7, <1>8

(* A request of p that finds n without a transaction.                      *)
LEMMA RequestTaken ==
  ASSUME OneBlock, IInv, TypeOK', NEW n \in Peers, OnlyAt(n), NEW p \in Peers, p # n,
         T(n).peer = NoPeer, T(n)'.peer = p, T(n)'.state = "REQUEST_RECEIVED",
         cell'[n] = cell[n], done'[n] = done[n], OutOK(n)',
         rx[n] # <<>>, rx'[n] = Tail(rx[n]), No(rx'[n], RequestsOf(p)),
         \A q \in Peers : q # p => out'[n][q] = out[n][q]
  PROVE  IInv'
<1>1. NodeOK(n) /\ T(n).state = "TERMINATING" /\ TypeOK
  BY DEF IInv, NodeOK, BlockOK
<1>2. BlockOK(n)'
  BY SixpTransAssumption DEF BlockOK
<1>3. DoneOK(n)'
  <2>1. SUFFICES ASSUME NEW d \in Range(done[n]) PROVE ReportOK(n, d)'
    BY <1>1 DEF NodeOK, DoneOK
  <2>2. No(done[n], OwnReports)
    BY NoOwnReports
  <2>3. d.kind = "ERROR" /\ ReportOK(n, d)
    BY <1>1, <2>2, InQueues DEF No, OwnReports, NodeOK, DoneOK
  <2> QED BY <2>3 DEF ReportOK
<1>4. ~Awaited(n) /\ No(rx[n], Replies)
  BY <1>1, Unasked, SixpTransAssumption DEF Requested
<1>5. No(rx'[n], Replies)
  <2>1. rx[n] \in Seq(Received)
    BY <1>1, QueueTypes
  <2> QED BY <1>4, <2>1, TailRange DEF No
<1>6. RxOK(n)'
  BY <1>5, RxKept
<1>7. \A m \in Peers, t \in Timeslots : Backed(m, n, t) => Backed(m, n, t)'
  BY SixpTransAssumption DEF Backed
<1>8. \A q \in Peers, t \in Timeslots : cell'[n][t] = Tx(q) => Backed(n, q, t)
  BY <1>1 DEF NodeOK, CellsOK
<1> QED BY <1>2, <1>3, <1>4, <1>5, <1>6, <1>7, <1>8, LocalStep

(* ... and is refused.                                                     *)
LEMMA RequestRefused ==
  ASSUME OneBlock, IInv, TypeOK', NEW n \in Peers, NEW p \in Peers,
         NEW c \in Cmds, NEW k \in SeqNos, HandError(n, p, c, k),
         Requested(p, n), No(rx[p], Replies), No(out[n][p], Answers),
         UNCHANGED <<blk, nbr, cell, res, done>>,
         rx[n] # <<>>, rx' = [rx EXCEPT ![n] = Tail(@)], No(Tail(rx[n]), RequestsOf(p))
  PROVE  IInv'
<1>1. NodeOK(n) /\ TypeOK
  BY DEF IInv
<1>2. rx'[n] = Tail(rx[n]) /\ \A m \in Peers : m # n => rx'[m] = rx[m]
  BY <1>1, QueueTypes
<1>3. \A m \in Peers : m # n => out'[m] = out[m]
  BY <1>1, QueueTypes DEF HandError
<1>4. OnlyAt(n) /\ T(n)' = T(n)
  BY <1>2, <1>3 DEF OnlyAt, Same, T
<1>5. Alike(n) /\ Keeps(n)
  BY <1>4 DEF Alike, Keeps, Answering, Matches, Requested, FreeSlots
<1>6. OutOK(n)' /\ \A q \in Peers : q # p => out'[n][q] = out[n][q]
  BY <1>4, <1>5, ErrorHanded
<1>7. BlockOK(n)'
  BY <1>1, <1>4 DEF NodeOK, BlockOK
<1>8. DoneOK(n)'
  BY <1>1, <1>4, <1>5 DEF NodeOK, DoneOK, ReportOK, Alike
<1>9. RxOK(n)' /\ (No(rx[n], Replies) => No(rx'[n], Replies))
  BY <1>2, <1>4, <1>5, <1>6, RxKept
<1>10. \A m \in Peers, t \in Timeslots : Backed(m, n, t) => Backed(m, n, t)'
  BY <1>4 DEF Backed, Acked
<1>11. \A q \in Peers, t \in Timeslots : cell'[n][t] = Tx(q) => Backed(n, q, t)
  BY <1>1 DEF NodeOK, CellsOK
<1> QED BY <1>4, <1>5, <1>6, <1>7, <1>8, <1>9, <1>10, <1>11, LocalStep

LEMMA RequestStep ==
  ASSUME OneBlock, IInv, TypeOK', NEW n \in Peers, ReceiveRequest(n)
  PROVE  IInv'
<1>1. TypeOK /\ NodeOK(n)
  BY DEF IInv
<1>2. rx[n] \in Seq(Received) /\ rx[n] # <<>>
  BY <1>1, QueueTypes DEF ReceiveRequest
<1>3. PICK r \in Received : r = Head(rx[n]) /\ r \in Range(rx[n])
  BY <1>2, HeadTaken, TailRange
<1>4. PICK p \in Peers, pkt \in Contents : p = r.src /\ pkt = r.pkt
  BY <1>3 DEF Received
<1>5. r.pkt.kind = "REQUEST"
  BY <1>3 DEF ReceiveRequest
<1>6. /\ Requested(p, n) /\ Matches(p, pkt)
      /\ No(out[n][p], Answers) /\ No(rx[p], Replies)
  BY <1>1, <1>3, <1>4, <1>5 DEF NodeOK, RxOK, InputOK
<1>7. p # n
  BY <1>6, Unheard
<1>8. /\ rx' = [rx EXCEPT ![n] = Tail(@)]
      /\ No(Tail(rx[n]), RequestsOf(p))
  <2>1. r \in RequestsOf(p)
    BY <1>4, <1>5 DEF RequestsOf
  <2>2. Once(rx[n], RequestsOf(p))
    BY <1>1 DEF NodeOK, RxOK
  <2> QED BY <1>2, <1>3, <2>1, <2>2, OnceTail DEF ReceiveRequest
<1>9. rx'[n] = Tail(rx[n]) /\ \A m \in Peers : m # n => rx'[m] = rx[m]
  BY <1>1, <1>8, QueueTypes
<1>10. pkt.seqno \in SeqNos /\ pkt.cells \in SUBSET Timeslots /\ pkt.cmd \in Cmds
  BY <1>4 DEF Contents
<1>11. UNCHANGED <<cell, done>>
  BY DEF ReceiveRequest
<1>12. CASE Busy(n, p) \/ Full(n)
  <2>1. HandError(n, p, pkt.cmd, pkt.seqno) /\ UNCHANGED <<blk, nbr, res>>
    BY <1>3, <1>4, <1>12 DEF ReceiveRequest
  <2> QED BY <1>2, <1>6, <1>8, <1>10, <1>11, <2>1, RequestRefused
<1>13. CASE ~(Busy(n, p) \/ Full(n))
  <2>1. PICK v : v = NewTrans(p, pkt.seqno, pkt.cmd, 2)
    OBVIOUS
  <2>2. v \in Trans /\ v.seqno = pkt.seqno /\ v.peer = p /\ v.cmd = pkt.cmd
    BY <1>10, <2>1 DEF NewTrans, Trans, States, Timers
  <2>3. PICK t : t = Moved(v, "REQUEST_RECEIVED")
    OBVIOUS
  <2>4. /\ t \in Trans /\ t.seqno = pkt.seqno /\ t.peer = p /\ t.cmd = pkt.cmd
        /\ t.state = "REQUEST_RECEIVED"
    BY <2>2, <2>3, MovedFields DEF States
  <2>5. /\ FirstFree(n, Block)
        /\ IF Inconsistent(n, p, pkt.seqno)
           THEN /\ blk' = [blk EXCEPT ![n][Block] = t]
                /\ HandError(n, p, pkt.cmd, IF nbr[n][p] = NoNbr THEN 0 ELSE nbr[n][p])
                /\ UNCHANGED <<nbr, res>>
           ELSE IF pkt.cmd = "ADD" THEN AddReqInput(n, p, Block, t, pkt.cells)
                ELSE SignalReqInput(n, Block, t)
    <3>1. PICK b \in Blocks : /\ FirstFree(n, b)
        /\ IF Inconsistent(n, p, pkt.seqno)
           THEN /\ blk' = [blk EXCEPT ![n][b] = t]
                /\ HandError(n, p, pkt.cmd, IF nbr[n][p] = NoNbr THEN 0 ELSE nbr[n][p])
                /\ UNCHANGED <<nbr, res>>
           ELSE IF pkt.cmd = "ADD" THEN AddReqInput(n, p, b, t, pkt.cells)
                ELSE SignalReqInput(n, b, t)
      BY <1>3, <1>4, <1>13, <2>1, <2>3 DEF ReceiveRequest
    <3> QED BY <3>1, TheBlock
  <2>6. T(n).peer = NoPeer /\ T(n).state = "TERMINATING"
    BY <1>1, <2>5 DEF FirstFree, Used, T, NodeOK, BlockOK
  <2>7. \A q \in Peers : No(out[n][q], OwnFrames)
    BY <2>6, NoOwnFrames
  <2>8. CASE Inconsistent(n, p, pkt.seqno)
    <3>1. PICK k \in SeqNos : k = IF nbr[n][p] = NoNbr THEN 0 ELSE nbr[n][p]
      BY <1>1, ZeroSeqno DEF TypeOK
    <3>2. HandError(n, p, pkt.cmd, k) /\ blk' = [blk EXCEPT ![n][Block] = t] /\ UNCHANGED <<nbr, res>>
      BY <2>5, <2>8, <3>1
    <3>3. \A m \in Peers : m # n => out'[m] = out[m]
      BY <1>1, <3>2, QueueTypes DEF HandError
    <3>4. T(n)' = t /\ OnlyAt(n)
      BY <1>1, <1>9, <1>11, <3>2, <3>3, BlockSet DEF OnlyAt, Same
    <3>5. OutOK(n)' /\ \A q \in Peers : q # p => out'[n][q] = out[n][q]
      BY <1>6, <1>10, <2>7, <3>2, <3>4, ErrorHanded
    <3> QED BY <1>2, <1>7, <1>8, <1>9, <1>11, <2>4, <2>6, <3>4, <3>5, RequestTaken
  <2>9. CASE ~Inconsistent(n, p, pkt.seqno) /\ blk' = [blk EXCEPT ![n][Block] = t] /\ out' = out /\ nbr' = nbr
    <3>1. \A m \in Peers : m # n => res'[m] = res[m]
      <4>1. AddReqInput(n, p, Block, t, pkt.cells) \/ SignalReqInput(n, Block, t)
        BY <2>5, <2>9
      <4>2. \E S : res' = [res EXCEPT ![n] = S]
        BY <4>1 DEF AddReqInput, SignalReqInput
      <4> QED BY <1>1, <4>2 DEF TypeOK
    <3>2. T(n)' = t /\ OnlyAt(n)
      BY <1>1, <1>9, <1>11, <2>9, <3>1, BlockSet DEF OnlyAt, Same
    <3>3. OutOK(n)'
      BY <2>7, <2>9, <3>2, OutKept
    <3> QED BY <1>2, <1>7, <1>8, <1>9, <1>11, <2>4, <2>6, <2>9, <3>2, <3>3, RequestTaken
  <2>10. CASE /\ ~Inconsistent(n, p, pkt.seqno)
              /\ ~(blk' = [blk EXCEPT ![n][Block] = t] /\ out' = out /\ nbr' = nbr)
    <3>1. pkt.cmd = "ADD" /\ AddReqInput(n, p, Block, t, pkt.cells)
      BY <2>5, <2>10 DEF SignalReqInput
    <3>2. PICK cells \in SUBSET (pkt.cells \cap FreeSlots(n)) :
            /\ res' = [res EXCEPT ![n] = cells]
            /\ nbr' = [nbr EXCEPT ![n][p] = IF @ = NoNbr THEN 0 ELSE @]
            /\ HandOver(n, p, Block, [t EXCEPT !.cb = TRUE], Pkt("RESPONSE", "ADD", t.seqno, cells))
      BY <2>10, <3>1 DEF AddReqInput
    <3>3. PICK u : u = [t EXCEPT !.cb = TRUE]
      OBVIOUS
    <3>4. /\ u \in Trans /\ u.seqno = pkt.seqno /\ u.peer = p /\ u.cmd = "ADD"
          /\ u.state = "REQUEST_RECEIVED" /\ u.cb
      BY <2>4, <3>1, <3>3, CallbackFields
    <3>5. PICK answer \in Contents : answer = Pkt("RESPONSE", "ADD", t.seqno, cells)
      BY <1>10, <2>4, <3>1, <3>2, PktType
    <3>6. HandOver(n, p, Block, u, answer)
      BY <3>2, <3>3, <3>5
    <3>7. /\ nbr'[n][p] # NoNbr /\ \A m \in Peers : m # n => nbr'[m] = nbr[m]
          /\ res'[n] = cells /\ \A m \in Peers : m # n => res'[m] = res[m]
      BY <1>1, <3>2, ZeroSeqno DEF TypeOK
    <3>8. CASE ~(Len(out[n][p]) < QueueCap)
      <4>1. PICK w \in Trans : w = Reported(u, FALSE) /\ w.peer = p /\ w.state = "REQUEST_RECEIVED"
        <5>1. Reported(u, FALSE) \in Trans /\ Reported(u, FALSE).peer = p
          BY <3>4, ReportedFields
        <5>2. Reported(u, FALSE).state = "REQUEST_RECEIVED"
          <6>1. Reported(u, FALSE).state = IF u.state = "INIT" THEN "TERMINATING" ELSE u.state
            BY <3>4, ReportedFields
          <6> QED BY <3>4, <6>1
        <5> QED BY <5>1, <5>2
      <4>2. blk' = [blk EXCEPT ![n][Block] = w] /\ out' = out
        BY <3>6, <3>8, <4>1 DEF HandOver
      <4>3. T(n)' = w /\ OnlyAt(n)
        BY <1>1, <1>9, <1>11, <3>7, <4>2, BlockSet DEF OnlyAt, Same
      <4>4. OutOK(n)'
        BY <2>7, <4>2, <4>3, OutKept
      <4> QED BY <1>2, <1>7, <1>8, <1>9, <1>11, <2>6, <4>1, <4>2, <4>3, <4>4, RequestTaken
    <3>9. CASE Len(out[n][p]) < QueueCap
      <4>1. PICK f \in Queued : f = [pkt |-> answer, block |-> Block]
        BY TheBlock DEF Queued, MaybeBlocks
      <4>2. blk' = [blk EXCEPT ![n][Block] = u] /\ out' = [out EXCEPT ![n][p] = Append(@, f)]
        BY <3>6, <3>9, <4>1 DEF HandOver
      <4>3. /\ \A q \in Peers : out'[n][q] = IF q = p THEN Append(out[n][q], f) ELSE out[n][q]
            /\ \A m \in Peers : m # n => out'[m] = out[m]
        BY <1>1, <4>2, QueueTypes
      <4>4. T(n)' = u /\ OnlyAt(n)
        BY <1>1, <1>9, <1>11, <3>7, <4>2, <4>3, BlockSet DEF OnlyAt, Same
      <4>5. /\ f.pkt.kind = "RESPONSE" /\ f.pkt.seqno = pkt.seqno /\ f.pkt.cmd = "ADD"
            /\ f.pkt.cells = cells /\ f.block = Block
        BY <2>4, <3>5, <4>1 DEF Pkt
      <4>6. FrameOK(n, p, f)'
        <5>1. No(done'[n], OwnReports)
          BY <1>11, <2>6, NoOwnReports
        <5>2. FreeSlots(n)' = FreeSlots(n) /\ cells \subseteq FreeSlots(n) /\ cells \subseteq pkt.cells
          BY <1>11, <3>2 DEF FreeSlots
        <5>3. Answering(n, p, f.pkt.cells)'
          BY <3>4, <3>7, <4>4, <4>5, <5>2 DEF Answering
        <5>4. Matches(n, f.pkt)'
          BY <3>4, <4>4, <4>5, <5>2 DEF Matches
        <5>5. Same(p)
          BY <1>7, <4>4 DEF OnlyAt
        <5>6. Matches(p, f.pkt)
          BY <1>6, <3>1, <4>5, <5>2 DEF Matches
        <5>7. Requested(p, n)' /\ No(rx'[p], Replies) /\ Matches(p, f.pkt)'
          BY <1>6, <5>5, <5>6, SameFacts DEF Same
        <5> QED BY <4>5, <5>1, <5>3, <5>4, <5>7 DEF FrameOK
      <4>7. OutOK(n)'
        BY <1>6, <2>7, <4>3, <4>4, <4>6, OutAppended
      <4>8. \A q \in Peers : q # p => out'[n][q] = out[n][q]
        BY <4>3
      <4> QED BY <1>2, <1>7, <1>8, <1>9, <1>11, <2>6, <3>4, <4>4, <4>7, <4>8, RequestTaken
    <3> QED BY <3>8, <3>9
  <2> QED BY <2>8, <2>9, <2>10
<1> QED BY <1>12, <1>13

LEMMA ResponseStep ==
  ASSUME OneBlock, IInv, TypeOK', NEW n \in Peers, ReceiveResponse(n)
  PROVE  IInv'
<1>1. TypeOK /\ NodeOK(n) /\ BlockOK(n)
  BY DEF IInv, NodeOK
<1>2. rx[n] \in Seq(Received) /\ rx[n] # <<>>
  BY <1>1, QueueTypes DEF ReceiveResponse
<1>3. PICK r \in Received : r = Head(rx[n]) /\ r \in Range(rx[n])
  BY <1>2, HeadTaken, TailRange
<1>4. PICK p \in Peers, pkt \in Contents : p = r.src /\ pkt = r.pkt
  BY <1>3 DEF Received
<1>5. pkt.kind # "REQUEST" /\ r \in Replies
  BY <1>3, <1>4 DEF ReceiveResponse, Replies
<1>6. /\ InputOK(n, r) /\ Requested(n, p)
      /\ pkt.kind = "RESPONSE" => Matches(n, pkt) /\ \A t \in pkt.cells : Backed(n, p, t)
  BY <1>1, <1>3, <1>4, <1>5 DEF NodeOK, RxOK, InputOK
<1>7. ~Awaited(n)
  <2>1. ~No(rx[n], Replies)
    BY <1>3, <1>5 DEF No
  <2> QED BY <2>1, Unheard DEF Awaited
<1>8. No(Tail(rx[n]), Replies)
  BY <1>1, <1>2, <1>3, <1>5, OnceTail DEF NodeOK, RxOK
<1>9. PICK t \in Trans : t = T(n)
  BY <1>1, TheBlock DEF TypeOK, T
<1>10. /\ t.peer = p /\ t.state \in {"INIT", "REQUEST_SENT"}
       /\ t.state = "INIT" => ~No(done[n], OwnReports)
  BY <1>6, <1>9 DEF Requested, No
<1>11. \A q \in Peers : No(out[n][q], OwnFrames)
  BY <1>9, <1>10, NoOwnFrames
<1>12. UNCHANGED <<nbr, res, out, done>> /\ rx' = [rx EXCEPT ![n] = Tail(@)]
  BY DEF ReceiveResponse
<1>13. rx'[n] = Tail(rx[n]) /\ \A m \in Peers : m # n => rx'[m] = rx[m]
  BY <1>1, <1>12, QueueTypes
<1>14. PICK mine : mine = Mine(n, p, pkt.seqno)
  OBVIOUS
<1>15. PICK u : u = IF Block \in mine THEN MovedOrEnded(t, "RESPONSE_RECEIVED") ELSE t
  OBVIOUS
<1>16. T(n)' = u /\ \A m \in Peers : m # n => blk'[m] = blk[m]
  <2>1. PICK moved : moved = [b \in Blocks |->
          IF b \in mine THEN MovedOrEnded(blk[n][b], "RESPONSE_RECEIVED") ELSE blk[n][b]]
    OBVIOUS
  <2>2. blk' = [blk EXCEPT ![n] = moved]
    BY <1>3, <1>4, <1>14, <2>1 DEF ReceiveResponse
  <2>3. moved[Block] = u
    BY <1>9, <1>15, <2>1, TheBlock DEF T
  <2> QED BY <1>1, <2>2, <2>3 DEF TypeOK, T
<1>17. /\ u.peer = p
       /\ u.state = t.state \/ u.state \in {"RESPONSE_RECEIVED", "TERMINATING"}
       /\ t.state = "INIT" => u.state \in {"INIT", "TERMINATING"}
  <2>1. "RESPONSE_RECEIVED" \in States
    BY DEF States
  <2>2. CASE Block \in mine
    <3>1. u = MovedOrEnded(t, "RESPONSE_RECEIVED")
      BY <1>15, <2>2
    <3>2. u.peer = t.peer /\ u.state = IF Legal(t, "RESPONSE_RECEIVED") THEN "RESPONSE_RECEIVED" ELSE "TERMINATING"
      BY <2>1, <3>1, MovedOrEndedFields
    <3>3. t.state = "INIT" => ~Legal(t, "RESPONSE_RECEIVED")
      BY DEF Legal
    <3> QED BY <1>10, <3>2, <3>3
  <2>3. CASE Block \notin mine
    BY <1>10, <1>15, <2>3
  <2> QED BY <2>2, <2>3
<1>18. cell' = cell \/ (pkt.kind = "RESPONSE" /\ Install(n, Tx(p), pkt.cells))
  BY <1>3, <1>4 DEF ReceiveResponse
<1>19. /\ \A m \in Peers : m # n => cell'[m] = cell[m]
       /\ \A s \in Timeslots :
            \/ cell'[n][s] = cell[n][s]
            \/ pkt.kind = "RESPONSE" /\ s \in pkt.cells /\ cell'[n][s] = Tx(p)
  <2>1. CASE cell' = cell
    BY <2>1
  <2>2. CASE pkt.kind = "RESPONSE" /\ Install(n, Tx(p), pkt.cells)
    <3>1. PICK row : row = [s \in Timeslots |-> IF s \in pkt.cells THEN Tx(p) ELSE cell[n][s]]
      OBVIOUS
    <3>2. cell' = [cell EXCEPT ![n] = row]
      BY <2>2, <3>1 DEF Install
    <3>3. cell'[n] = row /\ \A m \in Peers : m # n => cell'[m] = cell[m]
      BY <1>1, <3>2 DEF TypeOK
    <3> QED BY <2>2, <3>1, <3>3
  <2> QED BY <1>18, <2>1, <2>2
<1>20. OnlyAt(n)
  BY <1>12, <1>13, <1>16, <1>19 DEF OnlyAt, Same
<1>21. BlockOK(n)'
  <2>1. p # n
    BY <1>1, <1>9, <1>10 DEF BlockOK
  <2>2. u.state \in {"INIT", "REQUEST_SENT"} => nbr[n][p] # NoNbr
    BY <1>1, <1>9, <1>10, <1>17, SixpTransAssumption DEF BlockOK
  <2> QED BY <1>12, <1>16, <1>17, <2>1, <2>2, SixpTransAssumption DEF BlockOK
<1>22. OutOK(n)'
  BY <1>11, <1>12, <1>20, OutKept
<1>23. DoneOK(n)'
  <2>1. SUFFICES ASSUME NEW d \in Range(done[n]) PROVE ReportOK(n, d)'
    BY <1>1, <1>12 DEF NodeOK, DoneOK
  <2>2. ReportOK(n, d)
    BY <1>1 DEF NodeOK, DoneOK
  <2>3. d.kind # "RESPONSE"
    BY <1>9, <1>10, <2>2 DEF ReportOK, Answering
  <2>4. ASSUME d.kind = "REQUEST" PROVE u.peer = d.to /\ u.state \in {"INIT", "TERMINATING"}
    <3>1. t.peer = d.to /\ t.state = "INIT"
      BY <1>9, <1>10, <2>2, <2>4 DEF ReportOK
    <3> QED BY <1>10, <1>17, <3>1
  <2> QED BY <1>16, <2>2, <2>3, <2>4 DEF ReportOK
<1>24. RxOK(n)'
  BY <1>2, <1>8, <1>12, <1>13, <1>20, RxKept
<1>25. \A m \in Peers, s \in Timeslots : Backed(m, n, s) => Backed(m, n, s)'
  <2>1. SUFFICES ASSUME NEW m \in Peers, NEW s \in Timeslots, Backed(m, n, s)
                 PROVE  cell'[n][s] = Rx(m)
    BY DEF Backed
  <2>2. cell[n][s] = Rx(m)
    BY <1>9, <1>10, <2>1 DEF Backed
  <2>3. pkt.kind = "RESPONSE" => s \notin pkt.cells
    BY <1>6, <2>2, LinksDiffer DEF Matches, FreeSlots
  <2> QED BY <1>19, <2>2, <2>3
<1>26. \A q \in Peers, s \in Timeslots : cell'[n][s] = Tx(q) => Backed(n, q, s)
  <2>1. SUFFICES ASSUME NEW q \in Peers, NEW s \in Timeslots, cell'[n][s] = Tx(q)
                 PROVE  Backed(n, q, s)
    OBVIOUS
  <2>2. CASE cell[n][s] = Tx(q)
    BY <1>1, <2>2 DEF NodeOK, CellsOK
  <2>3. CASE cell[n][s] # Tx(q)
    <3>1. pkt.kind = "RESPONSE" /\ s \in pkt.cells /\ q = p
      BY <1>19, <2>1, <2>3, LinksDiffer
    <3> QED BY <1>6, <3>1
  <2> QED BY <2>2, <2>3
<1>27. No(rx[n], Replies) => No(rx'[n], Replies)
  BY <1>8, <1>13
<1> QED BY <1>7, <1>20, <1>21, <1>22, <1>23, <1>24, <1>25, <1>26, <1>27, LocalStep

(* A report of the transaction of n.                                       *)
LEMMA OwnReport ==
  ASSUME OneBlock, IInv, TypeOK', NEW n \in Peers, OnlyAt(n), NEW d \in OwnReports,
         done[n] # <<>>, d = Head(done[n]), done'[n] = Tail(done[n]),
         rx[n] = <<>>, rx'[n] = rx[n], out'[n] = out[n],
         BlockOK(n)', Keeps(n) \/ \A p \in Peers : ~Requested(n, p),
         \A m \in Peers, t \in Timeslots : Backed(m, n, t) => Backed(m, n, t)',
         \A q \in Peers, t \in Timeslots : cell'[n][t] = Tx(q) => cell[n][t] = Tx(q)
  PROVE  IInv'
<1>1. TypeOK /\ NodeOK(n) /\ done[n] \in Seq(Reports)
  BY QueueTypes DEF IInv, NodeOK
<1>2. d \in Range(done[n]) /\ \A e \in Range(Tail(done[n])) : e \in Range(done[n])
  BY <1>1, TailRange
<1>3. No(Tail(done[n]), OwnReports) /\ Once(Tail(done[n]), OwnReports)
  BY <1>1, OnceTail DEF NodeOK, DoneOK
<1>4. OutOK(n)'
  <2>1. \A p \in Peers : No(out[n][p], OwnFrames)
    BY <1>2, NoOwnFrames DEF No
  <2> QED BY <2>1, OutKept
<1>5. DoneOK(n)'
  <2>1. SUFFICES ASSUME NEW e \in Range(Tail(done[n])) PROVE ReportOK(n, e)'
    BY <1>3 DEF DoneOK
  <2>2. e.kind = "ERROR" /\ ReportOK(n, e)
    BY <1>1, <1>2, <1>3, InQueues DEF No, OwnReports, NodeOK, DoneOK
  <2> QED BY <2>2 DEF ReportOK
<1>6. No(rx'[n], Replies)
  <2>1. DOMAIN <<>> = {}
    OBVIOUS
  <2>2. Range(rx'[n]) = {}
    BY <2>1 DEF Range
  <2> QED BY <2>2 DEF No
<1>7. RxOK(n)'
  BY <1>6, RxKept
<1>8. Keeps(n) \/ ~Awaited(n)
  BY Unasked
<1>9. \A q \in Peers, t \in Timeslots : cell'[n][t] = Tx(q) => Backed(n, q, t)
  BY <1>1 DEF NodeOK, CellsOK
<1> QED BY <1>4, <1>5, <1>6, <1>7, <1>8, <1>9, LocalStep

LEMMA TxDoneStep ==
  ASSUME OneBlock, IInv, TypeOK', NEW n \in Peers, TxDone(n)
  PROVE  IInv'
<1>1. TypeOK /\ NodeOK(n) /\ BlockOK(n)
  BY DEF IInv, NodeOK
<1>2. done[n] \in Seq(Reports) /\ done[n] # <<>> /\ rx[n] = <<>>
  BY <1>1, QueueTypes DEF TxDone
<1>3. PICK d \in Reports : d = Head(done[n])
  BY <1>2, HeadTaken
<1>4. /\ d \in Range(done[n]) /\ \A e \in Range(Tail(done[n])) : e \in Range(done[n])
      /\ \A e \in Range(done[n]) : e = d \/ e \in Range(Tail(done[n]))
  BY <1>2, <1>3, TailRange
<1>5. ReportOK(n, d)
  BY <1>1, <1>4 DEF NodeOK, DoneOK
<1>6. UNCHANGED <<res, out, rx>> /\ done' = [done EXCEPT ![n] = Tail(@)]
  BY DEF TxDone
<1>7. done'[n] = Tail(done[n]) /\ \A m \in Peers : m # n => done'[m] = done[m]
  BY <1>1, <1>6, QueueTypes
<1>8. CASE d.kind = "ERROR"
  <2>1. UNCHANGED <<blk, nbr, cell>>
    BY <1>3, <1>5, <1>8 DEF TxDone, ReportOK
  <2>2. OnlyAt(n) /\ T(n)' = T(n)
    BY <1>6, <1>7, <2>1 DEF OnlyAt, Same, T
  <2>3. d \notin OwnReports
    BY <1>8 DEF OwnReports
  <2>4. Keeps(n)
    <3>1. \A p \in Peers : Requested(n, p) => Requested(n, p)'
      BY <1>4, <1>7, <2>2, <2>3 DEF Requested
    <3> QED BY <2>1, <2>2, <3>1 DEF Keeps, FreeSlots
  <2>5. Alike(n)
    <3>1. No(done[n], OwnReports) => No(done'[n], OwnReports)
      BY <1>4, <1>7 DEF No
    <3> QED BY <1>6, <2>1, <2>2, <3>1 DEF Alike, Answering, Matches, FreeSlots
  <2>6. BlockOK(n)'
    BY <1>1, <2>1, <2>2 DEF BlockOK
  <2>7. OutOK(n)'
    BY <1>6, <2>2, <2>5, OutKept
  <2>8. DoneOK(n)'
    <3>1. Once(done'[n], OwnReports)
      BY <1>1, <1>2, <1>7, OnceTail DEF NodeOK, DoneOK
    <3>2. \A e \in Range(done'[n]) : ReportOK(n, e)'
      BY <1>1, <1>4, <1>6, <1>7, <2>2, <2>5 DEF NodeOK, DoneOK, ReportOK, Alike
    <3> QED BY <3>1, <3>2 DEF DoneOK
  <2>9. RxOK(n)'
    BY <1>6, <2>2, <2>4, RxKept
  <2>10. \A m \in Peers, t \in Timeslots : Backed(m, n, t) => Backed(m, n, t)'
    <3>1. \A m \in Peers : Acked(m) \in Range(done[n]) => Acked(m) \in Range(done'[n])
      BY <1>4, <1>7, <1>8 DEF Acked
    <3>2. \A m \in Peers : Acked(m)' = Acked(m)
      BY DEF Acked
    <3> QED BY <1>6, <2>1, <2>2, <3>1, <3>2 DEF Backed
  <2>11. \A q \in Peers, t \in Timeslots : cell'[n][t] = Tx(q) => Backed(n, q, t)
    BY <1>1, <2>1 DEF NodeOK, CellsOK
  <2> QED BY <1>6, <2>2, <2>4, <2>6, <2>7, <2>8, <2>9, <2>10, <2>11, LocalStep
<1>9. CASE d.kind # "ERROR"
  <2>1. PICK t \in Trans, ok \in BOOLEAN : t = T(n) /\ ok = d.ok
    BY <1>1, TheBlock DEF TypeOK, T, Reports
  <2>2. d.block = Block /\ d \in OwnReports
    BY <1>5, <1>9 DEF ReportOK, OwnReports
  <2>3. PICK u \in Trans : u = Reported(t, ok) /\ u.peer = t.peer /\ u.seqno = t.seqno /\ u.cmd = t.cmd
    BY ReportedFields
  <2>4. /\ blk' = [blk EXCEPT ![n][Block] = u]
        /\ nbr' = [nbr EXCEPT ![n] = [p \in Peers |->
                     IF p = t.peer THEN SeqnoReported(t, ok, nbr[n][p]) ELSE nbr[n][p]]]
        /\ IF CallsBack(t, ok) /\ nbr[n][t.peer] # NoNbr
           THEN Install(n, Rx(t.peer), res[n])
           ELSE UNCHANGED cell
    BY <1>3, <2>1, <2>2, <2>3, TheBlock DEF TxDone, T
  <2>5. T(n)' = u /\ \A m \in Peers : m # n => blk'[m] = blk[m]
    BY <1>1, <2>4, BlockSet
  <2>6. /\ \A m \in Peers : m # n => nbr'[m] = nbr[m]
        /\ \A p \in Peers : nbr[n][p] # NoNbr => nbr'[n][p] # NoNbr
    <3>1. PICK moved : moved = [p \in Peers |->
                     IF p = t.peer THEN SeqnoReported(t, ok, nbr[n][p]) ELSE nbr[n][p]]
      OBVIOUS
    <3>2. nbr' = [nbr EXCEPT ![n] = moved]
      BY <2>4, <3>1
    <3>3. nbr'[n] = moved /\ \A m \in Peers : m # n => nbr'[m] = nbr[m]
      BY <1>1, <3>2 DEF TypeOK
    <3>4. \A p \in Peers : nbr[n][p] \in MaybeSeqNos
      BY <1>1 DEF TypeOK, MaybeSeqNos
    <3>5. \A p \in Peers : nbr[n][p] # NoNbr => moved[p] # NoNbr
      BY <3>1, <3>4, SeqnoReportedType
    <3> QED BY <3>3, <3>5
  <2>7. /\ \A m \in Peers : m # n => cell'[m] = cell[m]
        /\ \A s \in Timeslots :
             \/ cell'[n][s] = cell[n][s]
             \/ CallsBack(t, ok) /\ s \in res[n] /\ cell'[n][s] = Rx(t.peer)
    BY <1>1, <2>4 DEF Install, TypeOK
  <2>8. OnlyAt(n)
    BY <1>6, <1>7, <2>5, <2>6, <2>7 DEF OnlyAt, Same
  <2>9. \A q \in Peers, s \in Timeslots : cell'[n][s] = Tx(q) => cell[n][s] = Tx(q)
    BY <2>7, LinksDiffer
  <2>10. \A e \in Range(done[n]) : e \in OwnReports => e = d
    BY <1>1, <1>2, <1>3, <1>4, <2>2, OnceTail DEF NodeOK, DoneOK, No
  <2>11. t.peer = d.to /\ t.peer \in Peers /\ t.peer # n
    <3>1. d.kind \in {"REQUEST", "RESPONSE"} /\ d.to \in Peers
      BY <1>9 DEF Reports
    <3> QED BY <1>1, <1>5, <2>1, <3>1 DEF ReportOK, Answering, BlockOK
  <2>12. CASE d.kind = "REQUEST"
    <3>1. t.state \in {"INIT", "TERMINATING"}
      BY <1>5, <2>1, <2>12 DEF ReportOK
    <3>2. \A s \in Timeslots : cell'[n][s] = cell[n][s]
      BY <2>7, <3>1 DEF CallsBack
    <3>3. FreeSlots(n)' = FreeSlots(n)
      BY <3>2 DEF FreeSlots
    <3>4. \A m \in Peers, s \in Timeslots : Backed(m, n, s) => Backed(m, n, s)'
      BY <2>1, <3>1, <3>2 DEF Backed
    <3>5. CASE ok /\ t.state = "INIT"
      <4>1. u.state = "REQUEST_SENT"
        BY <2>3, <3>5, ReportedFields
      <4>2. BlockOK(n)'
        <5>1. nbr[n][t.peer] # NoNbr
          BY <1>1, <2>1, <2>11, <3>5, SixpTransAssumption DEF BlockOK
        <5>2. nbr'[n][u.peer] # NoNbr /\ u.peer # n /\ u.peer # NoPeer
          BY <2>3, <2>6, <2>11, <5>1, SixpTransAssumption
        <5> QED BY <2>5, <5>2 DEF BlockOK
      <4>3. Keeps(n)
        BY <2>1, <2>3, <2>5, <3>3, <4>1 DEF Keeps, Requested
      <4> QED BY <1>2, <1>3, <1>6, <1>7, <2>2, <2>8, <2>9, <3>4, <4>2, <4>3, OwnReport
    <3>6. CASE ~(ok /\ t.state = "INIT")
      <4>1. u.state = "TERMINATING"
        <5>1. CASE ok
          BY <2>3, <3>1, <3>6, <5>1, ReportedFields
        <5>2. CASE ~ok
          <6>1. u.state = IF t.state = "INIT" THEN "TERMINATING" ELSE t.state
            BY <2>3, <5>2, ReportedFields
          <6> QED BY <3>1, <6>1
        <5> QED BY <5>1, <5>2
      <4>2. BlockOK(n)'
        BY <2>3, <2>5, <2>11, <4>1, SixpTransAssumption DEF BlockOK
      <4>3. \A p \in Peers : ~Requested(n, p)
        BY <2>1, <2>10, <3>1, <3>6 DEF Requested
      <4> QED BY <1>2, <1>3, <1>6, <1>7, <2>2, <2>8, <2>9, <3>4, <4>2, <4>3, OwnReport
    <3> QED BY <3>5, <3>6
  <2>13. CASE d.kind = "RESPONSE"
    <3>1. Answering(n, d.to, res[n])
      BY <1>5, <2>13 DEF ReportOK
    <3>2. /\ t.state = "REQUEST_RECEIVED" /\ t.cb /\ t.cmd = "ADD"
          /\ nbr[n][t.peer] # NoNbr /\ res[n] \subseteq FreeSlots(n)
      BY <2>1, <2>11, <3>1 DEF Answering
    <3>3. \A p \in Peers : ~Requested(n, p)
      BY <2>1, <3>2 DEF Requested
    <3>4. u.state \notin {"INIT", "REQUEST_SENT"}
      <4>1. CASE ok
        BY <2>3, <3>2, <4>1, ReportedFields
      <4>2. CASE ~ok
        <5>1. u.state = IF t.state = "INIT" THEN "TERMINATING" ELSE t.state
          BY <2>3, <4>2, ReportedFields
        <5> QED BY <3>2, <5>1
      <4> QED BY <4>1, <4>2
    <3>5. BlockOK(n)'
      BY <2>3, <2>5, <2>11, <3>4, SixpTransAssumption DEF BlockOK
    <3>6. \A m \in Peers, s \in Timeslots : Backed(m, n, s) => Backed(m, n, s)'
      <4>1. SUFFICES ASSUME NEW m \in Peers, NEW s \in Timeslots, Backed(m, n, s)
                     PROVE  cell'[n][s] = Rx(m)
        BY DEF Backed
      <4>2. CASE cell[n][s] = Rx(m)
        <5>1. s \notin res[n]
          BY <3>2, <4>2, LinksDiffer DEF FreeSlots
        <5> QED BY <2>7, <4>2, <5>1
      <4>3. CASE cell[n][s] # Rx(m)
        <5>1. t.peer = m /\ Acked(m) \in Range(done[n]) /\ s \in res[n]
          BY <2>1, <4>1, <4>3 DEF Backed
        <5>2. PICK e \in Range(done[n]) : e = Acked(m)
          BY <5>1
        <5>3. e.kind = "RESPONSE" /\ e.ok /\ e \in Reports
          BY <1>1, <5>2, InQueues DEF Acked
        <5>4. ok
          BY <2>1, <2>10, <5>3 DEF OwnReports
        <5>5. Install(n, Rx(m), res[n])
          BY <2>4, <3>2, <5>1, <5>4 DEF CallsBack
        <5> QED BY <1>1, <5>1, <5>5 DEF Install, TypeOK
      <4> QED BY <4>2, <4>3
    <3> QED BY <1>2, <1>3, <1>6, <1>7, <2>2, <2>8, <2>9, <3>3, <3>5, <3>6, OwnReport
  <2> QED BY <1>9, <2>12, <2>13 DEF Reports
<1> QED BY <1>8, <1>9

(* A frame settled: what is known of the nodes is kept.                    *)
LEMMA StillKnown ==
  ASSUME UNCHANGED <<blk, nbr, cell, res>>,
         \A m \in Peers : \A e \in Range(done[m]) : e \in Range(done'[m])
  PROVE  /\ \A m : T(m)' = T(m) /\ FreeSlots(m)' = FreeSlots(m)
         /\ \A m : BlockOK(m) => BlockOK(m)'
         /\ \A m, q : m \in Peers /\ Requested(m, q) => Requested(m, q)'
         /\ \A m, q, c : Answering(m, q, c) => Answering(m, q, c)'
         /\ \A m, pkt : Matches(m, pkt) => Matches(m, pkt)'
         /\ \A m, q, t : q \in Peers /\ Backed(m, q, t) => Backed(m, q, t)'
         /\ \A m, e : ReportOK(m, e) => ReportOK(m, e)'
<1>1. \A m : T(m)' = T(m) /\ FreeSlots(m)' = FreeSlots(m)
  BY DEF T, FreeSlots
<1>2. \A m : BlockOK(m) => BlockOK(m)'
  BY <1>1 DEF BlockOK
<1>3. \A m, q : m \in Peers /\ Requested(m, q) => Requested(m, q)'
  BY <1>1 DEF Requested
<1>4. \A m, q, c : Answering(m, q, c) => Answering(m, q, c)'
  BY <1>1 DEF Answering
<1>5. \A m, pkt : Matches(m, pkt) => Matches(m, pkt)'
  BY <1>1 DEF Matches
<1>6. \A m, q, t : q \in Peers /\ Backed(m, q, t) => Backed(m, q, t)'
  BY <1>1 DEF Backed, Acked
<1>7. \A m, e : ReportOK(m, e) => ReportOK(m, e)'
  BY <1>1, <1>4 DEF ReportOK
<1> QED BY <1>1, <1>2, <1>3, <1>4, <1>5, <1>6, <1>7

LEMMA TransmitStep ==
  ASSUME OneBlock, ~AckLoss, IInv, TypeOK', NEW n \in Peers, NEW p \in Peers,
         NEW got \in BOOLEAN, NEW told \in BOOLEAN, Transmit(n, p, got, told)
  PROVE  IInv'
<1>1. TypeOK /\ NodeOK(n) /\ NodeOK(p)
  BY DEF IInv
<1>2. out[n][p] \in Seq(Queued) /\ out[n][p] # <<>>
  BY <1>1, QueueTypes DEF Transmit
<1>3. rx[p] \in Seq(Received) /\ done[n] \in Seq(Reports)
  BY <1>1, QueueTypes
<1>4. PICK f \in Queued : f = Head(out[n][p]) /\ f \in Range(out[n][p])
  BY <1>2, HeadTaken, TailRange
<1>5. PICK d \in Reports : d = [to |-> p, kind |-> f.pkt.kind, block |-> f.block, ok |-> told]
  BY <1>4 DEF Reports, Queued, Contents
<1>6. PICK r \in Received : r = [src |-> n, pkt |-> f.pkt]
  BY <1>4 DEF Queued, Received
<1>7. told = got
  BY DEF Transmit
<1>8. UNCHANGED <<blk, nbr, cell, res>>
  BY DEF Transmit
<1>9. /\ \A q \in Peers : out'[n][q] = IF q = p THEN Tail(out[n][q]) ELSE out[n][q]
      /\ \A m \in Peers : m # n => out'[m] = out[m]
  BY <1>1, QueueTypes DEF Transmit
<1>10. done'[n] = Append(done[n], d) /\ \A m \in Peers : m # n => done'[m] = done[m]
  BY <1>1, <1>4, <1>5, QueueTypes DEF Transmit
<1>11. /\ got => rx'[p] = Append(rx[p], r)
       /\ \A m \in Peers : m # p \/ ~got => rx'[m] = rx[m]
  BY <1>1, <1>4, <1>6, QueueTypes DEF Transmit
<1>12. FrameOK(n, p, f)
  BY <1>1, <1>4 DEF NodeOK, OutOK
<1>13. /\ f.pkt.kind # "REQUEST" => Requested(p, n) /\ No(rx[p], Replies)
       /\ f.pkt.kind # "ERROR" => T(n).peer = p /\ No(done[n], OwnReports)
       /\ n # p
  <2>1. f.pkt.kind \in {"REQUEST", "RESPONSE", "ERROR"}
    BY <1>4 DEF Queued, Contents
  <2>2. f.pkt.kind # "ERROR" => T(n).peer = p
    BY <1>12, <2>1 DEF FrameOK, Answering
  <2>3. Requested(p, n) => p # n
    BY Unheard
  <2>4. T(n).peer # n
    BY <1>1 DEF NodeOK, BlockOK
  <2> QED BY <1>12, <2>2, <2>3, <2>4 DEF FrameOK
<1>14. \A m \in Peers : \A e \in Range(done[m]) : e \in Range(done'[m])
  BY <1>3, <1>10, AppendRange
<1>15. \A m, q \in Peers : \A g \in Range(out'[m][q]) : g \in Range(out[m][q])
  BY <1>2, <1>9, TailRange
<1>16. d \in Range(done'[n]) /\ \A e \in Range(done'[n]) : e \in Range(done[n]) \/ e = d
  BY <1>3, <1>10, AppendRange
<1>17. \A m \in Peers : \A e \in Range(rx'[m]) :
         e \in Range(rx[m]) \/ (got /\ m = p /\ e = r)
  BY <1>3, <1>11, AppendRange
<1>18. f.pkt.kind = "REQUEST" => \A q \in Peers : ~Requested(n, q)
  BY <1>12, <1>13 DEF FrameOK, Requested, No
<1>19. \A m \in Peers : BlockOK(m)'
  BY <1>8, <1>14, StillKnown DEF IInv, NodeOK
<1>20. \A m \in Peers : CellsOK(m)'
  BY <1>8, <1>14, StillKnown DEF IInv, NodeOK, CellsOK
<1>21. \A m \in Peers : DoneOK(m)'
  <2>1. ReportOK(n, d)
    BY <1>5, <1>12 DEF FrameOK, ReportOK, Answering
  <2>2. d \in OwnReports => No(done[n], OwnReports)
    BY <1>5, <1>13 DEF OwnReports
  <2>3. Once(done'[n], OwnReports)
    BY <1>1, <1>3, <1>10, <2>2, OnceAppend DEF NodeOK, DoneOK
  <2>4. \A e \in Range(done'[n]) : ReportOK(n, e)'
    BY <1>1, <1>8, <1>14, <1>16, <2>1, StillKnown DEF NodeOK, DoneOK
  <2>5. \A m \in Peers : m # n => DoneOK(m)'
    BY <1>8, <1>10, <1>14, StillKnown DEF IInv, NodeOK, DoneOK
  <2> QED BY <2>3, <2>4, <2>5 DEF DoneOK
<1>22. \A m \in Peers : OutOK(m)'
  <2>1. ASSUME NEW m \in Peers, NEW q \in Peers
        PROVE  Once(out'[m][q], OwnFrames) /\ Once(out'[m][q], Answers)
    <3>1. Once(out[m][q], OwnFrames) /\ Once(out[m][q], Answers)
      BY DEF IInv, NodeOK, OutOK
    <3> QED BY <1>2, <1>9, <3>1, OnceTail
  <2>2. ASSUME NEW m \in Peers, NEW q \in Peers, NEW g \in Range(out'[m][q])
        PROVE  FrameOK(m, q, g)'
    <3>1. FrameOK(m, q, g) /\ g \in Queued
      BY <1>1, <1>15, InQueues DEF IInv, NodeOK, OutOK
    <3>2. ASSUME g.pkt.kind # "ERROR" PROVE No(done'[m], OwnReports)
      <4>1. No(done[m], OwnReports)
        BY <3>1, <3>2 DEF FrameOK
      <4>2. ASSUME m = n, d \in OwnReports PROVE FALSE
        <5>1. f \in OwnFrames /\ g \in OwnFrames
          BY <1>4, <1>5, <3>1, <3>2, <4>2 DEF OwnFrames, OwnReports
        <5>2. T(n).peer = p /\ T(n).peer = q
          <6>1. g.pkt.kind = "REQUEST" \/ g.pkt.kind = "RESPONSE"
            BY <3>1, <3>2 DEF Queued, Contents
          <6> QED BY <1>13, <3>1, <4>2, <5>1, <6>1 DEF OwnFrames, FrameOK, Answering
        <5>3. No(Tail(out[n][p]), OwnFrames)
          BY <1>1, <1>2, <1>4, <5>1, OnceTail DEF NodeOK, OutOK
        <5> QED BY <1>9, <4>2, <5>1, <5>2, <5>3 DEF No
      <4> QED BY <1>10, <1>16, <4>1, <4>2 DEF No
    <3>3. ASSUME g.pkt.kind = "REQUEST" PROVE T(m)'.peer = q /\ T(m)'.state = "INIT" /\ Matches(m, g.pkt)'
      BY <1>8, <1>14, <3>1, <3>3, StillKnown DEF FrameOK
    <3>4. ASSUME g.pkt.kind = "RESPONSE"
          PROVE  Answering(m, q, g.pkt.cells)' /\ Matches(m, g.pkt)' /\ Matches(q, g.pkt)'
      BY <1>8, <1>14, <3>1, <3>4, StillKnown DEF FrameOK
    <3>5. ASSUME g.pkt.kind # "REQUEST" PROVE Requested(q, m)' /\ No(rx'[q], Replies)
      <4>1. Requested(q, m) /\ No(rx[q], Replies)
        BY <3>1, <3>5 DEF FrameOK
      <4>2. ASSUME got, q = p, r \in Replies PROVE FALSE
        <5>1. f \in Answers /\ g \in Answers
          BY <1>4, <1>6, <3>1, <3>5, <4>2 DEF Answers, Replies
        <5>2. m = n
          BY <1>13, <4>1, <4>2, <5>1 DEF Requested, Answers
        <5>3. No(Tail(out[n][p]), Answers)
          BY <1>1, <1>2, <1>4, <5>1, OnceTail DEF NodeOK, OutOK
        <5> QED BY <1>9, <4>2, <5>1, <5>2, <5>3 DEF No
      <4>3. No(rx'[q], Replies)
        BY <1>17, <4>1, <4>2 DEF No
      <4> QED BY <1>8, <1>14, <4>1, <4>3, StillKnown
    <3> QED BY <3>1, <3>2, <3>3, <3>4, <3>5 DEF FrameOK
  <2> QED BY <2>1, <2>2 DEF OutOK
<1>23. ASSUME NEW m \in Peers, NEW e \in Range(rx[m]) PROVE InputOK(m, e)'
  <2>1. InputOK(m, e) /\ e \in Received /\ e.src \in Peers /\ e.pkt.cells \subseteq Timeslots
    BY <1>1, InQueues DEF IInv, NodeOK, RxOK, Received, Contents
  <2>2. ASSUME e.pkt.kind = "REQUEST"
        PROVE  /\ Requested(e.src, m)' /\ Matches(e.src, e.pkt)'
               /\ No(out'[m][e.src], Answers) /\ No(rx'[e.src], Replies)
    <3>1. /\ Requested(e.src, m) /\ Matches(e.src, e.pkt)
          /\ No(out[m][e.src], Answers) /\ No(rx[e.src], Replies)
      BY <2>1, <2>2 DEF InputOK
    <3>2. No(out'[m][e.src], Answers)
      BY <1>15, <2>1, <3>1 DEF No
    <3>3. ASSUME got, e.src = p, r \in Replies PROVE FALSE
      <4>1. f \in Answers
        BY <1>4, <1>6, <3>3 DEF Answers, Replies
      <4>2. m = n
        BY <1>13, <3>1, <3>3, <4>1 DEF Requested, Answers
      <4> QED BY <1>4, <3>1, <3>3, <4>1, <4>2 DEF No
    <3>4. No(rx'[e.src], Replies)
      BY <1>17, <2>1, <3>1, <3>3 DEF No
    <3> QED BY <1>8, <1>14, <2>1, <3>1, <3>2, <3>4, StillKnown
  <2>3. ASSUME e.pkt.kind # "REQUEST" PROVE Requested(m, e.src)'
    BY <1>8, <1>14, <2>1, <2>3, StillKnown DEF InputOK
  <2>4. ASSUME e.pkt.kind = "RESPONSE"
        PROVE  Matches(m, e.pkt)' /\ \A t \in e.pkt.cells : Backed(m, e.src, t)'
    BY <1>8, <1>14, <2>1, <2>4, StillKnown DEF InputOK
  <2> QED BY <2>2, <2>3, <2>4 DEF InputOK
<1>24. ASSUME got PROVE InputOK(p, r)'
  <2>1. ASSUME f.pkt.kind = "REQUEST"
        PROVE  /\ Requested(n, p)' /\ Matches(n, f.pkt)'
               /\ No(out'[p][n], Answers) /\ No(rx'[n], Replies)
    <3>1. Requested(n, p)'
      <4>1. d \in OwnReports /\ d.ok
        BY <1>5, <1>7, <1>24, <2>1 DEF OwnReports
      <4>2. T(n)'.peer = p /\ T(n)'.state = "INIT"
        BY <1>8, <1>12, <1>14, <2>1, StillKnown DEF FrameOK
      <4> QED BY <1>16, <4>1, <4>2 DEF Requested
    <3>2. Matches(n, f.pkt)'
      BY <1>8, <1>12, <1>14, <2>1, StillKnown DEF FrameOK
    <3>3. ~AwaitedBy(n, p) /\ No(rx[n], Replies)
      BY <1>18, <2>1, Unasked DEF Awaited
    <3>4. out'[p] = out[p] /\ rx'[n] = rx[n]
      BY <1>9, <1>11, <1>13
    <3> QED BY <3>1, <3>2, <3>3, <3>4 DEF AwaitedBy
  <2>2. ASSUME f.pkt.kind # "REQUEST" PROVE Requested(p, n)'
    BY <1>8, <1>13, <1>14, <2>2, StillKnown
  <2>3. ASSUME f.pkt.kind = "RESPONSE"
        PROVE  Matches(p, f.pkt)' /\ \A t \in f.pkt.cells : Backed(p, n, t)'
    <3>1. Answering(n, p, f.pkt.cells) /\ Matches(p, f.pkt) /\ f.block = Block
      BY <1>12, <2>3 DEF FrameOK
    <3>2. d = Acked(p)
      BY <1>5, <1>7, <1>24, <2>3, <3>1 DEF Acked
    <3>3. Acked(p)' = Acked(p)
      BY DEF Acked
    <3>4. Answering(n, p, f.pkt.cells)' /\ Matches(p, f.pkt)'
      BY <1>8, <1>14, <3>1, StillKnown
    <3> QED BY <1>16, <3>2, <3>3, <3>4 DEF Backed, Answering
  <2> QED BY <1>6, <2>1, <2>2, <2>3 DEF InputOK
<1>25. \A m \in Peers : RxOK(m)'
  <2>1. \A m \in Peers : \A e \in Range(rx'[m]) : InputOK(m, e)'
    BY <1>17, <1>23, <1>24
  <2>2. \A m \in Peers : m # p \/ ~got =>
          Once(rx'[m], Replies) /\ \A q \in Peers : Once(rx'[m], RequestsOf(q))
    BY <1>11 DEF IInv, NodeOK, RxOK
  <2>3. ASSUME got PROVE Once(rx'[p], Replies)
    <3>1. r \in Replies => No(rx[p], Replies)
      BY <1>6, <1>13 DEF Replies
    <3> QED BY <1>1, <1>3, <1>11, <2>3, <3>1, OnceAppend DEF NodeOK, RxOK
  <2>4. ASSUME got, NEW q \in Peers PROVE Once(rx'[p], RequestsOf(q))
    <3>1. ASSUME r \in RequestsOf(q) PROVE No(rx[p], RequestsOf(q))
      <4>1. q = n /\ f.pkt.kind = "REQUEST"
        BY <1>6, <3>1 DEF RequestsOf
      <4>2. ~AwaitedBy(n, p)
        BY <1>18, <4>1, Unasked DEF Awaited
      <4> QED BY <4>1, <4>2 DEF AwaitedBy
    <3>2. Once(rx[p], RequestsOf(q))
      BY <1>1 DEF NodeOK, RxOK
    <3> QED BY <1>3, <1>11, <2>4, <3>1, <3>2, OnceAppend
  <2> QED BY <2>1, <2>2, <2>3, <2>4 DEF RxOK
<1> QED BY <1>19, <1>20, <1>21, <1>22, <1>25 DEF IInv, NodeOK

(* The cells a response brings: free ones the sender of the response backs.*)
LEMMA ResponseCells ==
  ASSUME OneBlock, IInv, NEW n \in Peers, ReceiveResponse(n), cell' # cell
  PROVE  \E p \in Peers, cells \in SUBSET Timeslots :
           /\ Requested(n, p) /\ cells \subseteq FreeSlots(n)
           /\ \A t \in cells : Backed(n, p, t)
           /\ Install(n, Tx(p), cells)
<1>1. TypeOK /\ NodeOK(n)
  BY DEF IInv
<1>2. rx[n] \in Seq(Received) /\ rx[n] # <<>>
  BY <1>1, QueueTypes DEF ReceiveResponse
<1>3. PICK r \in Received : r = Head(rx[n]) /\ r \in Range(rx[n])
  BY <1>2, HeadTaken, TailRange
<1>4. PICK p \in Peers, pkt \in Contents : p = r.src /\ pkt = r.pkt
  BY <1>3 DEF Received
<1>5. pkt.kind = "RESPONSE" /\ Install(n, Tx(p), pkt.cells)
  BY <1>3, <1>4 DEF ReceiveResponse
<1>6. Requested(n, p) /\ Matches(n, pkt) /\ \A t \in pkt.cells : Backed(n, p, t)
  BY <1>1, <1>3, <1>4, <1>5 DEF NodeOK, RxOK, InputOK
<1>7. pkt.cells \in SUBSET Timeslots
  BY DEF Contents
<1> QED BY <1>5, <1>6, <1>7 DEF Matches

(* The cells an acknowledged answer brings: those it offered.              *)
LEMMA ReportCells ==
  ASSUME OneBlock, IInv, NEW n \in Peers, TxDone(n), cell' # cell
  PROVE  \E p \in Peers : Answering(n, p, res[n]) /\ Install(n, Rx(p), res[n])
<1>1. TypeOK /\ NodeOK(n)
  BY DEF IInv
<1>2. done[n] \in Seq(Reports) /\ done[n] # <<>>
  BY <1>1, QueueTypes DEF TxDone
<1>3. PICK d \in Reports : d = Head(done[n]) /\ d \in Range(done[n])
  BY <1>2, HeadTaken, TailRange
<1>4. ReportOK(n, d)
  BY <1>1, <1>3 DEF NodeOK, DoneOK
<1>5. d.block # NoBlock
  BY <1>3 DEF TxDone
<1>6. d.kind \in {"REQUEST", "RESPONSE"} /\ d.block = Block /\ d.to \in Peers
  BY <1>4, <1>5 DEF ReportOK, Reports
<1>7. CallsBack(T(n), d.ok) /\ Install(n, Rx(T(n).peer), res[n])
  BY <1>3, <1>5, <1>6 DEF TxDone, T
<1>8. d.kind # "REQUEST"
  BY <1>4, <1>7 DEF ReportOK, CallsBack
<1>9. Answering(n, d.to, res[n])
  BY <1>4, <1>6, <1>8 DEF ReportOK
<1> QED BY <1>6, <1>7, <1>9 DEF Answering

(* Every other step leaves the cells alone.                                *)
LEMMA OtherCells ==
  ASSUME [Next]_vars, cell' # cell
  PROVE  \E n \in Peers : ReceiveResponse(n) \/ TxDone(n)
<1>1. Next
  BY DEF vars
<1>2. \A n, p : LinksAdded(n, p) \/ BlSend(n, p) => cell' = cell
  BY DEF LinksAdded, Draw, BlSend
<1>3. \A n : ReceiveRequest(n) => cell' = cell
  BY DEF ReceiveRequest
<1>4. \A n, p, got, told : Transmit(n, p, got, told) => cell' = cell
  BY DEF Transmit
<1>5. \A n, b : Timeout(n, b) \/ ProcessTrans(n, b) => cell' = cell
  BY DEF Timeout, ProcessTrans
<1> QED BY <1>1, <1>2, <1>3, <1>4, <1>5 DEF Next

(* No cell takes the place of another.                                     *)
LEMMA CellsStay ==
  ASSUME OneBlock, IInv, [Next]_vars, NEW n \in Peers, NEW t \in Timeslots, cell[n][t] # Free
  PROVE  cell'[n][t] = cell[n][t]
<1> SUFFICES ASSUME cell' # cell PROVE cell'[n][t] = cell[n][t]
  OBVIOUS
<1>1. TypeOK
  BY DEF IInv
<1>2. PICK m \in Peers : ReceiveResponse(m) \/ TxDone(m)
  BY OtherCells
<1>3. PICK link, cells : Install(m, link, cells) /\ cells \subseteq FreeSlots(m)
  <2>1. CASE ReceiveResponse(m)
    BY <2>1, ResponseCells
  <2>2. CASE TxDone(m)
    BY <2>2, ReportCells DEF Answering
  <2> QED BY <1>2, <2>1, <2>2
<1>4. n = m => t \notin cells
  BY <1>3 DEF FreeSlots
<1> QED BY <1>1, <1>3, <1>4 DEF Install, TypeOK

-----------------------------------------------------------------------------
(* One transaction per node, each frame that arrives is acknowledged, and  *)
(* none outlives the timeout of its transaction.                           *)
Undisturbed == OneBlock /\ ~AckLoss /\ ~Late

LEMMA InitOK ==
  ASSUME OneBlock, Init
  PROVE  IInv
<1>1. TypeOK
  BY InitType
<1>2. ASSUME NEW n \in Peers PROVE NodeOK(n)
  <2>1. DOMAIN <<>> = {} /\ Range(<<>>) = {}
    BY DEF Range
  <2>2. rx[n] = <<>> /\ done[n] = <<>> /\ \A p \in Peers : out[n][p] = <<>>
    BY DEF Init
  <2>3. T(n) = FreeTrans(FALSE)
    BY TheBlock DEF Init, T
  <2>4. BlockOK(n)
    <3>1. T(n).peer = NoPeer /\ T(n).timer = "off" /\ T(n).state = "TERMINATING"
      BY <2>3 DEF FreeTrans
    <3> QED BY <3>1, SixpTransAssumption DEF BlockOK
  <2>5. OutOK(n)
    BY <2>1, <2>2 DEF OutOK, Once
  <2>6. DoneOK(n)
    BY <2>1, <2>2 DEF DoneOK, Once
  <2>7. RxOK(n)
    BY <2>1, <2>2 DEF RxOK, Once
  <2>8. CellsOK(n)
    BY LinksDiffer DEF Init, CellsOK
  <2> QED BY <2>4, <2>5, <2>6, <2>7, <2>8 DEF NodeOK
<1> QED BY <1>1, <1>2 DEF IInv

LEMMA StepOK ==
  ASSUME Undisturbed, IInv, TypeOK', [Next]_vars
  PROVE  IInv'
<1>1. OneBlock /\ ~AckLoss /\ ~Late
  BY DEF Undisturbed
<1>2. \A e \in Asks \cup Signals : e[1] \in Peers /\ e[2] \in Peers /\ e[1] # e[2]
  BY SfsbNetAssumption
<1>3. ASSUME NEW n \in Peers, NEW p \in Peers, n # p, LinksAdded(n, p) PROVE IInv'
  <2>1. PICK cells \in SUBSET Timeslots : Draw(n, p, cells)
    BY <1>3 DEF LinksAdded
  <2>2. /\ Output(n, p, "ADD", cells) /\ cells \subseteq FreeSlots(n) /\ Idle(n)
        /\ UNCHANGED <<cell, res, rx, done>> /\ "ADD" \in Cmds
    BY <2>1, SfsbNetAssumption DEF Draw
  <2> QED BY <1>1, <1>3, <2>2, OutputStep
<1>4. ASSUME NEW n \in Peers, NEW p \in Peers, n # p, BlSend(n, p) PROVE IInv'
  <2>1. /\ Output(n, p, "SIGNAL", {}) /\ {} \subseteq FreeSlots(n) /\ Idle(n)
        /\ UNCHANGED <<cell, res, rx, done>> /\ "SIGNAL" \in Cmds /\ {} \in SUBSET Timeslots
    BY <1>4, SfsbNetAssumption DEF BlSend
  <2> QED BY <1>1, <1>4, <2>1, OutputStep
<1>5. CASE \E e \in Asks : LinksAdded(e[1], e[2])
  BY <1>2, <1>3, <1>5
<1>6. CASE \E e \in Signals : BlSend(e[1], e[2])
  BY <1>2, <1>4, <1>6
<1>7. CASE \E n \in Peers : ReceiveRequest(n)
  BY <1>1, <1>7, RequestStep
<1>8. CASE \E n \in Peers : ReceiveResponse(n)
  BY <1>1, <1>8, ResponseStep
<1>9. CASE \E n \in Peers : TxDone(n)
  BY <1>1, <1>9, TxDoneStep
<1>10. CASE \E n, p \in Peers, got, told \in BOOLEAN : Transmit(n, p, got, told)
  BY <1>1, <1>10, TransmitStep
<1>11. CASE \E n \in Peers, b \in Blocks : Timeout(n, b)
  BY <1>1, <1>11, TimeoutStep
<1>12. CASE \E n \in Peers, b \in Blocks : ProcessTrans(n, b)
  BY <1>1, <1>12, ProcessStep
<1>13. CASE UNCHANGED vars
  <2>1. UNCHANGED <<blk, nbr, cell, res, out, rx, done>>
    BY <1>13 DEF vars
  <2>2. \A m \in Peers : T(m)' = T(m) /\ FreeSlots(m)' = FreeSlots(m)
    BY <2>1 DEF T, FreeSlots
  <2>3. \A m \in Peers : NodeOK(m)'
    <3>1. SUFFICES ASSUME NEW m \in Peers PROVE NodeOK(m)'
      OBVIOUS
    <3>2. NodeOK(m)
      BY DEF IInv
    <3>3. NodeOK(m)' = NodeOK(m)
      BY <2>1 DEF NodeOK, BlockOK, OutOK, DoneOK, RxOK, CellsOK, FrameOK, ReportOK, InputOK,
                  Requested, Answering, Matches, Backed, Acked, T, FreeSlots
    <3> QED BY <3>2, <3>3
  <2> QED BY <2>3 DEF IInv
<1> QED BY <1>5, <1>6, <1>7, <1>8, <1>9, <1>10, <1>11, <1>12, <1>13 DEF Next

(* Under these conditions what two nodes take each other to be doing, and  *)
(* what is under way between them, fits in every reachable state.          *)
THEOREM Invariant ==
  ASSUME Undisturbed PROVE Spec => []IInv
<1>1. Init => IInv
  BY InitOK DEF Undisturbed
<1>2. IInv /\ TypeOK' /\ [Next]_vars => IInv'
  BY StepOK
<1> QED BY <1>1, <1>2, TypeCorrect, PTL DEF Spec

(* Where each node runs one transaction at a time, every frame that        *)
(* arrives is acknowledged and none outlives the timeout, whatever else is *)
(* lost, refused or late: a cell a node transmits in is one its peer       *)
(* listens in, or will once the acknowledged answer is reported to it.     *)
THEOREM SendersAreHeard ==
  ASSUME Undisturbed PROVE Spec => []TxHasRx
<1>1. IInv => TxHasRx
  <2> SUFFICES ASSUME IInv, NEW n \in Peers, NEW p \in Peers, NEW t \in Timeslots,
                      cell[n][t] = Tx(p), cell[p][t] # Rx(n)
               PROVE  \E b \in Blocks :
                        /\ blk[p][b].peer = n /\ blk[p][b].state = "REQUEST_RECEIVED" /\ blk[p][b].cb
                        /\ \E i \in DOMAIN done[p] : done[p][i] =
                             [to |-> n, kind |-> "RESPONSE", block |-> b, ok |-> TRUE]
                        /\ t \in res[p]
    BY DEF TxHasRx
  <2>1. Backed(n, p, t)
    BY DEF IInv, NodeOK, CellsOK
  <2>2. /\ T(p).peer = n /\ T(p).state = "REQUEST_RECEIVED" /\ T(p).cb
        /\ Acked(n) \in Range(done[p]) /\ t \in res[p]
    BY <2>1 DEF Backed
  <2>3. PICK i \in DOMAIN done[p] : done[p][i] = Acked(n)
    BY <2>2 DEF Range
  <2>4. Block \in Blocks
    BY TheBlock DEF Undisturbed
  <2> QED BY <2>2, <2>3, <2>4 DEF Acked, T
<1> QED BY <1>1, Invariant, PTL

(* Under the same conditions no cell that is installed takes the place of  *)
(* another: the timeslots were free when they were offered and still are.  *)
THEOREM NoneEvicted ==
  ASSUME Undisturbed PROVE Spec => NeverEvicts
<1>1. IInv /\ [Next]_vars =>
        \A n \in Peers, t \in Timeslots : cell[n][t] # Free => cell'[n][t] = cell[n][t]
  BY CellsStay DEF Undisturbed
<1>2. IInv /\ [Next]_vars =>
        [\A n \in Peers, t \in Timeslots : cell[n][t] # Free => cell'[n][t] = cell[n][t]]_vars
  BY <1>1
<1> QED BY <1>2, Invariant, PTL DEF Spec, NeverEvicts

-----------------------------------------------------------------------------
(* The negotiation implements CellPairs.                                   *)

(* A cell that is offered and backed takes part in no agreement yet.       *)
LEMMA NotEngaged ==
  ASSUME OneBlock, IInv, NEW n \in Peers, NEW p \in Peers, NEW t \in Timeslots,
         Requested(n, p), t \in FreeSlots(n), Backed(n, p, t)
  PROVE  ~Pairs!Engaged(n, t) /\ ~Pairs!Engaged(p, t)
<1>1. \A a, b \in Peers : <<a, b, t>> \in Agreed <=> cell[a][t] = Tx(b)
  BY DEF Agreed
<1>2. \A a, b \in Peers : <<a, b, t>> \in Agreed => Backed(a, b, t)
  BY <1>1 DEF IInv, NodeOK, CellsOK
<1>3. cell[n][t] = Free /\ T(n).state # "REQUEST_RECEIVED"
  BY DEF Requested, FreeSlots
<1>4. \A b \in Peers : <<n, b, t>> \notin Agreed
  BY <1>1, <1>3, LinksDiffer
<1>5. \A a \in Peers : <<a, n, t>> \notin Agreed
  BY <1>2, <1>3, LinksDiffer DEF Backed
<1>6. \/ cell[p][t] = Rx(n) /\ t \notin FreeSlots(p)
      \/ t \in FreeSlots(p) /\ T(p).peer = n
  <2>1. CASE cell[p][t] = Rx(n)
    BY <2>1, LinksDiffer DEF FreeSlots
  <2>2. CASE cell[p][t] # Rx(n)
    <3>1. Acked(n) \in Range(done[p]) /\ t \in res[p] /\ T(p).peer = n
      BY <2>2 DEF Backed
    <3>2. ReportOK(p, Acked(n))
      BY <3>1 DEF IInv, NodeOK, DoneOK
    <3> QED BY <3>1, <3>2 DEF ReportOK, Acked, Answering
  <2> QED BY <2>1, <2>2
<1>7. \A b \in Peers : <<p, b, t>> \notin Agreed
  BY <1>1, <1>6, LinksDiffer DEF FreeSlots
<1>8. ASSUME NEW a \in Peers, <<a, p, t>> \in Agreed PROVE FALSE
  <2>1. a # n
    BY <1>4, <1>8
  <2>2. Backed(a, p, t)
    BY <1>2, <1>8
  <2>3. CASE cell[p][t] = Rx(a)
    BY <1>6, <2>1, <2>3, LinksDiffer DEF FreeSlots
  <2>4. CASE cell[p][t] # Rx(a)
    <3>1. Acked(a) \in Range(done[p]) /\ t \in res[p] /\ T(p).peer = a
      BY <2>2, <2>4 DEF Backed
    <3>2. ReportOK(p, Acked(a))
      BY <3>1 DEF IInv, NodeOK, DoneOK
    <3>3. t \in FreeSlots(p)
      BY <3>1, <3>2 DEF ReportOK, Acked, Answering
    <3> QED BY <1>6, <2>1, <3>1, <3>3
  <2> QED BY <2>3, <2>4
<1> QED BY <1>4, <1>5, <1>7, <1>8 DEF Pairs!Engaged

LEMMA PairsStep ==
  ASSUME OneBlock, IInv, [Next]_vars
  PROVE  [Pairs!Next]_Agreed
<1>1. TypeOK
  BY DEF IInv
<1>2. CASE cell' = cell
  BY <1>2 DEF Agreed
<1>3. CASE cell' # cell
  <2>1. PICK n \in Peers : ReceiveResponse(n) \/ TxDone(n)
    BY <1>3, OtherCells
  <2>2. ASSUME NEW link, NEW cells, Install(n, link, cells)
        PROVE  \A m \in Peers, t \in Timeslots :
                 cell'[m][t] = IF m = n /\ t \in cells THEN link ELSE cell[m][t]
    BY <1>1, <2>2 DEF Install, TypeOK
  <2>3. CASE ReceiveResponse(n)
    <3>1. PICK p \in Peers, cells \in SUBSET Timeslots :
            /\ Requested(n, p) /\ cells \subseteq FreeSlots(n)
            /\ \A t \in cells : Backed(n, p, t)
            /\ Install(n, Tx(p), cells)
      BY <1>3, <2>3, ResponseCells
    <3>2. \A t \in cells : ~Pairs!Engaged(n, t) /\ ~Pairs!Engaged(p, t)
      BY <3>1, NotEngaged
    <3>3. Agreed' = Agreed \cup {<<n, p, t>> : t \in cells}
      <4>1. ASSUME NEW m \in Peers, NEW q \in Peers, NEW t \in Timeslots
            PROVE  cell'[m][t] = Tx(q) <=> cell[m][t] = Tx(q) \/ (m = n /\ q = p /\ t \in cells)
        <5>1. CASE m = n /\ t \in cells
          <6>1. cell'[m][t] = Tx(p) /\ cell[m][t] = Free
            BY <2>2, <3>1, <5>1 DEF FreeSlots
          <6> QED BY <5>1, <6>1, LinksDiffer
        <5>2. CASE ~(m = n /\ t \in cells)
          BY <2>2, <3>1, <5>2
        <5> QED BY <5>1, <5>2
      <4>2. ASSUME NEW e \in Peers \X Peers \X Timeslots
            PROVE  e \in Agreed' <=> e \in Agreed \/ e \in {<<n, p, t>> : t \in cells}
        <5>1. PICK m \in Peers, q \in Peers, t \in Timeslots : e = <<m, q, t>>
          OBVIOUS
        <5>2. e \in {<<n, p, s>> : s \in cells} <=> m = n /\ q = p /\ t \in cells
          BY <5>1
        <5> QED BY <4>1, <5>1, <5>2 DEF Agreed
      <4>3. {<<n, p, t>> : t \in cells} \subseteq Peers \X Peers \X Timeslots
        OBVIOUS
      <4> QED BY <4>2, <4>3 DEF Agreed
    <3> QED BY <3>2, <3>3 DEF Pairs!Next, Pairs!Agree
  <2>4. CASE TxDone(n)
    <3>1. PICK p \in Peers : Answering(n, p, res[n]) /\ Install(n, Rx(p), res[n])
      BY <1>3, <2>4, ReportCells
    <3>2. ASSUME NEW m \in Peers, NEW q \in Peers, NEW t \in Timeslots
          PROVE  cell'[m][t] = Tx(q) <=> cell[m][t] = Tx(q)
      <4>1. CASE m = n /\ t \in res[n]
        <5>1. cell'[m][t] = Rx(p) /\ cell[m][t] = Free
          BY <2>2, <3>1, <4>1 DEF Answering, FreeSlots
        <5> QED BY <5>1, LinksDiffer
      <4>2. CASE ~(m = n /\ t \in res[n])
        BY <2>2, <3>1, <4>2
      <4> QED BY <4>1, <4>2
    <3>3. \A e \in Peers \X Peers \X Timeslots : e \in Agreed' <=> e \in Agreed
      BY <3>2 DEF Agreed
    <3>4. Agreed' = Agreed
      BY <3>3 DEF Agreed
    <3> QED BY <3>4
  <2> QED BY <2>1, <2>3, <2>4
<1> QED BY <1>2, <1>3

(* Under the same conditions the negotiation implements CellPairs: a       *)
(* timeslot a pair agrees on is in no other agreement of either node, and  *)
(* it stays theirs.                                                        *)
THEOREM ImplementsPairs ==
  ASSUME Undisturbed PROVE Spec => PairsWithoutConflict
<1>1. Init => Pairs!Init
  <2> SUFFICES ASSUME Init PROVE Agreed = {}
    BY DEF Pairs!Init
  <2>1. \A m, q \in Peers, t \in Timeslots : cell[m][t] # Tx(q)
    BY LinksDiffer DEF Init
  <2>2. \A e \in Peers \X Peers \X Timeslots : cell[e[1]][e[3]] # Tx(e[2])
    BY <2>1
  <2> QED BY <2>2 DEF Agreed
<1>2. IInv /\ [Next]_vars => [Pairs!Next]_Agreed
  BY PairsStep DEF Undisturbed
<1> QED BY <1>1, <1>2, Invariant, PTL DEF Spec, PairsWithoutConflict, Pairs!Spec

-----------------------------------------------------------------------------
(* No answer overtakes the report on its request.                          *)

(* Which steps change what.                                                *)
LEMMA WhoMoves ==
  ASSUME TypeOK, [Next]_vars, NEW m \in Peers, blk'[m] # blk[m]
  PROVE  (rx[m] = <<>> /\ rx' = rx) \/ ReceiveRequest(m) \/ ReceiveResponse(m)
<1>1. Next
  BY DEF vars
<1>2. ASSUME NEW n \in Peers, NEW p \in Peers, NEW b \in Blocks, NEW t, NEW pkt,
             HandOver(n, p, b, t, pkt)
      PROVE  n = m
  BY <1>2 DEF HandOver, TypeOK
<1>3. ASSUME NEW n \in Peers, NEW p \in Peers, NEW c, NEW cells, Output(n, p, c, cells)
      PROVE  n = m
  BY <1>2, <1>3 DEF Output
<1>4. ASSUME NEW n \in Peers, NEW p \in Peers, LinksAdded(n, p) \/ BlSend(n, p)
      PROVE  rx[m] = <<>> /\ rx' = rx
  BY <1>3, <1>4 DEF LinksAdded, Draw, BlSend, Idle
<1>5. ASSUME NEW n \in Peers, ReceiveRequest(n) PROVE n = m
  <2>1. SUFFICES ASSUME n # m PROVE FALSE
    OBVIOUS
  <2>2. PICK p, pkt : p = Head(rx[n]).src /\ pkt = Head(rx[n]).pkt
    OBVIOUS
  <2>3. PICK b \in Blocks :
          \/ \E t : blk' = [blk EXCEPT ![n][b] = t]
          \/ \E t, cells : AddReqInput(n, p, b, t, cells)
          \/ \E t : SignalReqInput(n, b, t)
    BY <1>5, <2>2 DEF ReceiveRequest
  <2>4. \A t : blk' # [blk EXCEPT ![n][b] = t]
    BY <2>1 DEF TypeOK
  <2> QED BY <2>1, <2>3, <2>4 DEF AddReqInput, SignalReqInput, HandOver
<1>6. ASSUME NEW n \in Peers, ReceiveResponse(n) PROVE n = m
  BY <1>6 DEF ReceiveResponse, TypeOK
<1>7. ASSUME NEW n \in Peers, TxDone(n) PROVE rx[m] = <<>> /\ rx' = rx
  BY <1>7 DEF TxDone, TypeOK
<1>8. ASSUME NEW n \in Peers, NEW b \in Blocks, Timeout(n, b) \/ ProcessTrans(n, b)
      PROVE  rx[m] = <<>> /\ rx' = rx
  BY <1>8 DEF Timeout, ProcessTrans, Idle, TypeOK
<1>9. \A n, p, got, told : ~Transmit(n, p, got, told)
  BY DEF Transmit
<1>10. \A e \in Asks \cup Signals : e[1] \in Peers /\ e[2] \in Peers
  BY SfsbNetAssumption
<1> QED BY <1>1, <1>4, <1>5, <1>6, <1>7, <1>8, <1>9, <1>10 DEF Next

LEMMA WhoStores ==
  ASSUME TypeOK, [Next]_vars, NEW m \in Peers, res'[m] # res[m]
  PROVE  ~Full(m)
<1>1. Next
  BY DEF vars
<1>2. \A n, p : ~LinksAdded(n, p) /\ ~BlSend(n, p)
  BY DEF LinksAdded, Draw, BlSend
<1>3. \A n, p, got, told : ~Transmit(n, p, got, told)
  BY DEF Transmit
<1>4. \A n, b : ~Timeout(n, b) /\ ~ProcessTrans(n, b)
  BY DEF Timeout, ProcessTrans
<1>5. \A n : ~ReceiveResponse(n) /\ ~TxDone(n)
  BY DEF ReceiveResponse, TxDone
<1>6. PICK n \in Peers : ReceiveRequest(n)
  BY <1>1, <1>2, <1>3, <1>4, <1>5 DEF Next
<1>7. ~Full(n)
  BY <1>6 DEF ReceiveRequest
<1>8. n = m
  <2>1. SUFFICES ASSUME n # m PROVE FALSE
    OBVIOUS
  <2>2. PICK p, pkt : p = Head(rx[n]).src /\ pkt = Head(rx[n]).pkt
    OBVIOUS
  <2>3. PICK b \in Blocks :
          \/ \E t, cells : AddReqInput(n, p, b, t, cells)
          \/ \E t : SignalReqInput(n, b, t)
    BY <1>6, <2>2 DEF ReceiveRequest
  <2>4. \A cells : res' # [res EXCEPT ![n] = cells]
    BY <2>1 DEF TypeOK
  <2> QED BY <2>3, <2>4 DEF AddReqInput, SignalReqInput
<1> QED BY <1>7, <1>8

LEMMA WhoReports ==
  ASSUME TypeOK, [Next]_vars, NEW m \in Peers, NEW d \in Range(done'[m])
  PROVE  \/ d \in Range(done[m])
         \/ \E p \in Peers, got, told \in BOOLEAN :
              /\ Transmit(m, p, got, told)
              /\ d = [to |-> p, kind |-> Head(out[m][p]).pkt.kind,
                      block |-> Head(out[m][p]).block, ok |-> told]
<1> SUFFICES ASSUME done' # done
             PROVE  \/ d \in Range(done[m])
                    \/ \E p \in Peers, got, told \in BOOLEAN :
                         /\ Transmit(m, p, got, told)
                         /\ d = [to |-> p, kind |-> Head(out[m][p]).pkt.kind,
                                 block |-> Head(out[m][p]).block, ok |-> told]
  OBVIOUS
<1>1. Next
  BY DEF vars
<1>2. \A n, p : ~LinksAdded(n, p) /\ ~BlSend(n, p)
  BY DEF LinksAdded, Draw, BlSend
<1>3. \A n, b : ~Timeout(n, b) /\ ~ProcessTrans(n, b)
  BY DEF Timeout, ProcessTrans
<1>4. \A n : ~ReceiveRequest(n) /\ ~ReceiveResponse(n)
  BY DEF ReceiveRequest, ReceiveResponse
<1>5. CASE \E n \in Peers : TxDone(n)
  <2>1. PICK n \in Peers : TxDone(n)
    BY <1>5
  <2>2. done[n] # <<>> /\ done[n] \in Seq(Reports)
    BY <2>1, QueueTypes DEF TxDone
  <2>3. done'[m] = IF m = n THEN Tail(done[m]) ELSE done[m]
    BY <2>1, QueueTypes DEF TxDone
  <2> QED BY <2>2, <2>3, TailRange
<1>6. CASE \E n, p \in Peers, got, told \in BOOLEAN : Transmit(n, p, got, told)
  <2>1. PICK n \in Peers, p \in Peers : \E got, told \in BOOLEAN : Transmit(n, p, got, told)
    BY <1>6
  <2>2. PICK got \in BOOLEAN, told \in BOOLEAN : Transmit(n, p, got, told)
    BY <2>1
  <2>3. out[n][p] \in Seq(Queued) /\ out[n][p] # <<>>
    BY <2>2, QueueTypes DEF Transmit
  <2>4. PICK f \in Queued : f = Head(out[n][p])
    BY <2>3, HeadTaken
  <2>5. PICK e \in Reports : e = [to |-> p, kind |-> f.pkt.kind, block |-> f.block, ok |-> told]
    BY <2>4 DEF Reports, Queued, Contents
  <2>6. done'[m] = IF m = n THEN Append(done[m], e) ELSE done[m]
    BY <2>2, <2>4, <2>5, QueueTypes DEF Transmit
  <2>7. done[m] \in Seq(Reports)
    BY QueueTypes
  <2>8. d \in Range(done[m]) \/ (m = n /\ d = e)
    BY <2>6, <2>7, AppendRange
  <2> QED BY <2>2, <2>4, <2>5, <2>8
<1> QED BY <1>1, <1>2, <1>3, <1>4, <1>5, <1>6 DEF Next

LEMMA WhoHears ==
  ASSUME TypeOK, [Next]_vars, NEW m \in Peers
  PROVE  /\ \A r \in Range(rx'[m]) : r \in Range(rx[m]) \/
              \E n \in Peers, got, told \in BOOLEAN :
                 got /\ Transmit(n, m, got, told) /\ r = [src |-> n, pkt |-> Head(out[n][m]).pkt]
         /\ \A r \in Range(rx[m]) : r \in Range(rx'[m]) \/
              (r = Head(rx[m]) /\ (ReceiveRequest(m) \/ ReceiveResponse(m)))
<1> SUFFICES ASSUME rx' # rx
             PROVE  /\ \A r \in Range(rx'[m]) : r \in Range(rx[m]) \/
                         \E n \in Peers, got, told \in BOOLEAN :
                            /\ got /\ Transmit(n, m, got, told)
                            /\ r = [src |-> n, pkt |-> Head(out[n][m]).pkt]
                    /\ \A r \in Range(rx[m]) : r \in Range(rx'[m]) \/
                         (r = Head(rx[m]) /\ (ReceiveRequest(m) \/ ReceiveResponse(m)))
  OBVIOUS
<1>1. Next
  BY DEF vars
<1>2. \A n, p : ~LinksAdded(n, p) /\ ~BlSend(n, p)
  BY DEF LinksAdded, Draw, BlSend
<1>3. \A n, b : ~Timeout(n, b) /\ ~ProcessTrans(n, b)
  BY DEF Timeout, ProcessTrans
<1>4. \A n : ~TxDone(n)
  BY DEF TxDone
<1>5. CASE \E n \in Peers : ReceiveRequest(n) \/ ReceiveResponse(n)
  <2>1. PICK n \in Peers : ReceiveRequest(n) \/ ReceiveResponse(n)
    BY <1>5
  <2>2. rx[n] # <<>> /\ rx[n] \in Seq(Received) /\ rx' = [rx EXCEPT ![n] = Tail(@)]
    BY <2>1, QueueTypes DEF ReceiveRequest, ReceiveResponse
  <2>3. rx'[m] = IF m = n THEN Tail(rx[m]) ELSE rx[m]
    BY <2>2, QueueTypes
  <2> QED BY <2>1, <2>2, <2>3, TailRange
<1>6. CASE \E n, p \in Peers, got, told \in BOOLEAN : Transmit(n, p, got, told)
  <2>1. PICK n \in Peers, p \in Peers : \E got, told \in BOOLEAN : Transmit(n, p, got, told)
    BY <1>6
  <2>2. PICK got \in BOOLEAN, told \in BOOLEAN : Transmit(n, p, got, told)
    BY <2>1
  <2>3. got
    BY <2>2 DEF Transmit
  <2>4. out[n][p] \in Seq(Queued) /\ out[n][p] # <<>>
    BY <2>2, QueueTypes DEF Transmit
  <2>5. PICK f \in Queued : f = Head(out[n][p])
    BY <2>4, HeadTaken
  <2>6. PICK r \in Received : r = [src |-> n, pkt |-> f.pkt]
    BY <2>5 DEF Queued, Received
  <2>7. rx'[m] = IF m = p THEN Append(rx[m], r) ELSE rx[m]
    BY <2>2, <2>3, <2>5, <2>6, QueueTypes DEF Transmit
  <2>8. rx[m] \in Seq(Received)
    BY QueueTypes
  <2>9. /\ \A e \in Range(rx'[m]) : e \in Range(rx[m]) \/ (m = p /\ e = r)
        /\ \A e \in Range(rx[m]) : e \in Range(rx'[m])
    BY <2>7, <2>8, AppendRange
  <2> QED BY <2>2, <2>3, <2>5, <2>6, <2>9
<1> QED BY <1>1, <1>2, <1>3, <1>4, <1>5, <1>6 DEF Next

(* p transmits to n in timeslot t, or will when it handles the response.   *)
Brings(r, n, t) == r.src = n /\ r.pkt.kind = "RESPONSE" /\ t \in r.pkt.cells
Heard(n, p, t) == cell[p][t] = Tx(n) \/ \E r \in Range(rx[p]) : Brings(r, n, t)

(* Who gets an answer has had its request reported, a response received is *)
(* one to an ADD, and what a node offered and listens in is heard of.      *)
HeardOK(n) ==
  /\ ~No(rx[n], Replies) => T(n).state = "REQUEST_SENT"
  /\ \A r \in Range(rx[n]) : r.pkt.kind = "RESPONSE" => r.pkt.cmd = "ADD"
  /\ \A d \in Range(done[n]) :
       d.kind = "RESPONSE" /\ d.ok => \A t \in res[n] : Heard(n, d.to, t)
  /\ \A p \in Peers, t \in Timeslots : cell[n][t] = Rx(p) => Heard(n, p, t)
HeardInv == \A n \in Peers : HeardOK(n)

LEMMA HeardKept ==
  ASSUME OneBlock, IInv, HeardInv, [Next]_vars,
         NEW n \in Peers, NEW p \in Peers, NEW t \in Timeslots, Heard(n, p, t)
  PROVE  Heard(n, p, t)'
<1>1. TypeOK /\ NodeOK(p) /\ HeardOK(p)
  BY DEF IInv, HeardInv
<1>2. CASE cell[p][t] = Tx(n)
  BY <1>2, CellsStay, LinksDiffer DEF Heard
<1>3. CASE cell[p][t] # Tx(n)
  <2>1. PICK r \in Range(rx[p]) : Brings(r, n, t)
    BY <1>3 DEF Heard
  <2>2. CASE r \in Range(rx'[p])
    BY <2>1, <2>2 DEF Heard
  <2>3. CASE r \notin Range(rx'[p])
    <3>1. r = Head(rx[p]) /\ ReceiveResponse(p)
      <4>1. r = Head(rx[p]) /\ (ReceiveRequest(p) \/ ReceiveResponse(p))
        BY <1>1, <2>3, WhoHears
      <4> QED BY <2>1, <4>1 DEF ReceiveRequest, Brings
    <3>2. r \in Received /\ InputOK(p, r)
      BY <1>1, InQueues DEF NodeOK, RxOK
    <3>3. r.src = n /\ r.pkt.kind = "RESPONSE" /\ t \in r.pkt.cells
      BY <2>1 DEF Brings
    <3>4. r \in Replies
      BY <3>2, <3>3 DEF Replies
    <3>5. T(p).state = "REQUEST_SENT" /\ r.pkt.cmd = "ADD"
      BY <1>1, <3>3, <3>4 DEF HeardOK, No
    <3>6. T(p).peer = n /\ T(p).seqno = r.pkt.seqno /\ T(p).cmd = "ADD"
      BY <3>2, <3>3, <3>5 DEF InputOK, Requested, Matches
    <3>7. Block \in Mine(p, n, r.pkt.seqno) /\ Fits(T(p))
      BY <3>5, <3>6, TheBlock DEF Mine, Fits, Legal, T
    <3>8. nbr[p][n] # NoNbr
      BY <1>1, <3>5, <3>6, SixpTransAssumption DEF NodeOK, BlockOK
    <3>9. Install(p, Tx(n), r.pkt.cells)
      <4>1. \E b \in Mine(p, n, r.pkt.seqno) : Fits(blk[p][b])
        BY <3>7 DEF T
      <4> QED BY <3>1, <3>3, <3>8, <4>1 DEF ReceiveResponse
    <3> QED BY <1>1, <3>3, <3>9 DEF Install, TypeOK, Heard
  <2> QED BY <2>2, <2>3
<1> QED BY <1>2, <1>3

LEMMA HeardInit ==
  ASSUME Init
  PROVE  HeardInv
<1>1. Range(<<>>) = {}
  BY DEF Range
<1> QED BY <1>1, LinksDiffer DEF Init, HeardInv, HeardOK, No

LEMMA HeardStep ==
  ASSUME Undisturbed, ~Lag, IInv, HeardInv, TypeOK', [Next]_vars, NEW n \in Peers
  PROVE  HeardOK(n)'
<1>1. TypeOK /\ NodeOK(n) /\ HeardOK(n) /\ OneBlock
  BY DEF IInv, HeardInv, Undisturbed
<1>2. ~No(rx'[n], Replies) => T(n)'.state = "REQUEST_SENT"
  <2>1. SUFFICES ASSUME NEW r \in Range(rx'[n]), r \in Replies PROVE T(n)'.state = "REQUEST_SENT"
    BY DEF No
  <2>2. CASE r \in Range(rx[n])
    <3>1. T(n).state = "REQUEST_SENT"
      BY <1>1, <2>1, <2>2 DEF HeardOK, No
    <3>2. SUFFICES ASSUME blk'[n] # blk[n] PROVE FALSE
      BY <3>1 DEF T
    <3>3. rx[n] # <<>>
      BY <2>2 DEF Range
    <3>4. ReceiveRequest(n) \/ ReceiveResponse(n)
      BY <1>1, <3>2, <3>3, WhoMoves
    <3>5. CASE ReceiveRequest(n)
      <4>1. T(n).peer # NoPeer
        BY <1>1, <3>1, SixpTransAssumption DEF NodeOK, BlockOK
      <4>2. Full(n)
        BY <1>1, <4>1, TheBlock DEF Full, Used, T
      <4> QED BY <3>2, <3>5, <4>2 DEF ReceiveRequest
    <3>6. CASE ReceiveResponse(n)
      <4>1. rx[n] \in Seq(Received) /\ rx'[n] = Tail(rx[n])
        BY <1>1, <3>6, QueueTypes DEF ReceiveResponse
      <4>2. Head(rx[n]) \in Replies
        BY <3>3, <3>6, <4>1, HeadTaken DEF ReceiveResponse, Replies
      <4>3. No(Tail(rx[n]), Replies)
        BY <1>1, <3>3, <4>1, <4>2, OnceTail DEF NodeOK, RxOK
      <4> QED BY <2>1, <4>1, <4>3 DEF No
    <3> QED BY <3>4, <3>5, <3>6
  <2>3. CASE r \notin Range(rx[n])
    <3>1. PICK m \in Peers, got \in BOOLEAN, told \in BOOLEAN :
            Transmit(m, n, got, told) /\ r = [src |-> m, pkt |-> Head(out[m][n]).pkt]
      BY <1>1, <2>3, WhoHears
    <3>2. done[n] = <<>> /\ out[m][n] # <<>> /\ blk' = blk
      BY <3>1 DEF Transmit
    <3>3. PICK f \in Queued : f = Head(out[m][n]) /\ f \in Range(out[m][n])
      BY <1>1, <3>2, QueueTypes, TailRange, HeadTaken
    <3>4. FrameOK(m, n, f) /\ f.pkt.kind # "REQUEST"
      BY <2>1, <3>1, <3>3 DEF IInv, NodeOK, OutOK, Replies
    <3>5. Requested(n, m)
      BY <3>4 DEF FrameOK
    <3>6. Range(done[n]) = {}
      BY <3>2 DEF Range
    <3> QED BY <3>2, <3>5, <3>6 DEF Requested, T
  <2> QED BY <2>2, <2>3
<1>3. \A r \in Range(rx'[n]) : r.pkt.kind = "RESPONSE" => r.pkt.cmd = "ADD"
  <2>1. SUFFICES ASSUME NEW r \in Range(rx'[n]), r \notin Range(rx[n]), r.pkt.kind = "RESPONSE"
                 PROVE  r.pkt.cmd = "ADD"
    BY <1>1 DEF HeardOK
  <2>2. PICK m \in Peers, got \in BOOLEAN, told \in BOOLEAN :
          Transmit(m, n, got, told) /\ r = [src |-> m, pkt |-> Head(out[m][n]).pkt]
    BY <1>1, <2>1, WhoHears
  <2>3. out[m][n] # <<>>
    BY <2>2 DEF Transmit
  <2>4. PICK f \in Queued : f = Head(out[m][n]) /\ f \in Range(out[m][n])
    BY <1>1, <2>3, QueueTypes, TailRange, HeadTaken
  <2>5. FrameOK(m, n, f)
    BY <2>4 DEF IInv, NodeOK, OutOK
  <2> QED BY <2>1, <2>2, <2>4, <2>5 DEF FrameOK, Answering, Matches
<1>4. ASSUME NEW d \in Range(done'[n]), d.kind = "RESPONSE", d.ok, NEW t \in res'[n]
      PROVE  Heard(n, d.to, t)'
  <2>1. t \in Timeslots
    BY DEF TypeOK
  <2>2. CASE d \in Range(done[n])
    <3>1. ReportOK(n, d) /\ d \in Reports /\ d.to \in Peers
      BY <1>1, <2>2, InQueues DEF NodeOK, DoneOK, Reports
    <3>2. T(n).peer \in Peers
      BY <1>4, <3>1 DEF ReportOK, Answering
    <3>3. Full(n)
      BY <1>1, <3>2, TheBlock, SixpTransAssumption DEF Full, Used, T
    <3>4. res'[n] = res[n]
      BY <1>1, <3>3, WhoStores
    <3>5. Heard(n, d.to, t)
      BY <1>1, <1>4, <2>2, <3>4 DEF HeardOK
    <3> QED BY <1>1, <2>1, <3>1, <3>5, HeardKept
  <2>3. CASE d \notin Range(done[n])
    <3>1. PICK p \in Peers, got \in BOOLEAN, told \in BOOLEAN :
            /\ Transmit(n, p, got, told)
            /\ d = [to |-> p, kind |-> Head(out[n][p]).pkt.kind,
                    block |-> Head(out[n][p]).block, ok |-> told]
      BY <1>1, <2>3, WhoReports
    <3>2. told /\ got /\ out[n][p] # <<>> /\ res' = res
      BY <1>4, <3>1 DEF Transmit
    <3>3. PICK f \in Queued : f = Head(out[n][p]) /\ f \in Range(out[n][p])
      BY <1>1, <3>2, QueueTypes, TailRange, HeadTaken
    <3>4. FrameOK(n, p, f) /\ f.pkt.kind = "RESPONSE"
      BY <1>1, <1>4, <3>1, <3>3 DEF NodeOK, OutOK
    <3>5. t \in f.pkt.cells
      BY <3>2, <3>4 DEF FrameOK, Answering
    <3>6. PICK r \in Received : r = [src |-> n, pkt |-> f.pkt]
      BY <3>3 DEF Queued, Received
    <3>7. rx'[p] = Append(rx[p], r) /\ rx[p] \in Seq(Received)
      BY <1>1, <3>1, <3>2, <3>3, <3>6, QueueTypes DEF Transmit
    <3>8. r \in Range(rx'[p])
      BY <3>7, AppendRange
    <3>9. Brings(r, n, t)
      BY <3>4, <3>5, <3>6 DEF Brings
    <3> QED BY <3>1, <3>8, <3>9 DEF Heard
  <2> QED BY <2>2, <2>3
<1>5. ASSUME NEW p \in Peers, NEW t \in Timeslots, cell'[n][t] = Rx(p)
      PROVE  Heard(n, p, t)'
  <2>1. CASE cell[n][t] = Rx(p)
    BY <1>1, <2>1, HeardKept DEF HeardOK
  <2>2. CASE cell[n][t] # Rx(p)
    <3>1. PICK m \in Peers : ReceiveResponse(m) \/ TxDone(m)
      BY <1>5, <2>2, OtherCells
    <3>2. ASSUME NEW link, NEW cells, Install(m, link, cells)
          PROVE  cell'[n][t] = IF n = m /\ t \in cells THEN link ELSE cell[n][t]
      BY <1>1, <3>2 DEF Install, TypeOK
    <3>3. CASE ReceiveResponse(m)
      <4>1. PICK q \in Peers, cells \in SUBSET Timeslots : Install(m, Tx(q), cells)
        BY <1>1, <1>5, <2>2, <3>3, ResponseCells
      <4> QED BY <1>5, <2>2, <3>2, <4>1, LinksDiffer
    <3>4. CASE TxDone(m)
      <4>1. PICK q \in Peers : Answering(m, q, res[m]) /\ Install(m, Rx(q), res[m])
        BY <1>1, <1>5, <2>2, <3>4, ReportCells
      <4>2. n = m /\ t \in res[n] /\ q = p
        BY <1>5, <2>2, <3>2, <4>1, LinksDiffer
      <4>3. done[n] \in Seq(Reports) /\ done[n] # <<>>
        BY <1>1, <3>4, <4>2, QueueTypes DEF TxDone
      <4>4. PICK d \in Reports : d = Head(done[n]) /\ d \in Range(done[n])
        BY <4>3, HeadTaken, TailRange
      <4>5. ReportOK(n, d) /\ d.block # NoBlock
        BY <1>1, <1>5, <2>2, <3>4, <4>2, <4>4 DEF NodeOK, DoneOK, TxDone
      <4>6. d.kind \in {"REQUEST", "RESPONSE"} /\ d.block = Block
        BY <4>5 DEF ReportOK, Reports
      <4>7. CallsBack(T(n), d.ok)
        BY <1>5, <2>2, <3>4, <4>2, <4>4, <4>5, <4>6 DEF TxDone, T
      <4>8. d.kind = "RESPONSE" /\ d.ok /\ d.to = p
        BY <4>1, <4>2, <4>5, <4>6, <4>7 DEF ReportOK, CallsBack, Answering
      <4>9. Heard(n, p, t)
        BY <1>1, <4>2, <4>4, <4>8 DEF HeardOK
      <4> QED BY <1>1, <4>9, HeardKept
    <3> QED BY <3>1, <3>3, <3>4
  <2> QED BY <2>1, <2>2
<1> QED BY <1>2, <1>3, <1>4, <1>5 DEF HeardOK

(* If besides no frame goes to a node with reports pending, so that no     *)
(* answer overtakes the report on its request: a cell a node listens in is *)
(* one its peer transmits in, or will once it handles the response.        *)
THEOREM ListenersHaveSenders ==
  ASSUME Undisturbed, ~Lag PROVE Spec => []RxHasTx
<1>1. Init => HeardInv
  BY HeardInit
<1>2. IInv /\ TypeOK' /\ HeardInv /\ [Next]_vars => HeardInv'
  BY HeardStep DEF HeardInv
<1>3. HeardInv => RxHasTx
  <2> SUFFICES ASSUME HeardInv, NEW n \in Peers, NEW p \in Peers, NEW t \in Timeslots,
                      cell[n][t] = Rx(p), cell[p][t] # Tx(n)
               PROVE  \E i \in DOMAIN rx[p] : /\ rx[p][i].src = n
                                              /\ rx[p][i].pkt.kind = "RESPONSE"
                                              /\ t \in rx[p][i].pkt.cells
    BY DEF RxHasTx
  <2>1. PICK r \in Range(rx[p]) : Brings(r, n, t)
    BY DEF HeardInv, HeardOK, Heard
  <2>2. PICK i \in DOMAIN rx[p] : rx[p][i] = r
    BY DEF Range
  <2> QED BY <2>1, <2>2 DEF Brings
<1> QED BY <1>1, <1>2, <1>3, Invariant, TypeCorrect, PTL DEF Spec
-----------------------------------------------------------------------------
(* Every node of the network is a node of Sixp.                            *)

(* What Sixp sees of a frame, and of one that is sent.                     *)
MacFrames == [kind : {"REQUEST", "RESPONSE", "ERROR"}, slot : MaybeBlocks, live : BOOLEAN]
Sent(d) == Frame(d.kind, d.block)

LEMMA SentFrame == \A d \in Reports : Sent(d) \in MacFrames
BY DEF Sent, Frame, MacFrames, Reports

(* The frames to one peer that are not reported yet, entry by entry.       *)
Steps(f, n, s) ==
  /\ f \in [0 .. Len(s) -> Seq(MacFrames)]
  /\ f[0] = <<>> /\ f[Len(s)] = SentTo(n, s)
  /\ \A i \in 1 .. Len(s) : f[i] = IF s[i].to = n THEN Append(f[i - 1], Sent(s[i])) ELSE f[i - 1]

LEMMA SentSteps ==
  ASSUME NEW n, NEW s \in Seq(Reports)
  PROVE  \E f : Steps(f, n, s)
<1>1. PICK l \in Nat : l = Len(s) /\ \A i \in 1 .. l : Sent(s[i]) \in MacFrames
  <2>1. Len(s) \in Nat /\ \A i \in 1 .. Len(s) : s[i] \in Reports
    BY LenProperties
  <2> QED BY <2>1, SentFrame
<1> DEFINE Next1(v, i) == IF s[i].to = n THEN Append(v, Sent(s[i])) ELSE v
           step == [p \in Seq(MacFrames) \X (1 .. l) |-> Next1(p[1], p[2])]
<1>2. \A v \in Seq(MacFrames), i \in 1 .. l : Next1(v, i) \in Seq(MacFrames)
  BY <1>1
<1>3. \A v \in Seq(MacFrames), i \in 1 .. l : step[<<v, i>>] = Next1(v, i)
  <2> HIDE DEF Next1
  <2> QED OBVIOUS
<1>4. step \in [Seq(MacFrames) \X (1 .. l) -> Seq(MacFrames)]
  <2> HIDE DEF Next1
  <2> QED BY <1>2
<1>5. PICK f : Follows(f, Seq(MacFrames), l, <<>>, step)
  <2> HIDE DEF step
  <2>1. <<>> \in Seq(MacFrames)
    OBVIOUS
  <2> QED BY <1>1, <1>4, <2>1, Recursion
<1> DEFINE Defines(g) ==
             g = [i \in 0 .. Len(s) |->
                    IF i = 0 THEN <<>>
                    ELSE IF s[i].to = n THEN Append(g[i - 1], Sent(s[i])) ELSE g[i - 1]]
           upto == CHOOSE g : Defines(g)
<1>6. Defines(f)
  <2> HIDE DEF step
  <2>1. /\ f \in [0 .. l -> Seq(MacFrames)] /\ f[0] = <<>>
        /\ \A i \in 1 .. l : f[i] = step[<<f[i - 1], i>>]
    BY <1>5 DEF Follows
  <2>2. ASSUME NEW i \in 1 .. l PROVE f[i] = Next1(f[i - 1], i)
    <3> HIDE DEF Next1
    <3>1. f[i - 1] \in Seq(MacFrames)
      BY <1>1, <2>1
    <3> QED BY <3>1, <1>3, <2>1
  <2>3. \A i \in 0 .. l : i # 0 => i \in 1 .. l
    BY <1>1
  <2> QED BY <1>1, <2>1, <2>2, <2>3
<1>7. Defines(upto)
  <2> HIDE DEF Defines
  <2> QED BY <1>6
<1>8. upto[Len(s)] = SentTo(n, s)
  BY DEF SentTo, Sent
<1> HIDE DEF upto
<1>9. upto[0] = <<>> /\ \A i \in 1 .. l : upto[i] = Next1(upto[i - 1], i)
  <2>1. 0 \in 0 .. l /\ \A i \in 1 .. l : i \in 0 .. l /\ i # 0
    BY <1>1
  <2> QED BY <1>1, <1>7, <2>1
<1>10. DOMAIN upto = 0 .. l
  BY <1>1, <1>7
<1> DEFINE Typed == {i \in Nat : i <= l => upto[i] \in Seq(MacFrames)}
<1>11. Nat \subseteq Typed
  <2>1. 0 \in Typed
    <3>1. <<>> \in Seq(MacFrames)
      OBVIOUS
    <3> QED BY <1>9, <3>1
  <2>2. ASSUME NEW i \in Nat, i \in Typed PROVE i + 1 \in Typed
    <3> SUFFICES ASSUME i + 1 <= l PROVE upto[i + 1] \in Seq(MacFrames)
      OBVIOUS
    <3>1. i + 1 \in 1 .. l /\ upto[i] \in Seq(MacFrames) /\ i + 1 - 1 = i
      BY <1>1, <2>2
    <3>2. upto[i + 1] = Next1(upto[i], i + 1)
      BY <1>9, <3>1
    <3> HIDE DEF Next1
    <3> QED BY <1>2, <3>1, <3>2
  <2> HIDE DEF Typed
  <2> QED BY <2>1, <2>2, Induction
<1>12. \A i \in 0 .. l : upto[i] \in Seq(MacFrames)
  BY <1>1, <1>11
<1>13. upto \in [0 .. l -> Seq(MacFrames)]
  <2> HIDE DEF Defines
  <2>1. upto = [i \in 0 .. l |-> upto[i]]
    BY <1>1, <1>7 DEF Defines
  <2> QED BY <1>12, <2>1
<1> QED BY <1>1, <1>8, <1>9, <1>13 DEF Steps

(* One entry more.                                                         *)
LEMMA StepAt ==
  ASSUME NEW f, NEW n, NEW s \in Seq(Reports), Steps(f, n, s), NEW i \in Nat, i + 1 <= Len(s)
  PROVE  /\ f[i] \in Seq(MacFrames)
         /\ s[i + 1].to = n => f[i + 1] = Append(f[i], Sent(s[i + 1]))
         /\ s[i + 1].to # n => f[i + 1] = f[i]
<1>1. i \in 0 .. Len(s) /\ i + 1 \in 1 .. Len(s) /\ i + 1 - 1 = i
  BY LenProperties
<1>2. f[i] \in Seq(MacFrames)
  BY <1>1 DEF Steps
<1>3. PICK k : k = i + 1 /\ k \in 1 .. Len(s) /\ k - 1 = i
  BY <1>1
<1>4. f[k] = IF s[k].to = n THEN Append(f[k - 1], Sent(s[k])) ELSE f[k - 1]
  BY <1>3 DEF Steps
<1> QED BY <1>2, <1>3, <1>4

LEMMA SentType ==
  ASSUME NEW n, NEW s \in Seq(Reports)
  PROVE  SentTo(n, s) \in Seq(MacFrames)
<1>1. PICK f : Steps(f, n, s)
  BY SentSteps
<1>2. Len(s) \in 0 .. Len(s)
  BY LenProperties
<1> QED BY <1>1, <1>2 DEF Steps

LEMMA NoneSent == \A n : SentTo(n, <<>>) = <<>>
<1> SUFFICES ASSUME NEW n PROVE SentTo(n, <<>>) = <<>>
  OBVIOUS
<1>1. <<>> \in Seq(Reports) /\ Len(<<>>) = 0
  OBVIOUS
<1>2. PICK f : Steps(f, n, <<>>)
  BY <1>1, SentSteps
<1> QED BY <1>1, <1>2 DEF Steps

(* One more entry.                                                         *)
LEMMA SentAppended ==
  ASSUME NEW n, NEW s \in Seq(Reports), NEW e \in Reports
  PROVE  SentTo(n, Append(s, e)) =
           IF e.to = n THEN Append(SentTo(n, s), Sent(e)) ELSE SentTo(n, s)
<1>1. PICK t, l : t = Append(s, e) /\ l = Len(s)
  OBVIOUS
<1>2. /\ l \in Nat /\ t \in Seq(Reports) /\ Len(t) = l + 1
      /\ t[l + 1] = e /\ \A i \in 1 .. l : t[i] = s[i]
  BY <1>1, Appended, LenProperties
<1>3. PICK f : Steps(f, n, s)
  BY SentSteps
<1>4. PICK g : Steps(g, n, t)
  BY <1>2, SentSteps
<1> DEFINE Agrees == {i \in Nat : i <= l => g[i] = f[i]}
<1>5. Nat \subseteq Agrees
  <2>1. 0 \in Agrees
    BY <1>3, <1>4 DEF Steps
  <2>2. ASSUME NEW i \in Nat, i \in Agrees PROVE i + 1 \in Agrees
    <3> SUFFICES ASSUME i + 1 <= l PROVE g[i + 1] = f[i + 1]
      OBVIOUS
    <3>1. i + 1 <= l /\ i + 1 <= l + 1 /\ i + 1 \in 1 .. l /\ g[i] = f[i]
      BY <1>2, <2>2
    <3>2. i + 1 <= Len(s) /\ i + 1 <= Len(t)
      BY <1>1, <1>2, <3>1
    <3>3. /\ s[i + 1].to = n => f[i + 1] = Append(f[i], Sent(s[i + 1]))
          /\ s[i + 1].to # n => f[i + 1] = f[i]
      <4>1. s \in Seq(Reports) /\ Steps(f, n, s) /\ i + 1 <= Len(s)
        BY <1>3, <3>2
      <4> QED BY <4>1, StepAt
    <3>4. /\ t[i + 1].to = n => g[i + 1] = Append(g[i], Sent(t[i + 1]))
          /\ t[i + 1].to # n => g[i + 1] = g[i]
      <4>1. t \in Seq(Reports) /\ Steps(g, n, t) /\ i + 1 <= Len(t)
        BY <1>2, <1>4, <3>2
      <4> QED BY <4>1, StepAt
    <3> QED BY <1>2, <3>1, <3>3, <3>4
  <2> HIDE DEF Agrees
  <2> QED BY <2>1, <2>2, Induction
<1>6. g[l] = SentTo(n, s)
  BY <1>1, <1>2, <1>3, <1>5 DEF Steps
<1>7. g[l + 1] = IF e.to = n THEN Append(g[l], Sent(e)) ELSE g[l]
  <2>1. t \in Seq(Reports) /\ Steps(g, n, t) /\ l \in Nat /\ l + 1 <= Len(t)
    BY <1>2, <1>4
  <2>2. /\ t[l + 1].to = n => g[l + 1] = Append(g[l], Sent(t[l + 1]))
        /\ t[l + 1].to # n => g[l + 1] = g[l]
    BY <2>1, StepAt
  <2> QED BY <1>2, <2>2
<1>8. g[l + 1] = SentTo(n, t)
  BY <1>2, <1>4 DEF Steps
<1> QED BY <1>1, <1>6, <1>7, <1>8

(* The first entry.                                                        *)
LEMMA SentFirst ==
  ASSUME NEW n, NEW s \in Seq(Reports), s # <<>>
  PROVE  /\ Head(s).to = n => SentTo(n, s) = <<Sent(Head(s))>> \o SentTo(n, Tail(s))
         /\ Head(s).to # n => SentTo(n, s) = SentTo(n, Tail(s))
<1>1. PICK t, l, a : t = Tail(s) /\ l = Len(t) /\ a = Sent(s[1])
  OBVIOUS
<1>2. /\ l \in Nat /\ t \in Seq(Reports) /\ Len(s) = l + 1 /\ Head(s) = s[1] /\ a \in MacFrames
      /\ \A i \in 1 .. l : t[i] = s[i + 1] /\ Sent(t[i]) \in MacFrames
  <2>1. /\ t \in Seq(Reports) /\ Len(t) = Len(s) - 1 /\ Head(s) = s[1] /\ Head(s) \in Reports
        /\ DOMAIN t = 1 .. Len(s) - 1 /\ \A i \in DOMAIN t : t[i] = s[i + 1]
    BY <1>1, HeadTaken
  <2>2. Len(s) \in Nat /\ Len(t) \in Nat /\ DOMAIN t = 1 .. Len(t) /\ \A i \in DOMAIN t : t[i] \in Reports
    BY <2>1, Places
  <2>3. Len(s) = l + 1 /\ \A i \in 1 .. l : t[i] = s[i + 1] /\ t[i] \in Reports
    BY <1>1, <2>1, <2>2
  <2> QED BY <1>1, <2>1, <2>2, <2>3, SentFrame
<1>3. PICK f : Steps(f, n, s)
  BY SentSteps
<1>4. PICK g : Steps(g, n, t)
  BY <1>2, SentSteps
<1>5. PICK before \in Seq(MacFrames) : before = IF s[1].to = n THEN <<a>> ELSE <<>>
  <2>1. <<a>> \in Seq(MacFrames) /\ <<>> \in Seq(MacFrames)
    BY <1>2
  <2> QED BY <2>1, Zenon
<1> DEFINE Agrees == {i \in Nat : i <= l => f[i + 1] = before \o g[i]}
<1>6. Nat \subseteq Agrees
  <2>1. 0 \in Agrees
    <3>1. f[0] = <<>> /\ 1 \in 1 .. Len(s) /\ 1 - 1 = 0
      BY <1>2, <1>3 DEF Steps
    <3>2. f[1] = IF s[1].to = n THEN Append(<<>>, a) ELSE <<>>
      BY <1>1, <1>3, <3>1 DEF Steps
    <3>3. f[1] = before
      BY <1>5, <3>2
    <3>4. g[0] = <<>> /\ before \o <<>> = before
      BY <1>4, ConcatEmptySeq DEF Steps
    <3> QED BY <3>3, <3>4
  <2>2. ASSUME NEW i \in Nat, i \in Agrees PROVE i + 1 \in Agrees
    <3> SUFFICES ASSUME i + 1 <= l PROVE f[i + 2] = before \o g[i + 1]
      OBVIOUS
    <3>1. PICK k \in Nat : k = i + 1
      OBVIOUS
    <3>2. /\ k \in 1 .. l /\ i + 2 = k + 1 /\ k + 1 <= Len(s) /\ i + 1 <= Len(t)
          /\ f[k] = before \o g[i]
      BY <1>1, <1>2, <2>2, <3>1
    <3>3. t[k] = s[k + 1] /\ Sent(t[k]) \in MacFrames
      BY <1>2, <3>2
    <3>4. /\ s[k + 1].to = n => f[k + 1] = Append(f[k], Sent(s[k + 1]))
          /\ s[k + 1].to # n => f[k + 1] = f[k]
      <4>1. k + 1 <= Len(s)
        BY <3>2
      <4> QED BY <1>3, <4>1, StepAt
    <3>5. /\ g[i] \in Seq(MacFrames)
          /\ t[i + 1].to = n => g[i + 1] = Append(g[i], Sent(t[i + 1]))
          /\ t[i + 1].to # n => g[i + 1] = g[i]
      <4>1. i + 1 <= Len(t) /\ t \in Seq(Reports)
        BY <1>2, <3>2
      <4> QED BY <1>4, <4>1, StepAt
    <3>6. PICK x \in Seq(MacFrames), e \in MacFrames : x = g[i] /\ e = Sent(t[k])
      BY <3>3, <3>5
    <3>7. before \o Append(x, e) = Append(before \o x, e)
      BY ConcatAppended
    <3> QED BY <3>1, <3>2, <3>3, <3>4, <3>5, <3>6, <3>7
  <2> HIDE DEF Agrees
  <2> QED BY <2>1, <2>2, Induction
<1>7. f[l + 1] = before \o g[l]
  BY <1>2, <1>6
<1>8. f[l + 1] = SentTo(n, s) /\ g[l] = SentTo(n, t)
  BY <1>1, <1>2, <1>3, <1>4 DEF Steps
<1>9. <<>> \o SentTo(n, t) = SentTo(n, t)
  BY <1>2, SentType, ConcatEmptySeq
<1> QED BY <1>1, <1>2, <1>5, <1>7, <1>8, <1>9
(* No more frames to one peer than reports.                                *)
LEMMA SentLength ==
  ASSUME NEW n, NEW s \in Seq(Reports)
  PROVE  Len(SentTo(n, s)) <= Len(s)
<1>1. PICK f : Steps(f, n, s)
  BY SentSteps
<1>2. PICK l \in Nat : l = Len(s)
  BY LenProperties
<1> DEFINE Short == {i \in Nat : i <= l => Len(f[i]) <= i}
<1>3. Nat \subseteq Short
  <2>1. 0 \in Short
    <3>1. f[0] = <<>> /\ Len(<<>>) = 0
      BY <1>1 DEF Steps
    <3> QED BY <3>1
  <2>2. ASSUME NEW i \in Nat, i \in Short PROVE i + 1 \in Short
    <3> SUFFICES ASSUME i + 1 <= l PROVE Len(f[i + 1]) <= i + 1
      OBVIOUS
    <3>1. i + 1 <= Len(s) /\ Len(f[i]) <= i
      BY <1>2, <2>2
    <3>2. /\ f[i] \in Seq(MacFrames)
          /\ s[i + 1].to = n => f[i + 1] = Append(f[i], Sent(s[i + 1]))
          /\ s[i + 1].to # n => f[i + 1] = f[i]
      BY <1>1, <3>1, StepAt
    <3>3. Len(f[i]) \in Nat /\ \A e \in MacFrames : Len(Append(f[i], e)) = Len(f[i]) + 1
      BY <3>2, Appended, LenProperties
    <3>4. s[i + 1] \in Reports
      <4>1. i + 1 \in DOMAIN s
        BY <1>2, <3>1, Places
      <4> QED BY <4>1, Places
    <3> QED BY <3>1, <3>2, <3>3, <3>4, SentFrame
  <2> HIDE DEF Short
  <2> QED BY <2>1, <2>2, Induction
<1>4. Len(f[l]) <= l
  BY <1>3
<1> QED BY <1>1, <1>2, <1>4 DEF Steps

(* The frames to one peer that TSCH has in its queue.                      *)
Wait(f) == Frame(f.pkt.kind, f.block)

LEMMA WaitFrame == \A f \in Queued : Wait(f) \in MacFrames
BY DEF Wait, Frame, MacFrames, Queued, Contents

LEMMA WaitingType ==
  ASSUME NEW q \in Seq(Queued)
  PROVE  /\ Waiting(q) \in Seq(MacFrames) /\ Len(Waiting(q)) = Len(q)
         /\ DOMAIN Waiting(q) = DOMAIN q
         /\ \A i \in DOMAIN q : Waiting(q)[i] = Wait(q[i])
<1>1. Len(q) \in Nat /\ DOMAIN q = 1 .. Len(q) /\ \A i \in DOMAIN q : q[i] \in Queued
  BY Places
<1>2. Waiting(q) = [i \in 1 .. Len(q) |-> Wait(q[i])]
  BY <1>1 DEF Waiting, Wait
<1>3. \A i \in 1 .. Len(q) : Wait(q[i]) \in MacFrames
  BY <1>1, WaitFrame
<1>4. Waiting(q) \in Seq(MacFrames) /\ Len(Waiting(q)) = Len(q)
  BY <1>1, <1>2, <1>3
<1> QED BY <1>1, <1>2, <1>4

(* Sequences with the same places are equal.                               *)
LEMMA SameSeq ==
  ASSUME NEW S, NEW s \in Seq(S), NEW t \in Seq(S), Len(s) = Len(t),
         \A i \in 1 .. Len(s) : s[i] = t[i]
  PROVE  s = t
BY SeqEqual, LenProperties

(* One more frame in the queue, and the first one.                         *)
LEMMA WaitingAppended ==
  ASSUME NEW q \in Seq(Queued), NEW f \in Queued
  PROVE  Waiting(Append(q, f)) = Append(Waiting(q), Wait(f))
<1>1. PICK u, w : u = Append(q, f) /\ w = Waiting(q)
  OBVIOUS
<1>2. PICK e \in MacFrames : e = Wait(f)
  BY WaitFrame
<1>3. /\ Len(q) \in Nat /\ DOMAIN q = 1 .. Len(q)
      /\ u \in Seq(Queued) /\ Len(u) = Len(q) + 1 /\ DOMAIN u = 1 .. Len(q) + 1
      /\ (\A i \in DOMAIN q : u[i] = q[i]) /\ u[Len(q) + 1] = f
  BY <1>1, Appended, Places
<1>4. w \in Seq(MacFrames) /\ Len(w) = Len(q) /\ \A i \in DOMAIN q : w[i] = Wait(q[i])
  BY <1>1, WaitingType
<1>5. /\ Waiting(u) \in Seq(MacFrames) /\ Len(Waiting(u)) = Len(q) + 1
      /\ \A i \in DOMAIN u : Waiting(u)[i] = Wait(u[i])
  BY <1>3, WaitingType
<1>6. /\ Append(w, e) \in Seq(MacFrames) /\ Len(Append(w, e)) = Len(q) + 1
      /\ (\A i \in 1 .. Len(q) : Append(w, e)[i] = w[i]) /\ Append(w, e)[Len(q) + 1] = e
  BY <1>3, <1>4, Appended, Places
<1>7. ASSUME NEW i \in 1 .. Len(q) + 1 PROVE Waiting(u)[i] = Append(w, e)[i]
  <2>1. i \in 1 .. Len(q) \/ i = Len(q) + 1
    BY <1>3
  <2>2. CASE i \in 1 .. Len(q)
    BY <1>3, <1>4, <1>5, <1>6, <2>2
  <2>3. CASE i = Len(q) + 1
    BY <1>2, <1>3, <1>5, <1>6, <2>3
  <2> QED BY <2>1, <2>2, <2>3
<1>8. Waiting(u) = Append(w, e)
  BY <1>5, <1>6, <1>7, SameSeq
<1> QED BY <1>1, <1>2, <1>8

LEMMA WaitingFirst ==
  ASSUME NEW q \in Seq(Queued), q # <<>>
  PROVE  /\ Waiting(q) # <<>> /\ Head(Waiting(q)) = Wait(Head(q))
         /\ Tail(Waiting(q)) = Waiting(Tail(q))
<1>1. PICK u, w : u = Tail(q) /\ w = Waiting(q)
  OBVIOUS
<1>2. /\ Len(q) \in Nat /\ DOMAIN q = 1 .. Len(q)
      /\ Head(q) = q[1] /\ 1 \in DOMAIN q
      /\ u \in Seq(Queued) /\ Len(u) = Len(q) - 1 /\ DOMAIN u = 1 .. Len(q) - 1
      /\ \A i \in DOMAIN u : i + 1 \in DOMAIN q /\ u[i] = q[i + 1]
  BY <1>1, HeadTaken, Places
<1>3. w \in Seq(MacFrames) /\ Len(w) = Len(q) /\ \A i \in DOMAIN q : w[i] = Wait(q[i])
  BY <1>1, WaitingType
<1>4. w # <<>>
  <2>1. Len(<<>>) = 0 /\ Len(w) # 0
    BY <1>2, <1>3
  <2> QED BY <2>1
<1>5. /\ Head(w) = w[1] /\ Tail(w) \in Seq(MacFrames) /\ Len(Tail(w)) = Len(q) - 1
      /\ DOMAIN Tail(w) = 1 .. Len(q) - 1
      /\ \A i \in DOMAIN Tail(w) : Tail(w)[i] = w[i + 1]
  BY <1>3, <1>4, HeadTaken
<1>6. /\ Waiting(u) \in Seq(MacFrames) /\ Len(Waiting(u)) = Len(q) - 1
      /\ \A i \in DOMAIN u : Waiting(u)[i] = Wait(u[i])
  BY <1>2, WaitingType
<1>7. \A i \in 1 .. Len(q) - 1 : Tail(w)[i] = Waiting(u)[i]
  BY <1>2, <1>3, <1>5, <1>6
<1>8. Tail(w) = Waiting(u)
  BY <1>5, <1>6, <1>7, SameSeq
<1> QED BY <1>1, <1>2, <1>3, <1>4, <1>5, <1>8
-----------------------------------------------------------------------------
(* The MAC of a node as Sixp sees it, and what a step does to it.          *)
LEMMA MacqAt ==
  ASSUME TypeOK, NEW n \in Peers, NEW p \in Peers
  PROVE  /\ SentTo(p, done[n]) \in Seq(MacFrames) /\ Waiting(out[n][p]) \in Seq(MacFrames)
         /\ Macq(n)[p] = SentTo(p, done[n]) \o Waiting(out[n][p])
         /\ Macq(n)[p] \in Seq(MacFrames)
         /\ Len(Macq(n)[p]) <= Len(done[n]) + Len(out[n][p])
<1>1. done[n] \in Seq(Reports) /\ out[n][p] \in Seq(Queued)
  BY QueueTypes
<1>2. PICK s \in Seq(MacFrames), w \in Seq(MacFrames) :
        s = SentTo(p, done[n]) /\ w = Waiting(out[n][p])
  BY <1>1, SentType, WaitingType
<1>3. Macq(n)[p] = s \o w
  BY <1>2 DEF Macq
<1>4. s \o w \in Seq(MacFrames) /\ Len(s \o w) = Len(s) + Len(w)
  BY ConcatProperties
<1>5. /\ Len(s) <= Len(done[n]) /\ Len(w) = Len(out[n][p])
      /\ Len(s) \in Nat /\ Len(done[n]) \in Nat /\ Len(w) \in Nat
  BY <1>1, <1>2, SentLength, WaitingType, LenProperties
<1> QED BY <1>2, <1>3, <1>4, <1>5

(* A queue and a ring that do not change.                                  *)
LEMMA MacqKept ==
  ASSUME NEW n \in Peers, done'[n] = done[n], out'[n] = out[n]
  PROVE  Macq(n)' = Macq(n)
BY DEF Macq

LEMMA MacqIs ==
  ASSUME NEW n \in Peers, NEW F,
         F = [q \in Peers |-> F[q]],
         \A q \in Peers : F[q] = SentTo(q, done'[n]) \o Waiting(out'[n][q])
  PROVE  Macq(n)' = F
BY DEF Macq

(* A frame more, and a report handed on.                                   *)
LEMMA MacqAppended ==
  ASSUME TypeOK, NEW n \in Peers, NEW p \in Peers, NEW f \in Queued,
         out' = [out EXCEPT ![n][p] = Append(@, f)], done' = done
  PROVE  Macq(n)' = [Macq(n) EXCEPT ![p] = Append(@, Wait(f))]
<1>1. PICK F : F = [Macq(n) EXCEPT ![p] = Append(@, Wait(f))]
  OBVIOUS
<1>2. Macq(n) = [q \in Peers |-> Macq(n)[q]]
  BY DEF Macq
<1>3. /\ F = [q \in Peers |-> F[q]] /\ F[p] = Append(Macq(n)[p], Wait(f))
      /\ \A q \in Peers : q # p => F[q] = Macq(n)[q]
  BY <1>1, <1>2
<1>4. out'[n][p] = Append(out[n][p], f) /\ \A q \in Peers : q # p => out'[n][q] = out[n][q]
  BY DEF TypeOK
<1>5. F[p] = SentTo(p, done'[n]) \o Waiting(out'[n][p])
  <2>1. PICK s \in Seq(MacFrames), w \in Seq(MacFrames), e \in MacFrames :
          s = SentTo(p, done[n]) /\ w = Waiting(out[n][p]) /\ e = Wait(f)
    BY MacqAt, WaitFrame
  <2>2. Waiting(out'[n][p]) = Append(w, e)
    <3>1. out[n][p] \in Seq(Queued)
      BY QueueTypes
    <3> QED BY <1>4, <2>1, <3>1, WaitingAppended
  <2>3. s \o Append(w, e) = Append(s \o w, e)
    BY ConcatAppended
  <2>4. Macq(n)[p] = s \o w
    BY <2>1, MacqAt
  <2> QED BY <1>3, <2>1, <2>2, <2>3, <2>4
<1>6. ASSUME NEW q \in Peers, q # p PROVE F[q] = SentTo(q, done'[n]) \o Waiting(out'[n][q])
  <2>1. Macq(n)[q] = SentTo(q, done[n]) \o Waiting(out[n][q])
    BY MacqAt
  <2> QED BY <1>3, <1>4, <1>6, <2>1
<1>7. Macq(n)' = F
  <2>1. \A q \in Peers : F[q] = SentTo(q, done'[n]) \o Waiting(out'[n][q])
    BY <1>5, <1>6
  <2>2. F = [q \in Peers |-> F[q]]
    BY <1>3
  <2> QED BY <2>1, <2>2, MacqIs, Zenon
<1> QED BY <1>1, <1>7

LEMMA MacqReported ==
  ASSUME TypeOK, NEW n \in Peers, done[n] # <<>>,
         done' = [done EXCEPT ![n] = Tail(@)], out' = out
  PROVE  LET p == Head(done[n]).to
         IN /\ p \in Peers /\ Macq(n)[p] # <<>>
            /\ Head(Macq(n)[p]) = Sent(Head(done[n]))
            /\ Macq(n)' = [Macq(n) EXCEPT ![p] = Tail(@)]
<1>1. PICK d, t : d = Head(done[n]) /\ t = Tail(done[n])
  OBVIOUS
<1>2. PICK p : p = d.to
  OBVIOUS
<1>3. /\ done[n] \in Seq(Reports) /\ d \in Reports /\ t \in Seq(Reports) /\ p \in Peers
      /\ done'[n] = t
  <2>1. done[n] \in Seq(Reports) /\ done'[n] = t
    BY <1>1, QueueTypes DEF TypeOK
  <2>2. d \in Reports /\ t \in Seq(Reports)
    BY <1>1, <2>1, HeadTaken
  <2> QED BY <1>2, <2>1, <2>2 DEF Reports
<1>4. PICK F : F = [Macq(n) EXCEPT ![p] = Tail(@)]
  OBVIOUS
<1>5. Macq(n) = [q \in Peers |-> Macq(n)[q]]
  BY DEF Macq
<1>6. /\ F = [q \in Peers |-> F[q]] /\ F[p] = Tail(Macq(n)[p])
      /\ \A q \in Peers : q # p => F[q] = Macq(n)[q]
  BY <1>3, <1>4, <1>5
<1>7. PICK s \in Seq(MacFrames), w \in Seq(MacFrames), e \in MacFrames :
        s = SentTo(p, t) /\ w = Waiting(out[n][p]) /\ e = Sent(d)
  BY <1>3, MacqAt, SentType, SentFrame
<1>8. SentTo(p, done[n]) = <<e>> \o s
  BY <1>1, <1>2, <1>3, <1>7, SentFirst
<1>9. PICK a \in Seq(MacFrames) : a = <<e>> \o s
  <2>1. <<e>> \in Seq(MacFrames)
    OBVIOUS
  <2> QED BY <2>1, ConcatProperties
<1>10. a # <<>> /\ Tail(a) = s /\ Head(a) = e
  BY <1>9, OneBefore
<1>11. Macq(n)[p] = a \o w
  BY <1>3, <1>7, <1>8, <1>9, MacqAt
<1>12. a \o w # <<>> /\ Tail(a \o w) = s \o w
  BY <1>10, FirstOfConcat
<1>13. Head(a \o w) = e
  <2>1. Len(a) \in Nat /\ Len(w) \in Nat /\ Len(a) # 0 /\ Head(a) = a[1]
    BY <1>10, LenProperties, EmptySeq, HeadTaken
  <2>2. /\ a \o w \in Seq(MacFrames)
        /\ \A i \in 1 .. Len(a) + Len(w) : (a \o w)[i] = IF i <= Len(a) THEN a[i] ELSE w[i - Len(a)]
    BY ConcatProperties
  <2>3. (a \o w)[1] = a[1]
    BY <2>1, <2>2
  <2>4. Head(a \o w) = (a \o w)[1]
    BY <1>12, <2>2, HeadTaken
  <2> QED BY <1>10, <2>1, <2>3, <2>4
<1>14. F[p] = SentTo(p, done'[n]) \o Waiting(out'[n][p])
  BY <1>3, <1>6, <1>7, <1>11, <1>12
<1>15. ASSUME NEW q \in Peers, q # p PROVE F[q] = SentTo(q, done'[n]) \o Waiting(out'[n][q])
  <2>1. SentTo(q, done[n]) = SentTo(q, t)
    BY <1>1, <1>2, <1>3, <1>15, SentFirst
  <2>2. Macq(n)[q] = SentTo(q, done[n]) \o Waiting(out[n][q])
    BY MacqAt
  <2> QED BY <1>3, <1>6, <1>15, <2>1, <2>2
<1>16. Macq(n)' = F
  <2>1. \A q \in Peers : F[q] = SentTo(q, done'[n]) \o Waiting(out'[n][q])
    BY <1>14, <1>15
  <2>2. F = [q \in Peers |-> F[q]]
    BY <1>6
  <2> QED BY <2>1, <2>2, MacqIs, Zenon
<1> QED BY <1>1, <1>2, <1>3, <1>4, <1>7, <1>11, <1>12, <1>13, <1>16

(* A frame that is sent stays in the MAC until it is reported.             *)
LEMMA MacqTransmitted ==
  ASSUME TypeOK, NEW n \in Peers, NEW p \in Peers, NEW got \in BOOLEAN, NEW told \in BOOLEAN,
         Transmit(n, p, got, told)
  PROVE  Macq(n)' = Macq(n)
<1>1. PICK f, d, t :
        /\ f = Head(out[n][p]) /\ t = Tail(out[n][p])
        /\ d = [to |-> p, kind |-> f.pkt.kind, block |-> f.block, ok |-> told]
  OBVIOUS
<1>2. /\ out[n][p] # <<>>
      /\ out' = [out EXCEPT ![n][p] = t] /\ done' = [done EXCEPT ![n] = Append(@, d)]
  BY <1>1 DEF Transmit
<1>3. /\ out[n][p] \in Seq(Queued) /\ done[n] \in Seq(Reports)
      /\ f \in Queued /\ t \in Seq(Queued)
      /\ out'[n][p] = t /\ (\A q \in Peers : q # p => out'[n][q] = out[n][q])
      /\ done'[n] = Append(done[n], d)
  <2>1. out[n][p] \in Seq(Queued) /\ done[n] \in Seq(Reports)
    BY QueueTypes
  <2>2. f \in Queued /\ t \in Seq(Queued)
    BY <1>1, <1>2, <2>1, HeadTaken
  <2> QED BY <1>2, <2>1, <2>2 DEF TypeOK
<1>4. d \in Reports /\ d.to = p /\ Sent(d) = Wait(f)
  BY <1>1, <1>3 DEF Reports, Queued, Contents, Sent, Wait
<1>5. PICK s \in Seq(MacFrames), w \in Seq(MacFrames) :
        s = SentTo(p, done[n]) /\ w = Waiting(out[n][p])
  BY MacqAt
<1>6. w # <<>> /\ Head(w) = Sent(d) /\ Tail(w) = Waiting(t)
  BY <1>1, <1>2, <1>3, <1>4, <1>5, WaitingFirst
<1>7. SentTo(p, done'[n]) = Append(s, Head(w))
  BY <1>3, <1>4, <1>5, <1>6, SentAppended
<1>8. Append(s, Head(w)) \o Tail(w) = s \o w
  BY <1>6, FirstMoved
<1>9. Macq(n)[p] = SentTo(p, done'[n]) \o Waiting(out'[n][p])
  BY <1>3, <1>5, <1>6, <1>7, <1>8, MacqAt
<1>10. ASSUME NEW q \in Peers, q # p
       PROVE  Macq(n)[q] = SentTo(q, done'[n]) \o Waiting(out'[n][q])
  <2>1. SentTo(q, done'[n]) = SentTo(q, done[n])
    BY <1>3, <1>4, <1>10, SentAppended
  <2> QED BY <1>3, <1>10, <2>1, MacqAt
<1>11. PICK F : F = Macq(n)
  OBVIOUS
<1>12. F = [q \in Peers |-> F[q]]
  BY <1>11 DEF Macq
<1>13. \A q \in Peers : F[q] = SentTo(q, done'[n]) \o Waiting(out'[n][q])
  BY <1>9, <1>10, <1>11
<1>14. Macq(n)' = F
  BY <1>12, <1>13, MacqIs, Zenon
<1> QED BY <1>11, <1>14
-----------------------------------------------------------------------------
(* Each step of a node is one of Sixp.                                     *)
Sim(n) == [SixpOf(n)!Next]_(SixpOf(n)!vars)

(* No node starts a CLEAR, and a node sends no more than it has room to    *)
(* report.                                                                 *)
RunOK(n) == T(n).cmd # "CLEAR" /\ Len(done[n]) <= RingCap
SimInv == IInv /\ \A n \in Peers : RunOK(n)

Elsewhere(n) ==
  \A m \in Peers : m # n => /\ blk'[m] = blk[m] /\ nbr'[m] = nbr[m]
                            /\ out'[m] = out[m] /\ done'[m] = done[m]

LEMMA Stutters ==
  ASSUME NEW n \in Peers, blk'[n] = blk[n], nbr'[n] = nbr[n], Macq(n)' = Macq(n)
  PROVE  Sim(n)
BY DEF Sim, SixpOf!vars

LEMMA ByRequest ==
  ASSUME NEW n \in Peers, NEW p \in Peers, NEW c \in Cmds, SixpOf(n)!Request(p, c, 2)
  PROVE  Sim(n)
BY DEF Sim, SixpOf!Next

LEMMA ByInput ==
  ASSUME NEW n \in Peers, NEW p \in Peers, NEW k \in SeqNos, NEW c \in Cmds,
         SixpOf(n)!InputRequest(p, k, c, 2)
  PROVE  Sim(n)
BY DEF Sim, SixpOf!Next, SixpOf!SeqNos, SeqNos

LEMMA ByResponse ==
  ASSUME NEW n \in Peers, NEW b \in Blocks, NEW k \in SeqNos, SixpOf(n)!InputResponse(b, k)
  PROVE  Sim(n)
BY DEF Sim, SixpOf!Next, SixpOf!SeqNos, SeqNos

LEMMA ByDone ==
  ASSUME NEW n \in Peers, NEW p \in Peers, NEW ok \in BOOLEAN, SixpOf(n)!MacDone(p, ok)
  PROVE  Sim(n)
BY DEF Sim, SixpOf!Next

LEMMA ByTimeout ==
  ASSUME NEW n \in Peers, NEW b \in Blocks, SixpOf(n)!Timeout(b)
  PROVE  Sim(n)
BY DEF Sim, SixpOf!Next

LEMMA ByProcess ==
  ASSUME NEW n \in Peers, NEW b \in Blocks, SixpOf(n)!ProcessTrans(b)
  PROVE  Sim(n)
BY DEF Sim, SixpOf!Next

(* A node that has no part in a step stutters.                             *)
LEMMA OthersStutter ==
  ASSUME SimInv, NEW n \in Peers, Elsewhere(n)
  PROVE  \A m \in Peers : m # n => Sim(m) /\ RunOK(m)'
<1> SUFFICES ASSUME NEW m \in Peers, m # n PROVE Sim(m) /\ RunOK(m)'
  OBVIOUS
<1>1. blk'[m] = blk[m] /\ nbr'[m] = nbr[m] /\ out'[m] = out[m] /\ done'[m] = done[m]
  BY DEF Elsewhere
<1>2. Sim(m)
  BY <1>1, MacqKept, Stutters
<1>3. RunOK(m)'
  BY <1>1 DEF SimInv, RunOK, T
<1> QED BY <1>2, <1>3

(* Where TSCH takes one more frame, so does the MAC of Sixp.               *)
LEMMA RoomLeft ==
  ASSUME TypeOK, NEW n \in Peers, NEW p \in Peers, Len(done[n]) <= RingCap,
         Len(out[n][p]) < QueueCap
  PROVE  Len(Macq(n)[p]) < QueueCap + RingCap
<1>1. PICK a, b, c : a = Len(Macq(n)[p]) /\ b = Len(done[n]) /\ c = Len(out[n][p])
  OBVIOUS
<1>2. a <= b + c /\ a \in Nat
  BY <1>1, MacqAt, LenProperties
<1>3. b \in Nat /\ c \in Nat
  BY <1>1, QueueTypes, LenProperties
<1>4. QueueCap \in Nat /\ RingCap \in Nat
  BY SfsbNetAssumption
<1>5. b <= RingCap /\ c < QueueCap
  BY <1>1
<1>6. a < QueueCap + RingCap
  BY <1>2, <1>3, <1>4, <1>5
<1> QED BY <1>1, <1>6

(* A frame handed to the MAC.                                              *)
LEMMA HandSim ==
  ASSUME TypeOK, NEW n \in Peers, NEW p \in Peers, NEW b \in Blocks, NEW t \in Trans,
         NEW pkt \in Contents, Len(done[n]) <= RingCap, done' = done,
         HandOver(n, p, b, t, pkt)
  PROVE  SixpOf(n)!Hand(p, b, pkt.kind, t)
<1>1. CASE Len(out[n][p]) < QueueCap
  <2>1. PICK f \in Queued : f = [pkt |-> pkt, block |-> b]
    BY DEF Queued, MaybeBlocks
  <2>2. out' = [out EXCEPT ![n][p] = Append(@, f)] /\ blk' = [blk EXCEPT ![n][b] = t]
    BY <1>1, <2>1 DEF HandOver
  <2>3. Wait(f) = [kind |-> pkt.kind, slot |-> b, live |-> TRUE]
    BY <2>1, SfsbNetAssumption DEF Wait, Frame
  <2>4. Macq(n)' = [Macq(n) EXCEPT ![p] = Append(@, Wait(f))]
    BY <2>2, MacqAppended
  <2>5. blk'[n] = [blk[n] EXCEPT ![b] = t]
    BY <2>2 DEF TypeOK
  <2>6. Len(Macq(n)[p]) < QueueCap + RingCap
    BY <1>1, RoomLeft
  <2> QED BY <2>3, <2>4, <2>5, <2>6 DEF SixpOf!Hand
<1>2. CASE ~(Len(out[n][p]) < QueueCap)
  <2>1. out' = out /\ blk' = [blk EXCEPT ![n][b] = Reported(t, FALSE)]
    BY <1>2 DEF HandOver
  <2>2. Macq(n)' = Macq(n)
    BY <2>1, MacqKept
  <2>3. blk'[n] = [blk[n] EXCEPT ![b] = Reported(t, FALSE)]
    BY <2>1 DEF TypeOK
  <2>4. SixpOf(n)!Reported(t, FALSE) = Reported(t, FALSE)
    BY DEF SixpOf!Reported, Reported, SixpOf!Moved, Moved
  <2> QED BY <2>2, <2>3, <2>4 DEF SixpOf!Hand
<1> QED BY <1>1, <1>2

LEMMA HandErrorSim ==
  ASSUME TypeOK, NEW n \in Peers, NEW p \in Peers, NEW c \in Cmds, NEW k \in SeqNos,
         Len(done[n]) <= RingCap, done' = done, HandError(n, p, c, k)
  PROVE  SixpOf(n)!HandError(p)
<1>1. CASE Len(out[n][p]) < QueueCap
  <2>1. PICK f \in Queued : f = [pkt |-> Pkt("ERROR", c, k, {}), block |-> NoBlock]
    BY PktType DEF Queued, MaybeBlocks
  <2>2. out' = [out EXCEPT ![n][p] = Append(@, f)]
    BY <1>1, <2>1 DEF HandError
  <2>3. Wait(f) = [kind |-> "ERROR", slot |-> NoBlock, live |-> FALSE]
    BY <2>1 DEF Wait, Frame, Pkt
  <2>4. Macq(n)' = [Macq(n) EXCEPT ![p] = Append(@, Wait(f))]
    BY <2>2, MacqAppended
  <2>5. Len(Macq(n)[p]) < QueueCap + RingCap
    BY <1>1, RoomLeft
  <2> QED BY <2>3, <2>4, <2>5 DEF SixpOf!HandError
<1>2. CASE ~(Len(out[n][p]) < QueueCap)
  <2>1. out' = out
    BY <1>2 DEF HandError
  <2>2. Macq(n)' = Macq(n)
    BY <2>1, MacqKept
  <2> QED BY <2>2 DEF SixpOf!HandError
<1> QED BY <1>1, <1>2

(* What Sixp does to a transaction is what SfsbNet does to it.             *)
LEMMA SameMoves ==
  ASSUME NEW n \in Peers
  PROVE  /\ \A t, new : SixpOf(n)!Moved(t, new) = Moved(t, new)
         /\ \A t, new : SixpOf(n)!MovedOrEnded(t, new) = MovedOrEnded(t, new)
         /\ \A t, ok : SixpOf(n)!Reported(t, ok) = Reported(t, ok)
         /\ \A t, ok, k : SixpOf(n)!SeqnoReported(t, ok, k) = SeqnoReported(t, ok, k)
         /\ \A t : SixpOf(n)!Over(t) <=> Over(t)
         /\ \A p, k, c, m : SixpOf(n)!NewTrans(p, k, c, m) = NewTrans(p, k, c, m)
         /\ \A cb : SixpOf(n)!FreeTrans(cb) = FreeTrans(cb)
         /\ \A c : SixpOf(n)!Modes(c) = Modes(c)
<1>1. \A t, new : SixpOf(n)!Moved(t, new) = Moved(t, new)
  BY DEF SixpOf!Moved, Moved
<1>2. \A t, new : SixpOf(n)!Legal(t, new) <=> Legal(t, new)
  BY DEF SixpOf!Legal, Legal
<1>3. \A t, new : SixpOf(n)!MovedOrEnded(t, new) = MovedOrEnded(t, new)
  BY <1>1, <1>2 DEF SixpOf!MovedOrEnded, MovedOrEnded
<1>4. \A t : SixpOf(n)!AckedState(t) = AckedState(t)
  <2> SUFFICES ASSUME NEW t PROVE SixpOf(n)!AckedState(t) = AckedState(t)
    OBVIOUS
  <2>1. CASE t.state = "INIT"
    BY <2>1 DEF SixpOf!AckedState, AckedState
  <2>2. CASE t.state = "REQUEST_RECEIVED"
    BY <2>2 DEF SixpOf!AckedState, AckedState
  <2>3. CASE t.state = "RESPONSE_RECEIVED"
    BY <2>3 DEF SixpOf!AckedState, AckedState
  <2>4. CASE t.state \notin {"INIT", "REQUEST_RECEIVED", "RESPONSE_RECEIVED"}
    BY <2>4 DEF SixpOf!AckedState, AckedState
  <2> QED BY <2>1, <2>2, <2>3, <2>4
<1>5. \A t, ok : SixpOf(n)!Reported(t, ok) = Reported(t, ok)
  <2> SUFFICES ASSUME NEW t, NEW ok PROVE SixpOf(n)!Reported(t, ok) = Reported(t, ok)
    OBVIOUS
  <2>1. PICK a : a = AckedState(t) /\ a = SixpOf(n)!AckedState(t)
    BY <1>4
  <2>2. PICK cb : cb = (t.cb /\ ~Legal(t, a))
    OBVIOUS
  <2>3. cb = (t.cb /\ ~SixpOf(n)!Legal(t, a))
    BY <1>2, <2>2
  <2>4. CASE ok
    <3>1. Reported(t, ok) = IF a = t.state THEN t ELSE [MovedOrEnded(t, a) EXCEPT !.cb = cb]
      BY <2>1, <2>2, <2>4 DEF Reported
    <3>2. SixpOf(n)!Reported(t, ok) =
            IF a = t.state THEN t ELSE [SixpOf(n)!MovedOrEnded(t, a) EXCEPT !.cb = cb]
      BY <2>1, <2>3, <2>4 DEF SixpOf!Reported
    <3> QED BY <1>3, <3>1, <3>2
  <2>5. CASE ~ok
    BY <1>1, <2>5 DEF SixpOf!Reported, Reported
  <2> QED BY <2>4, <2>5
<1>6. \A t, new, k : SixpOf(n)!SeqnoMoved(t, new, k) = SeqnoMoved(t, new, k)
  BY DEF SixpOf!SeqnoMoved, SeqnoMoved, SixpOf!NextSeqno, NextSeqno
<1>7. \A t, ok, k : SixpOf(n)!SeqnoReported(t, ok, k) = SeqnoReported(t, ok, k)
  BY <1>2, <1>4, <1>6 DEF SixpOf!SeqnoReported, SeqnoReported
<1>8. \A t : SixpOf(n)!Over(t) <=> Over(t)
  BY DEF SixpOf!Over, Over
<1>9. \A p, k, c, m : SixpOf(n)!NewTrans(p, k, c, m) = NewTrans(p, k, c, m)
  BY DEF SixpOf!NewTrans, NewTrans
<1>10. \A cb : SixpOf(n)!FreeTrans(cb) = FreeTrans(cb)
  BY DEF SixpOf!FreeTrans, FreeTrans
<1>11. \A c : SixpOf(n)!Modes(c) = Modes(c)
  BY DEF SixpOf!Modes, Modes
<1> QED BY <1>1, <1>3, <1>5, <1>7, <1>8, <1>9, <1>10, <1>11

(* A transaction handed over stays the node's, and no other node is        *)
(* disturbed.                                                              *)
LEMMA HandedOver ==
  ASSUME OneBlock, TypeOK, NEW n \in Peers, NEW p \in Peers, NEW b \in Blocks, NEW t \in Trans,
         NEW pkt, HandOver(n, p, b, t, pkt)
  PROVE  /\ T(n)'.cmd = t.cmd
         /\ \A m \in Peers : m # n => blk'[m] = blk[m] /\ out'[m] = out[m]
<1>1. b = Block
  BY TheBlock
<1>2. CASE Len(out[n][p]) < QueueCap
  BY <1>1, <1>2, BlockSet DEF HandOver, TypeOK
<1>3. CASE ~(Len(out[n][p]) < QueueCap)
  <2>1. blk' = [blk EXCEPT ![n][Block] = Reported(t, FALSE)] /\ out' = out
    BY <1>1, <1>3 DEF HandOver
  <2>2. Reported(t, FALSE).cmd = t.cmd
    BY ReportedFields
  <2> QED BY <2>1, <2>2, BlockSet
<1> QED BY <1>2, <1>3

Steady(n) == Sim(n) /\ RunOK(n)' /\ Elsewhere(n)

LEMMA OutputSim ==
  ASSUME OneBlock, SimInv, NEW n \in Peers, NEW p \in Peers, NEW c \in Cmds, c # "CLEAR",
         NEW cells \in SUBSET Timeslots, ~Busy(n, p), Output(n, p, c, cells),
         UNCHANGED <<cell, res, rx, done>>
  PROVE  Steady(n)
<1>1. TypeOK /\ RunOK(n) /\ Len(done[n]) <= RingCap
  BY DEF SimInv, IInv, RunOK
<1>2. PICK k \in SeqNos : k = IF nbr[n][p] = NoNbr THEN 0 ELSE nbr[n][p]
  BY <1>1, ZeroSeqno DEF TypeOK
<1>3. nbr' = [nbr EXCEPT ![n][p] = k]
  BY <1>2 DEF Output
<1>4. nbr'[n] = [nbr[n] EXCEPT ![p] = k] /\ \A m \in Peers : m # n => nbr'[m] = nbr[m]
  BY <1>1, <1>3 DEF TypeOK
<1>5. PICK t \in Trans : t = [NewTrans(p, k, c, 2) EXCEPT !.cb = (c = "SIGNAL")] /\ t.cmd = c
  <2>1. PICK cb \in BOOLEAN : cb = (c = "SIGNAL")
    OBVIOUS
  <2>2. PICK u : u = NewTrans(p, k, c, 2)
    OBVIOUS
  <2>3. u \in Trans /\ u.cmd = c
    BY <2>2 DEF NewTrans, Trans, States, Timers
  <2>4. PICK t : t = [u EXCEPT !.cb = cb]
    OBVIOUS
  <2>5. t \in Trans /\ t.cmd = c
    BY <2>1, <2>3, <2>4, CallbackFields
  <2> QED BY <2>1, <2>2, <2>4, <2>5
<1>6. ~SixpOf(n)!Busy(p) /\ 2 \in SixpOf(n)!Modes(c)
  BY DEF Busy, SixpOf!Busy, SixpOf!Modes
<1>7. CASE Full(n) /\ UNCHANGED <<blk, out>>
  <2>1. blk'[n] = blk[n] /\ Macq(n)' = Macq(n)
    BY <1>7, MacqKept
  <2>2. \A b \in Blocks : SixpOf(n)!Used(b)
    BY <1>7 DEF Full, Used, SixpOf!Used
  <2>3. SixpOf(n)!Request(p, c, 2)
    BY <1>2, <1>4, <1>6, <2>1, <2>2 DEF SixpOf!Request
  <2>4. RunOK(n)'
    BY <1>1, <1>7 DEF RunOK, T
  <2>5. Elsewhere(n)
    BY <1>4, <1>7 DEF Elsewhere
  <2> QED BY <2>3, <2>4, <2>5, ByRequest DEF Steady
<1>8. CASE \E b \in Blocks :
             FirstFree(n, b) /\ HandOver(n, p, b, t, Pkt("REQUEST", c, k, cells))
  <2>1. PICK b \in Blocks :
             FirstFree(n, b) /\ HandOver(n, p, b, t, Pkt("REQUEST", c, k, cells))
    BY <1>8
  <2>2. PICK pkt \in Contents : pkt = Pkt("REQUEST", c, k, cells) /\ pkt.kind = "REQUEST"
    BY PktType DEF Pkt
  <2>3. SixpOf(n)!Hand(p, b, "REQUEST", t)
    BY <1>1, <2>1, <2>2, HandSim
  <2>4. ~SixpOf(n)!Used(b)
    BY <2>1 DEF FirstFree, Used, SixpOf!Used
  <2>5. t = [SixpOf(n)!NewTrans(p, k, c, 2) EXCEPT !.cb = (c = "SIGNAL")]
    BY <1>5, SameMoves
  <2>6. SixpOf(n)!Request(p, c, 2)
    BY <1>2, <1>4, <1>6, <2>3, <2>4, <2>5 DEF SixpOf!Request
  <2>7. /\ T(n)'.cmd = c
        /\ \A m \in Peers : m # n => blk'[m] = blk[m] /\ out'[m] = out[m]
    BY <1>1, <1>5, <2>1, HandedOver
  <2>8. RunOK(n)'
    BY <1>1, <2>7 DEF RunOK
  <2>9. Elsewhere(n)
    BY <1>4, <2>7 DEF Elsewhere
  <2> QED BY <2>6, <2>8, <2>9, ByRequest DEF Steady
<1>9. (Full(n) /\ UNCHANGED <<blk, out>>) \/
      \E b \in Blocks : FirstFree(n, b) /\ HandOver(n, p, b, t, Pkt("REQUEST", c, k, cells))
  BY <1>2, <1>5 DEF Output
<1> QED BY <1>7, <1>8, <1>9

(* An error leaves the other nodes alone.                                  *)
LEMMA ErrorOut ==
  ASSUME TypeOK, NEW n \in Peers, NEW p \in Peers, NEW c, NEW k, HandError(n, p, c, k)
  PROVE  \A m \in Peers : m # n => out'[m] = out[m]
BY DEF HandError, TypeOK

(* The request that a node takes from its ring.                            *)
LEMMA TakenRequest ==
  ASSUME SimInv, NEW n \in Peers, ReceiveRequest(n)
  PROVE  LET r == Head(rx[n])
         IN /\ r.src \in Peers /\ r.pkt \in Contents
            /\ r.pkt.seqno \in SeqNos /\ r.pkt.cmd \in Cmds /\ r.pkt.cells \in SUBSET Timeslots
            /\ r.pkt.cmd # "CLEAR"
<1>1. TypeOK /\ NodeOK(n) /\ rx[n] # <<>> /\ rx[n] \in Seq(Received)
  BY QueueTypes DEF SimInv, IInv, ReceiveRequest
<1>2. PICK r : r = Head(rx[n])
  OBVIOUS
<1>3. r \in Received /\ r \in Range(rx[n]) /\ r.pkt.kind = "REQUEST"
  <2>1. r \in Received /\ r \in Range(rx[n])
    BY <1>1, <1>2, HeadTaken, TailRange
  <2> QED BY <1>2, <2>1 DEF ReceiveRequest
<1>4. r.src \in Peers /\ r.pkt \in Contents
  BY <1>3 DEF Received
<1>5. r.pkt.seqno \in SeqNos /\ r.pkt.cmd \in Cmds /\ r.pkt.cells \in SUBSET Timeslots
  BY <1>4 DEF Contents
<1>6. InputOK(n, r)
  BY <1>1, <1>3 DEF NodeOK, RxOK
<1>7. T(r.src).cmd = r.pkt.cmd
  BY <1>3, <1>6 DEF InputOK, Matches
<1>8. r.pkt.cmd # "CLEAR"
  BY <1>4, <1>7 DEF SimInv, RunOK
<1> QED BY <1>2, <1>4, <1>5, <1>8

(* A request that is refused: BUSY.                                        *)
LEMMA RefusedSim ==
  ASSUME OneBlock, SimInv, NEW n \in Peers, NEW p \in Peers, NEW k \in SeqNos, NEW c \in Cmds,
         c # "CLEAR", Busy(n, p) \/ Full(n), HandError(n, p, c, k),
         UNCHANGED <<blk, nbr, done>>
  PROVE  Steady(n)
<1>1. TypeOK /\ RunOK(n) /\ Len(done[n]) <= RingCap
  BY DEF SimInv, IInv, RunOK
<1>2. SixpOf(n)!HandError(p)
  BY <1>1, HandErrorSim
<1>3. blk'[n] = blk[n] /\ nbr'[n] = nbr[n]
  OBVIOUS
<1>4. nbr'[n] = [nbr[n] EXCEPT ![p] = nbr[n][p]]
  BY <1>1 DEF TypeOK
<1>5. 2 \in SixpOf(n)!Modes(c)
  BY DEF SixpOf!Modes
<1>6. SixpOf(n)!Busy(p) <=> Busy(n, p)
  BY DEF SixpOf!Busy, Busy
<1>7. Full(n) => \A b \in Blocks : SixpOf(n)!Used(b)
  BY DEF Full, Used, SixpOf!Used
<1>8. SixpOf(n)!InputRequest(p, k, c, 2)
  <2>1. CASE Busy(n, p)
    BY <1>2, <1>3, <1>5, <1>6, <2>1 DEF SixpOf!InputRequest
  <2>2. CASE ~Busy(n, p)
    BY <1>2, <1>3, <1>4, <1>5, <1>6, <1>7, <2>2 DEF SixpOf!InputRequest
  <2> QED BY <2>1, <2>2
<1>9. RunOK(n)'
  BY <1>1 DEF RunOK, T
<1>10. Elsewhere(n)
  BY <1>1, ErrorOut DEF Elsewhere
<1> QED BY <1>8, <1>9, <1>10, ByInput DEF Steady

(* A new transaction t for a request that is not refused.                  *)
LEMMA AcceptedSim ==
  ASSUME OneBlock, SimInv, NEW n \in Peers, NEW p \in Peers, NEW k \in SeqNos, NEW c \in Cmds,
         c # "CLEAR", ~Busy(n, p), NEW b \in Blocks, ~Used(n, b), NEW t \in Trans,
         t = Moved(NewTrans(p, k, c, 2), "REQUEST_RECEIVED"),
         IF Inconsistent(n, p, k)
         THEN /\ SixpOf(n)!HandError(p)
              /\ blk'[n] = [blk[n] EXCEPT ![b] = t] /\ nbr'[n] = nbr[n]
         ELSE SixpOf(n)!Answer(p, b, t, nbr[n][p])
  PROVE  Sim(n)
<1>1. t = SixpOf(n)!Moved(SixpOf(n)!NewTrans(p, k, c, 2), "REQUEST_RECEIVED")
  BY SameMoves
<1>2. ~SixpOf(n)!Busy(p) /\ ~SixpOf(n)!Used(b) /\ 2 \in SixpOf(n)!Modes(c)
  BY DEF SixpOf!Busy, Busy, SixpOf!Used, Used, SixpOf!Modes
<1>3. SixpOf(n)!Inconsistent(p, c, k) <=> Inconsistent(n, p, k)
  BY DEF SixpOf!Inconsistent, Inconsistent
<1>4. SixpOf(n)!InputRequest(p, k, c, 2)
  <2>1. CASE Inconsistent(n, p, k)
    BY <1>1, <1>2, <1>3, <2>1 DEF SixpOf!InputRequest
  <2>2. CASE ~Inconsistent(n, p, k)
    BY <1>1, <1>2, <1>3, <2>2 DEF SixpOf!InputRequest
  <2> QED BY <2>1, <2>2
<1> QED BY <1>4, ByInput

(* The transaction of a request, before and after it is answered.          *)
LEMMA NewTransaction ==
  ASSUME NEW p \in Peers, NEW k \in SeqNos, NEW c \in Cmds
  PROVE  LET t == Moved(NewTrans(p, k, c, 2), "REQUEST_RECEIVED")
         IN /\ t \in Trans /\ t.cmd = c
            /\ [t EXCEPT !.cb = TRUE] \in Trans /\ [t EXCEPT !.cb = TRUE].cmd = c
<1>1. PICK u : u = NewTrans(p, k, c, 2)
  OBVIOUS
<1>2. u \in Trans /\ u.cmd = c
  BY <1>1 DEF NewTrans, Trans, States, Timers
<1>3. PICK t : t = Moved(u, "REQUEST_RECEIVED")
  OBVIOUS
<1>4. t \in Trans /\ t.cmd = c
  BY <1>2, <1>3, MovedFields DEF States
<1>5. [t EXCEPT !.cb = TRUE] \in Trans /\ [t EXCEPT !.cb = TRUE].cmd = c
  BY <1>4, CallbackFields
<1> QED BY <1>1, <1>3, <1>4, <1>5

(* An ADD: the answer, if there are cells enough, or none.                 *)
LEMMA AddSim ==
  ASSUME OneBlock, SimInv, NEW n \in Peers, NEW p \in Peers, NEW k \in SeqNos,
         NEW b \in Blocks, NEW t \in Trans, t.cmd = "ADD", t.seqno = k, "ADD" \in Cmds,
         NEW offered \in SUBSET Timeslots, UNCHANGED done,
         AddReqInput(n, p, b, t, offered),
         [t EXCEPT !.cb = TRUE] \in Trans, [t EXCEPT !.cb = TRUE].cmd = "ADD"
  PROVE  SixpOf(n)!Answer(p, b, t, nbr[n][p]) /\ RunOK(n)' /\ Elsewhere(n)
<1>1. TypeOK /\ RunOK(n) /\ Len(done[n]) <= RingCap
  BY DEF SimInv, IInv, RunOK
<1>2. PICK cells \in SUBSET (offered \cap FreeSlots(n)) :
        IF Cardinality(cells) = NumCells
        THEN /\ nbr' = [nbr EXCEPT ![n][p] = IF @ = NoNbr THEN 0 ELSE @]
             /\ HandOver(n, p, b, [t EXCEPT !.cb = TRUE], Pkt("RESPONSE", "ADD", k, cells))
        ELSE /\ blk' = [blk EXCEPT ![n][b] = t]
             /\ UNCHANGED <<nbr, out>>
  BY DEF AddReqInput
<1>3. cells \in SUBSET Timeslots
  OBVIOUS
<1>4. CASE Cardinality(cells) = NumCells
  <2>1. PICK u \in Trans : u = [t EXCEPT !.cb = TRUE] /\ u.cmd = "ADD"
    OBVIOUS
  <2>2. PICK pkt \in Contents : pkt = Pkt("RESPONSE", "ADD", k, cells) /\ pkt.kind = "RESPONSE"
    BY <1>3, PktType DEF Pkt
  <2>3. /\ HandOver(n, p, b, u, pkt)
        /\ nbr' = [nbr EXCEPT ![n][p] = IF @ = NoNbr THEN 0 ELSE @]
    BY <1>2, <1>4, <2>1, <2>2
  <2>4. SixpOf(n)!Hand(p, b, "RESPONSE", u)
    BY <1>1, <2>2, <2>3, HandSim
  <2>5. nbr'[n] = [nbr[n] EXCEPT ![p] = IF nbr[n][p] = NoNbr THEN 0 ELSE nbr[n][p]]
    BY <1>1, <2>3 DEF TypeOK
  <2>6. nbr'[n] = [nbr[n] EXCEPT ![p] =
          IF nbr[n][p] = NoNbr /\ TRUE /\ t.cmd \in {"ADD", "DELETE"} THEN 0 ELSE nbr[n][p]]
    BY <2>5
  <2>7. SixpOf(n)!Answer(p, b, t, nbr[n][p])
    BY <2>1, <2>4, <2>6 DEF SixpOf!Answer
  <2>8. /\ T(n)'.cmd = "ADD"
        /\ \A m \in Peers : m # n => blk'[m] = blk[m] /\ out'[m] = out[m]
    BY <1>1, <2>1, <2>3, HandedOver
  <2>9. RunOK(n)'
    BY <1>1, <2>8 DEF RunOK
  <2>10. Elsewhere(n)
    BY <1>1, <2>3, <2>8 DEF Elsewhere, TypeOK
  <2> QED BY <2>7, <2>9, <2>10
<1>5. CASE Cardinality(cells) # NumCells
  <2>1. blk' = [blk EXCEPT ![n][b] = t] /\ nbr' = nbr /\ out' = out
    BY <1>2, <1>5
  <2>2. b = Block
    BY TheBlock
  <2>3. /\ T(n)'.cmd = "ADD" /\ blk'[n] = [blk[n] EXCEPT ![b] = t]
        /\ \A m \in Peers : m # n => blk'[m] = blk[m]
    BY <1>1, <2>1, <2>2, BlockSet DEF TypeOK
  <2>4. Macq(n)' = Macq(n) /\ nbr'[n] = [nbr[n] EXCEPT ![p] = nbr[n][p]]
    BY <1>1, <2>1, MacqKept DEF TypeOK
  <2>5. SixpOf(n)!Answer(p, b, t, nbr[n][p])
    BY <2>3, <2>4 DEF SixpOf!Answer
  <2>6. RunOK(n)'
    BY <1>1, <2>3 DEF RunOK
  <2>7. Elsewhere(n)
    BY <2>1, <2>3 DEF Elsewhere
  <2> QED BY <2>5, <2>6, <2>7
<1> QED BY <1>4, <1>5

(* A SIGNAL.                                                               *)
LEMMA SilentSim ==
  ASSUME OneBlock, SimInv, NEW n \in Peers, NEW p \in Peers, NEW b \in Blocks, NEW t \in Trans,
         t.cmd # "CLEAR", UNCHANGED done, SignalReqInput(n, b, t)
  PROVE  SixpOf(n)!Answer(p, b, t, nbr[n][p]) /\ RunOK(n)' /\ Elsewhere(n)
<1>1. TypeOK /\ RunOK(n)
  BY DEF SimInv, IInv
<1>2. blk' = [blk EXCEPT ![n][b] = t] /\ nbr' = nbr /\ out' = out /\ b = Block
  BY TheBlock DEF SignalReqInput
<1>3. /\ T(n)' = t /\ blk'[n] = [blk[n] EXCEPT ![b] = t]
      /\ \A m \in Peers : m # n => blk'[m] = blk[m]
  BY <1>1, <1>2, BlockSet DEF TypeOK
<1>4. Macq(n)' = Macq(n) /\ nbr'[n] = [nbr[n] EXCEPT ![p] = nbr[n][p]]
  BY <1>1, <1>2, MacqKept DEF TypeOK
<1>5. SixpOf(n)!Answer(p, b, t, nbr[n][p])
  BY <1>3, <1>4 DEF SixpOf!Answer
<1>6. RunOK(n)'
  BY <1>1, <1>3 DEF RunOK
<1>7. Elsewhere(n)
  BY <1>2, <1>3 DEF Elsewhere
<1> QED BY <1>5, <1>6, <1>7

LEMMA RequestSim ==
  ASSUME OneBlock, SimInv, NEW n \in Peers, ReceiveRequest(n)
  PROVE  Steady(n)
<1>1. TypeOK /\ RunOK(n) /\ Len(done[n]) <= RingCap
  BY DEF SimInv, IInv, RunOK
<1>2. PICK p, k, c, offered :
        /\ p = Head(rx[n]).src /\ k = Head(rx[n]).pkt.seqno /\ c = Head(rx[n]).pkt.cmd
        /\ offered = Head(rx[n]).pkt.cells
  OBVIOUS
<1>3. /\ p \in Peers /\ k \in SeqNos /\ c \in Cmds /\ offered \in SUBSET Timeslots
      /\ c # "CLEAR"
  BY <1>2, TakenRequest
<1>4. done' = done
  BY DEF ReceiveRequest
<1>5. CASE Busy(n, p) \/ Full(n)
  <2>1. HandError(n, p, c, k) /\ UNCHANGED <<blk, nbr, done>>
    BY <1>2, <1>5 DEF ReceiveRequest
  <2> QED BY <1>3, <1>5, <2>1, RefusedSim
<1>6. CASE ~(Busy(n, p) \/ Full(n))
  <2>0. PICK t : t = Moved(NewTrans(p, k, c, 2), "REQUEST_RECEIVED")
    OBVIOUS
  <2>1. PICK b \in Blocks :
          /\ t = Moved(NewTrans(p, k, c, 2), "REQUEST_RECEIVED") /\ FirstFree(n, b)
          /\ IF Inconsistent(n, p, k)
             THEN /\ blk' = [blk EXCEPT ![n][b] = t]
                  /\ HandError(n, p, c, IF nbr[n][p] = NoNbr THEN 0 ELSE nbr[n][p])
                  /\ UNCHANGED <<nbr, res>>
             ELSE IF c = "ADD" THEN AddReqInput(n, p, b, t, offered)
                  ELSE SignalReqInput(n, b, t)
    BY <1>2, <1>6, <2>0 DEF ReceiveRequest
  <2>2. ~Used(n, b) /\ ~Busy(n, p)
    BY <1>6, <2>1 DEF FirstFree
  <2>3. /\ t \in Trans /\ t.cmd = c
        /\ [t EXCEPT !.cb = TRUE] \in Trans /\ [t EXCEPT !.cb = TRUE].cmd = c
    BY <1>3, <2>1, NewTransaction
  <2>4. CASE Inconsistent(n, p, k)
    <3>1. PICK j \in SeqNos : j = IF nbr[n][p] = NoNbr THEN 0 ELSE nbr[n][p]
      BY <1>1, <1>3, ZeroSeqno DEF TypeOK
    <3>2. HandError(n, p, c, j) /\ blk' = [blk EXCEPT ![n][b] = t] /\ nbr' = nbr /\ b = Block
      BY <2>1, <2>4, <3>1, TheBlock
    <3>3. SixpOf(n)!HandError(p)
      BY <1>1, <1>3, <1>4, <3>2, HandErrorSim
    <3>4. /\ T(n)' = t /\ blk'[n] = [blk[n] EXCEPT ![b] = t] /\ nbr'[n] = nbr[n]
          /\ \A m \in Peers : m # n => blk'[m] = blk[m]
      BY <1>1, <3>2, BlockSet DEF TypeOK
    <3>5. Sim(n)
      BY <1>3, <2>1, <2>2, <2>3, <2>4, <3>3, <3>4, AcceptedSim
    <3>6. RunOK(n)'
      BY <1>1, <1>3, <1>4, <2>3, <3>4 DEF RunOK
    <3>7. Elsewhere(n)
      BY <1>1, <1>3, <1>4, <3>2, <3>4, ErrorOut DEF Elsewhere
    <3> QED BY <3>5, <3>6, <3>7 DEF Steady
  <2>5. CASE ~Inconsistent(n, p, k)
    <3>1. SixpOf(n)!Answer(p, b, t, nbr[n][p]) /\ RunOK(n)' /\ Elsewhere(n)
      <4>1. CASE c = "ADD"
        <5>1. AddReqInput(n, p, b, t, offered) /\ t.seqno = k
          BY <2>1, <2>5, <4>1 DEF Moved, NewTrans
        <5> QED BY <1>3, <1>4, <2>3, <4>1, <5>1, AddSim
      <4>2. CASE c # "ADD"
        BY <1>3, <1>4, <2>1, <2>3, <2>5, <4>2, SilentSim
      <4> QED BY <4>1, <4>2
    <3>2. Sim(n)
      BY <1>3, <2>1, <2>2, <2>3, <2>5, <3>1, AcceptedSim
    <3> QED BY <3>1, <3>2 DEF Steady
  <2> QED BY <2>4, <2>5
<1> QED BY <1>5, <1>6

LEMMA ResponseSim ==
  ASSUME OneBlock, SimInv, NEW n \in Peers, ReceiveResponse(n)
  PROVE  Steady(n)
<1>1. TypeOK /\ RunOK(n)
  BY DEF SimInv, IInv
<1>2. PICK p, k, t :
        p = Head(rx[n]).src /\ k = Head(rx[n]).pkt.seqno /\ t = T(n)
  OBVIOUS
<1>3. p \in Peers /\ k \in SeqNos /\ t \in Trans
  <2>1. rx[n] # <<>> /\ rx[n] \in Seq(Received)
    BY <1>1, QueueTypes DEF ReceiveResponse
  <2>2. Head(rx[n]) \in Received
    BY <2>1, HeadTaken
  <2> QED BY <1>1, <1>2, <2>2, TheBlock DEF Received, Contents, TypeOK, T
<1>4. PICK u : u = MovedOrEnded(t, "RESPONSE_RECEIVED")
  OBVIOUS
<1>5. u.cmd = t.cmd
  BY <1>3, <1>4, MovedOrEndedFields DEF States
<1>6. /\ blk' = [blk EXCEPT ![n] = [b \in Blocks |->
             IF b \in Mine(n, p, k) THEN MovedOrEnded(@[b], "RESPONSE_RECEIVED") ELSE @[b]]]
      /\ nbr' = nbr /\ out' = out /\ done' = done
  BY <1>2 DEF ReceiveResponse
<1>7. /\ blk'[n] = [b \in Blocks |->
             IF b \in Mine(n, p, k) THEN MovedOrEnded(blk[n][b], "RESPONSE_RECEIVED") ELSE blk[n][b]]
      /\ \A m \in Peers : m # n => blk'[m] = blk[m]
  BY <1>1, <1>6 DEF TypeOK
<1>8. Macq(n)' = Macq(n)
  BY <1>6, MacqKept
<1>9. Elsewhere(n)
  BY <1>6, <1>7 DEF Elsewhere
<1>10. Block \in Blocks /\ (\A b \in Blocks : b = Block) /\ blk[n] \in [Blocks -> Trans]
  BY <1>1, TheBlock DEF TypeOK
<1>11. CASE Block \in Mine(n, p, k)
  <2>1. blk'[n] = [blk[n] EXCEPT ![Block] = u]
    BY <1>2, <1>4, <1>7, <1>10, <1>11 DEF T
  <2>2. SixpOf(n)!MovedOrEnded(blk[n][Block], "RESPONSE_RECEIVED") = u
    BY <1>2, <1>4, SameMoves DEF T
  <2>3. SixpOf(n)!Used(Block) /\ blk[n][Block].seqno = k
    BY <1>3, <1>11, SixpTransAssumption DEF Mine, SixpOf!Used
  <2>4. SixpOf(n)!InputResponse(Block, k)
    BY <1>6, <1>8, <2>1, <2>2, <2>3 DEF SixpOf!InputResponse
  <2>5. RunOK(n)'
    <3>1. T(n)' = u
      BY <1>10, <2>1 DEF T
    <3> QED BY <1>1, <1>2, <1>5, <1>6, <3>1 DEF RunOK
  <2> QED BY <1>3, <1>9, <1>10, <2>4, <2>5, ByResponse DEF Steady
<1>12. CASE Block \notin Mine(n, p, k)
  <2>1. blk'[n] = blk[n]
    BY <1>7, <1>10, <1>12
  <2>2. Sim(n)
    BY <1>6, <1>8, <2>1, Stutters
  <2>3. RunOK(n)'
    BY <1>1, <1>6, <2>1 DEF RunOK, T
  <2> QED BY <1>9, <2>2, <2>3 DEF Steady
<1> QED BY <1>11, <1>12

LEMMA TxDoneSim ==
  ASSUME OneBlock, SimInv, NEW n \in Peers, TxDone(n)
  PROVE  Steady(n)
<1>1. TypeOK /\ RunOK(n) /\ NodeOK(n) /\ Len(done[n]) <= RingCap
  BY DEF SimInv, IInv, RunOK
<1>2. PICK d, p, b, ok : d = Head(done[n]) /\ p = d.to /\ b = d.block /\ ok = d.ok
  OBVIOUS
<1>3. /\ done[n] # <<>> /\ done' = [done EXCEPT ![n] = Tail(@)]
      /\ out' = out
  BY DEF TxDone
<1>4. /\ p \in Peers /\ Macq(n)[p] # <<>> /\ Head(Macq(n)[p]) = Sent(d)
      /\ Macq(n)' = [Macq(n) EXCEPT ![p] = Tail(@)]
  BY <1>1, <1>2, <1>3, MacqReported
<1>5. Sent(d).slot = b
  BY <1>2 DEF Sent, Frame
<1>6. ok \in BOOLEAN /\ b \in MaybeBlocks
  <2>1. done[n] \in Seq(Reports)
    BY <1>1, QueueTypes
  <2>2. d \in Reports
    BY <1>2, <1>3, <2>1, HeadTaken
  <2> QED BY <1>2, <2>2 DEF Reports
<1>7. Len(done'[n]) <= RingCap /\ \A m \in Peers : m # n => done'[m] = done[m]
  <2>1. done[n] \in Seq(Reports) /\ RingCap \in Nat
    BY <1>1, QueueTypes, SfsbNetAssumption
  <2>2. Len(Tail(done[n])) = Len(done[n]) - 1 /\ Len(done[n]) \in Nat
    BY <1>3, <2>1, HeadTaken, LenProperties
  <2>3. done'[n] = Tail(done[n])
    BY <1>1, <1>3 DEF TypeOK
  <2>4. Len(done'[n]) <= RingCap
    BY <1>1, <2>1, <2>2, <2>3
  <2> QED BY <1>1, <1>3, <2>4 DEF TypeOK
<1>8. CASE b = NoBlock
  <2>1. blk' = blk /\ nbr' = nbr
    BY <1>2, <1>8 DEF TxDone
  <2>2. SixpOf(n)!MacDone(p, ok)
    BY <1>4, <1>5, <1>8, <2>1 DEF SixpOf!MacDone
  <2>3. RunOK(n)'
    BY <1>1, <1>7, <2>1 DEF RunOK, T
  <2>4. Elsewhere(n)
    BY <1>3, <1>7, <2>1 DEF Elsewhere
  <2> QED BY <1>4, <1>6, <2>2, <2>3, <2>4, ByDone DEF Steady
<1>9. CASE b # NoBlock
  <2>1. b \in Blocks /\ b = Block
    BY <1>6, <1>9, TheBlock DEF MaybeBlocks
  <2>2. PICK t \in Trans : t = blk[n][b] /\ t = T(n)
    BY <1>1, <2>1 DEF TypeOK, T
  <2>3. PICK u : u = Reported(t, ok) /\ u.cmd = t.cmd
    BY <1>6, ReportedFields
  <2>4. /\ blk' = [blk EXCEPT ![n][b] = u]
        /\ nbr' = [nbr EXCEPT ![n] = [q \in Peers |->
                     IF q = t.peer THEN SeqnoReported(t, ok, @[q]) ELSE @[q]]]
    BY <1>2, <1>9, <2>2, <2>3 DEF TxDone
  <2>5. /\ blk'[n] = [blk[n] EXCEPT ![b] = u]
        /\ nbr'[n] = [q \in Peers |->
                     IF q = t.peer THEN SeqnoReported(t, ok, nbr[n][q]) ELSE nbr[n][q]]
        /\ \A m \in Peers : m # n => blk'[m] = blk[m] /\ nbr'[m] = nbr[m]
    BY <1>1, <2>4 DEF TypeOK
  <2>6. /\ SixpOf(n)!Reported(t, ok) = u
        /\ \A k : SixpOf(n)!SeqnoReported(t, ok, k) = SeqnoReported(t, ok, k)
    BY <2>3, SameMoves
  <2>7. nbr'[n] = [q \in Peers |->
          IF q = t.peer THEN SixpOf(n)!SeqnoReported(t, ok, nbr[n][q]) ELSE nbr[n][q]]
    BY <2>5, <2>6
  <2>8. SixpOf(n)!MacDone(p, ok)
    <3> DEFINE s == Head(Macq(n)[p]).slot
    <3>1. s = b
      BY <1>4, <1>5
    <3> HIDE DEF s
    <3>2. blk'[n] = [blk[n] EXCEPT ![s] = SixpOf(n)!Reported(@, ok)]
      BY <2>2, <2>5, <2>6, <3>1
    <3>3. nbr'[n] = [q \in Peers |->
            IF q = blk[n][s].peer
            THEN SixpOf(n)!SeqnoReported(blk[n][s], ok, nbr[n][q]) ELSE nbr[n][q]]
      <4>1. t = blk[n][s]
        BY <2>2, <3>1
      <4>2. \A q \in Peers :
              (IF q = t.peer THEN SixpOf(n)!SeqnoReported(t, ok, nbr[n][q]) ELSE nbr[n][q])
                = IF q = blk[n][s].peer
                  THEN SixpOf(n)!SeqnoReported(blk[n][s], ok, nbr[n][q]) ELSE nbr[n][q]
        BY <4>1
      <4>3. PICK G : G = [q \in Peers |->
              IF q = blk[n][s].peer
              THEN SixpOf(n)!SeqnoReported(blk[n][s], ok, nbr[n][q]) ELSE nbr[n][q]]
        OBVIOUS
      <4>4. \A q \in Peers : G[q] = nbr'[n][q]
        BY <2>7, <4>2, <4>3
      <4>5. G = [q \in Peers |-> G[q]] /\ nbr'[n] = [q \in Peers |-> nbr'[n][q]]
        BY <2>7, <4>3
      <4>6. nbr'[n] = G
        BY <4>4, <4>5
      <4> QED BY <4>3, <4>6
    <3>4. s # NoBlock
      BY <1>9, <3>1
    <3> QED BY <1>4, <3>2, <3>3, <3>4 DEF s, SixpOf!MacDone
  <2>9. RunOK(n)'
    <3>1. T(n)' = u
      BY <1>1, <2>1, <2>4, BlockSet
    <3> QED BY <1>1, <1>7, <2>2, <2>3, <3>1 DEF RunOK
  <2>10. Elsewhere(n)
    BY <1>3, <1>7, <2>5 DEF Elsewhere
  <2> QED BY <1>4, <1>6, <2>8, <2>9, <2>10, ByDone DEF Steady
<1> QED BY <1>8, <1>9

LEMMA TransmitSim ==
  ASSUME SimInv, NEW n \in Peers, NEW p \in Peers, NEW got \in BOOLEAN, NEW told \in BOOLEAN,
         Transmit(n, p, got, told)
  PROVE  Steady(n)
<1>1. TypeOK /\ RunOK(n)
  BY DEF SimInv, IInv
<1>2. PICK d : d = [to |-> p, kind |-> Head(out[n][p]).pkt.kind,
                    block |-> Head(out[n][p]).block, ok |-> told]
  OBVIOUS
<1>3. /\ blk' = blk /\ nbr' = nbr /\ out[n][p] # <<>> /\ Len(done[n]) < RingCap
      /\ out' = [out EXCEPT ![n][p] = Tail(@)]
      /\ done' = [done EXCEPT ![n] = Append(@, d)]
  BY <1>2 DEF Transmit
<1>4. Sim(n)
  BY <1>1, <1>3, MacqTransmitted, Stutters
<1>5. Elsewhere(n)
  BY <1>1, <1>3 DEF Elsewhere, TypeOK
<1>6. Len(done'[n]) <= RingCap
  <2>1. done[n] \in Seq(Reports) /\ out[n][p] \in Seq(Queued)
    BY <1>1, QueueTypes
  <2>2. Head(out[n][p]) \in Queued
    BY <1>3, <2>1, HeadTaken
  <2>3. d \in Reports
    BY <1>2, <2>2 DEF Queued, Contents, Reports
  <2>4. Len(Append(done[n], d)) = Len(done[n]) + 1 /\ Len(done[n]) \in Nat
    BY <2>1, <2>3, Appended, LenProperties
  <2>5. done'[n] = Append(done[n], d) /\ RingCap \in Nat
    BY <1>1, <1>3, SfsbNetAssumption DEF TypeOK
  <2> QED BY <1>3, <2>4, <2>5
<1>7. RunOK(n)'
  BY <1>1, <1>3, <1>6 DEF RunOK, T
<1> QED BY <1>4, <1>5, <1>7 DEF Steady

LEMMA TimeoutSim ==
  ASSUME OneBlock, SimInv, NEW n \in Peers, NEW b \in Blocks, Timeout(n, b)
  PROVE  Steady(n)
<1>1. TypeOK /\ RunOK(n) /\ b = Block
  BY TheBlock DEF SimInv, IInv
<1>2. PICK t \in Trans : t = blk[n][b] /\ t = T(n)
  BY <1>1 DEF TypeOK, T
<1>3. PICK u : u = Moved(t, "TERMINATING") /\ u.cmd = t.cmd
  BY MovedFields DEF States
<1>4. /\ t.timer = "timeout" /\ blk' = [blk EXCEPT ![n][b] = u]
      /\ nbr' = nbr /\ out' = out /\ done' = done
  BY <1>2, <1>3 DEF Timeout
<1>5. /\ T(n)' = u /\ blk'[n] = [blk[n] EXCEPT ![b] = u]
      /\ \A m \in Peers : m # n => blk'[m] = blk[m]
  BY <1>1, <1>4, BlockSet DEF TypeOK
<1>6. SixpOf(n)!Moved(blk[n][b], "TERMINATING") = u
  BY <1>2, <1>3, SameMoves
<1>7. Macq(n)' = Macq(n)
  BY <1>4, MacqKept
<1>8. SixpOf(n)!Timeout(b)
  BY <1>2, <1>4, <1>5, <1>6, <1>7 DEF SixpOf!Timeout
<1>9. RunOK(n)'
  BY <1>1, <1>2, <1>3, <1>4, <1>5 DEF RunOK
<1>10. Elsewhere(n)
  BY <1>4, <1>5 DEF Elsewhere
<1> QED BY <1>8, <1>9, <1>10, ByTimeout DEF Steady

(* A transaction that is given up has no frame left in the MAC.            *)
LEMMA NoneOrphaned ==
  ASSUME OneBlock, SimInv, NEW n \in Peers, Idle(n), T(n).state = "TERMINATING"
  PROVE  Macq(n) = [p \in Peers |-> SixpOf(n)!Orphaned(Macq(n)[p], Block)]
<1>1. TypeOK /\ NodeOK(n)
  BY DEF SimInv, IInv
<1>2. Macq(n) = [p \in Peers |-> Macq(n)[p]]
  BY DEF Macq
<1>3. ASSUME NEW p \in Peers PROVE SixpOf(n)!Orphaned(Macq(n)[p], Block) = Macq(n)[p]
  <2>1. out[n][p] \in Seq(Queued) /\ done[n] = <<>>
    BY <1>1, QueueTypes DEF Idle
  <2>2. PICK w \in Seq(MacFrames) : w = Waiting(out[n][p])
    BY <2>1, WaitingType
  <2>3. Macq(n)[p] = w
    <3>1. SentTo(p, done[n]) = <<>>
      BY <2>1, NoneSent
    <3>2. Macq(n)[p] = SentTo(p, done[n]) \o w
      BY <1>1, <2>2, MacqAt
    <3>3. <<>> \o w = w
      BY ConcatEmptySeq
    <3> QED BY <3>1, <3>2, <3>3
  <2>4. \A i \in DOMAIN w : w[i].slot # Block
    <3> SUFFICES ASSUME NEW i \in DOMAIN w PROVE w[i].slot # Block
      OBVIOUS
    <3>1. i \in DOMAIN out[n][p] /\ w[i] = Wait(out[n][p][i])
      BY <2>1, <2>2, WaitingType
    <3>2. PICK f : f = out[n][p][i] /\ f \in Range(out[n][p])
      BY <3>1 DEF Range
    <3>3. f \in Queued
      BY <1>1, <3>2, InQueues
    <3>4. FrameOK(n, p, f)
      BY <1>1, <3>2 DEF NodeOK, OutOK
    <3>5. f.pkt.kind = "ERROR"
      BY <3>3, <3>4 DEF FrameOK, Answering, Queued, Contents
    <3>6. f.block = NoBlock
      BY <3>4, <3>5 DEF FrameOK
    <3> QED BY <3>1, <3>2, <3>6, TheBlock DEF Wait, Frame
  <2>5. w = [i \in DOMAIN w |-> w[i]]
    BY LenProperties
  <2>6. SixpOf(n)!Orphaned(w, Block) = w
    BY <2>4, <2>5 DEF SixpOf!Orphaned
  <2> QED BY <2>3, <2>6
<1> QED BY <1>2, <1>3

LEMMA ProcessSim ==
  ASSUME OneBlock, SimInv, NEW n \in Peers, NEW b \in Blocks, ProcessTrans(n, b)
  PROVE  Steady(n)
<1>1. TypeOK /\ RunOK(n) /\ b = Block
  BY TheBlock DEF SimInv, IInv
<1>2. PICK t \in Trans : t = blk[n][b] /\ t = T(n)
  BY <1>1 DEF TypeOK, T
<1>3. PICK u : u = IF t.state = "TERMINATING" THEN FreeTrans(t.cb)
                   ELSE IF Over(t) THEN Moved(t, "TERMINATING")
                   ELSE [t EXCEPT !.timer = "timeout"]
  OBVIOUS
<1>4. /\ Idle(n) /\ t.timer = "process" /\ blk' = [blk EXCEPT ![n][b] = u]
      /\ nbr' = nbr /\ out' = out /\ done' = done
  BY <1>2, <1>3 DEF ProcessTrans
<1>5. /\ T(n)' = u /\ blk'[n] = [blk[n] EXCEPT ![b] = u]
      /\ \A m \in Peers : m # n => blk'[m] = blk[m]
  BY <1>1, <1>4, BlockSet DEF TypeOK
<1>6. Macq(n)' = Macq(n)
  BY <1>4, MacqKept
<1>7. u.cmd \in {t.cmd, "NONE"}
  <2>1. CASE t.state = "TERMINATING"
    BY <1>3, <2>1 DEF FreeTrans
  <2>2. CASE t.state # "TERMINATING" /\ Over(t)
    BY <1>3, <2>2, MovedFields DEF States
  <2>3. CASE t.state # "TERMINATING" /\ ~Over(t)
    BY <1>3, <2>3, TimerFields DEF Timers
  <2> QED BY <2>1, <2>2, <2>3
<1>8. SixpOf(n)!ProcessTrans(b)
  <2>1. CASE t.state = "TERMINATING"
    <3>1. Macq(n)' = [p \in Peers |-> SixpOf(n)!Orphaned(Macq(n)[p], b)]
      BY <1>1, <1>2, <1>4, <1>6, <2>1, NoneOrphaned
    <3>2. blk'[n] = [blk[n] EXCEPT ![b] = SixpOf(n)!FreeTrans(@.cb)]
      BY <1>2, <1>3, <1>5, <2>1, SameMoves
    <3> QED BY <1>2, <1>4, <2>1, <3>1, <3>2 DEF SixpOf!ProcessTrans
  <2>2. CASE t.state # "TERMINATING" /\ Over(t)
    <3>1. SixpOf(n)!Over(blk[n][b])
      BY <1>2, <2>2, SameMoves
    <3>2. blk'[n] = [blk[n] EXCEPT ![b] = SixpOf(n)!Moved(@, "TERMINATING")]
      BY <1>2, <1>3, <1>5, <2>2, SameMoves
    <3> QED BY <1>2, <1>4, <1>6, <3>1, <3>2 DEF SixpOf!ProcessTrans
  <2>3. CASE t.state # "TERMINATING" /\ ~Over(t)
    <3>1. ~SixpOf(n)!Over(blk[n][b])
      BY <1>2, <2>3, SameMoves
    <3>2. blk'[n] = [blk[n] EXCEPT ![b].timer = "timeout"]
      BY <1>1, <1>2, <1>3, <1>5, <2>3 DEF TypeOK
    <3> QED BY <1>2, <1>4, <1>6, <2>3, <3>1, <3>2 DEF SixpOf!ProcessTrans
  <2> QED BY <2>1, <2>2, <2>3
<1>9. RunOK(n)'
  BY <1>1, <1>2, <1>4, <1>5, <1>7 DEF RunOK
<1>10. Elsewhere(n)
  BY <1>4, <1>5 DEF Elsewhere
<1> QED BY <1>8, <1>9, <1>10, ByProcess DEF Steady

(* Every step.                                                             *)
LEMMA StepSim ==
  ASSUME Undisturbed, SimInv, [Next]_vars
  PROVE  \A n \in Peers : Sim(n) /\ RunOK(n)'
<1>1. OneBlock /\ ~AckLoss /\ ~Late
  BY DEF Undisturbed
<1>2. \A e \in Asks \cup Signals : e[1] \in Peers /\ e[2] \in Peers
  BY SfsbNetAssumption
<1>3. CASE Next
  <2>1. ASSUME NEW n \in Peers, NEW p \in Peers, LinksAdded(n, p) PROVE Steady(n)
    <3>1. PICK cells \in SUBSET Timeslots : Draw(n, p, cells)
      BY <2>1 DEF LinksAdded
    <3>2. /\ Output(n, p, "ADD", cells) /\ ~Busy(n, p)
          /\ UNCHANGED <<cell, res, rx, done>> /\ "ADD" \in Cmds
      BY <3>1, SfsbNetAssumption DEF Draw
    <3> QED BY <1>1, <3>2, OutputSim
  <2>2. ASSUME NEW n \in Peers, NEW p \in Peers, BlSend(n, p) PROVE Steady(n)
    <3>1. /\ Output(n, p, "SIGNAL", {}) /\ ~Busy(n, p)
          /\ UNCHANGED <<cell, res, rx, done>> /\ "SIGNAL" \in Cmds /\ {} \in SUBSET Timeslots
      BY <2>2, SfsbNetAssumption DEF BlSend
    <3> QED BY <1>1, <3>1, OutputSim
  <2>3. \E n \in Peers : Steady(n)
    <3>1. CASE \E e \in Asks : LinksAdded(e[1], e[2])
      BY <1>2, <2>1, <3>1
    <3>2. CASE \E e \in Signals : BlSend(e[1], e[2])
      BY <1>2, <2>2, <3>2
    <3>3. CASE \E n \in Peers : ReceiveRequest(n)
      BY <1>1, <3>3, RequestSim
    <3>4. CASE \E n \in Peers : ReceiveResponse(n)
      BY <1>1, <3>4, ResponseSim
    <3>5. CASE \E n \in Peers : TxDone(n)
      BY <1>1, <3>5, TxDoneSim
    <3>6. CASE \E n, p \in Peers, got, told \in BOOLEAN : Transmit(n, p, got, told)
      BY <3>6, TransmitSim
    <3>7. CASE \E n \in Peers, b \in Blocks : Timeout(n, b)
      BY <1>1, <3>7, TimeoutSim
    <3>8. CASE \E n \in Peers, b \in Blocks : ProcessTrans(n, b)
      BY <1>1, <3>8, ProcessSim
    <3> QED BY <1>3, <3>1, <3>2, <3>3, <3>4, <3>5, <3>6, <3>7, <3>8 DEF Next
  <2> QED BY <2>3, OthersStutter DEF Steady
<1>4. CASE UNCHANGED vars
  <2>1. UNCHANGED <<blk, nbr, out, done>>
    BY <1>4 DEF vars
  <2>2. ASSUME NEW n \in Peers PROVE Sim(n)
    BY <2>1, MacqKept, Stutters
  <2>3. ASSUME NEW n \in Peers PROVE RunOK(n)'
    BY <2>1 DEF SimInv, RunOK, T
  <2> QED BY <2>2, <2>3
<1> QED BY <1>3, <1>4

LEMMA InitSim ==
  ASSUME OneBlock, Init
  PROVE  /\ SimInv
         /\ \A n \in Peers : SixpOf(n)!Init
<1>1. IInv
  BY InitOK
<1>2. ASSUME NEW n \in Peers PROVE RunOK(n)
  <2>1. T(n) = FreeTrans(FALSE) /\ done[n] = <<>>
    BY TheBlock DEF Init, T
  <2>2. T(n).cmd = "NONE"
    BY <2>1 DEF FreeTrans
  <2>3. Len(done[n]) = 0 /\ RingCap \in Nat
    BY <2>1, SfsbNetAssumption
  <2> QED BY <2>2, <2>3 DEF RunOK
<1>3. ASSUME NEW n \in Peers PROVE SixpOf(n)!Init
  <2>1. /\ blk[n] = [b \in Blocks |-> FreeTrans(FALSE)]
        /\ nbr[n] = [p \in Peers |-> NoNbr]
        /\ done[n] = <<>> /\ \A p \in Peers : out[n][p] = <<>>
    BY DEF Init
  <2>2. SixpOf(n)!FreeTrans(FALSE) = FreeTrans(FALSE)
    BY SameMoves
  <2>3. ASSUME NEW p \in Peers PROVE Macq(n)[p] = <<>>
    <3>1. Waiting(out[n][p]) = <<>> /\ SentTo(p, done[n]) = <<>>
      <4>1. <<>> \in Seq(Queued) /\ Len(<<>>) = 0
        OBVIOUS
      <4>2. Waiting(<<>>) \in Seq(MacFrames) /\ Len(Waiting(<<>>)) = 0
        BY <4>1, WaitingType
      <4> QED BY <2>1, <4>2, NoneSent, EmptySeq
    <3>2. Macq(n)[p] = <<>> \o <<>>
      BY <3>1 DEF Macq
    <3>3. <<>> \in Seq(MacFrames)
      OBVIOUS
    <3> QED BY <3>2, <3>3, ConcatEmptySeq
  <2>4. Macq(n) = [p \in Peers |-> <<>>]
    BY <2>3 DEF Macq
  <2> QED BY <2>1, <2>2, <2>4 DEF SixpOf!Init
<1> QED BY <1>1, <1>2, <1>3 DEF SimInv

(* Under the same conditions every node of the network is a node of Sixp:  *)
(* each step of the network is, at each node, a step of its 6P layer or    *)
(* none, so what is proved of Sixp for any SF, peers and MAC holds of it.  *)
THEOREM ImplementsSixp ==
  ASSUME Undisturbed PROVE Spec => NodesAreSixp
<1>1. Init => SimInv /\ \A n \in Peers : SixpOf(n)!Init
  BY InitSim DEF Undisturbed
<1>2. SimInv /\ TypeOK' /\ [Next]_vars => SimInv'
  <2> SUFFICES ASSUME SimInv, TypeOK', [Next]_vars PROVE SimInv'
    OBVIOUS
  <2>1. IInv'
    BY StepOK DEF SimInv
  <2>2. \A n \in Peers : RunOK(n)'
    BY StepSim
  <2> QED BY <2>1, <2>2 DEF SimInv
<1>3. SimInv /\ [Next]_vars => [\A n \in Peers : [SixpOf(n)!Next]_(SixpOf(n)!vars)]_vars
  <2> SUFFICES ASSUME SimInv, [Next]_vars
               PROVE  \A n \in Peers : [SixpOf(n)!Next]_(SixpOf(n)!vars)
    OBVIOUS
  <2>1. \A n \in Peers : Sim(n)
    BY StepSim
  <2> QED BY <2>1 DEF Sim
<1> QED BY <1>1, <1>2, <1>3, TypeCorrect, PTL DEF Spec, NodesAreSixp
=============================================================================
