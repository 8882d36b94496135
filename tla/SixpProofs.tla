----------------------------- MODULE SixpProofs -----------------------------
(***************************************************************************)
(* Proofs about the 6P layer, for any number of peers, blocks, sequence    *)
(* numbers and queued frames.                                              *)
(***************************************************************************)
EXTENDS Sixp, SequenceTheorems, FiniteSetTheorems, TLAPS

MaybeSeqNos == SeqNos \cup {NoNbr}

(* What the invariants say of one block: t its content, n the next_seqno   *)
(* of its peer. A free block is the one TERMINATING block without a timer. *)
Good(t, n) ==
  /\ t.peer # NoPeer <=> t.timer # "off"
  /\ t.timer = "timeout" => t.state # "TERMINATING" /\ ~Over(t)
  /\ t.peer = NoPeer => t.state = "TERMINATING"
  /\ t.peer # NoPeer /\ n # NoNbr /\ t.cmd # "CLEAR"
       => /\ t.state = "INIT" => n = t.seqno
          /\ t.state \in {"REQUEST_SENT", "RESPONSE_RECEIVED", "CONFIRMATION_SENT"}
               => n = NextSeqno(t.seqno)
          /\ t.state \in {"RESPONSE_SENT", "CONFIRMATION_RECEIVED"} /\ t.seqno # 0
               => n = NextSeqno(t.seqno)
  /\ /\ t.peer # NoPeer /\ t.cmd = "CLEAR"
     /\ t.state \in {"INIT", "REQUEST_SENT", "RESPONSE_RECEIVED"}
     => n \in {0, NoNbr}

(* The inductive invariant. *)
IInv ==
  /\ TypeOK
  /\ OnePerPeer
  /\ \A s \in Slots : Good(trans[s], nbr[trans[s].peer])
-----------------------------------------------------------------------------
(* The successor of a sequence number is a sequence number, and never 0.   *)
LEMMA NextSeqnoType ==
  ASSUME NEW n \in SeqNos
  PROVE  NextSeqno(n) \in SeqNos /\ NextSeqno(n) # 0
BY SixpTransAssumption, SixpAssumption DEF SeqNos, NextSeqno

(* The fields of a transaction after a move, and after its callback is set *)
(* or cleared.                                                             *)
LEMMA MovedFields ==
  ASSUME NEW t \in Trans, NEW new \in States
  PROVE  /\ Moved(t, new) \in Trans
         /\ Moved(t, new).peer = t.peer /\ Moved(t, new).seqno = t.seqno
         /\ Moved(t, new).cmd = t.cmd /\ Moved(t, new).mode = t.mode
         /\ Moved(t, new).state = new /\ Moved(t, new).timer = "process"
BY DEF Moved, Trans, Timers

LEMMA CallbackFields ==
  ASSUME NEW t \in Trans, NEW b \in BOOLEAN
  PROVE  LET u == [t EXCEPT !.cb = b]
         IN /\ u \in Trans
            /\ u.peer = t.peer /\ u.seqno = t.seqno /\ u.cmd = t.cmd
            /\ u.mode = t.mode /\ u.state = t.state /\ u.timer = t.timer
BY DEF Trans

(* Good looks at these fields only.                                        *)
LEMMA GoodFields ==
  ASSUME NEW t, NEW u, NEW n, Good(t, n),
         u.peer = t.peer, u.seqno = t.seqno, u.cmd = t.cmd,
         u.mode = t.mode, u.state = t.state, u.timer = t.timer
  PROVE  Good(u, n)
BY DEF Good, Over

(* mac_callback keeps a block as good as it was, whatever block it hits.   *)
LEMMA ReportedGood ==
  ASSUME NEW t \in Trans, NEW n \in MaybeSeqNos, NEW ok \in BOOLEAN, Good(t, n)
  PROVE  /\ Reported(t, ok) \in Trans
         /\ Reported(t, ok).peer = t.peer
         /\ SeqnoReported(t, ok, n) \in MaybeSeqNos
         /\ Good(Reported(t, ok), SeqnoReported(t, ok, n))
<1>1. CASE ~ok
  <2>1. SeqnoReported(t, ok, n) = n
    BY <1>1 DEF SeqnoReported
  <2>2. CASE t.state = "INIT"
    <3> DEFINE v == Moved(t, "TERMINATING")
    <3>1. Reported(t, ok) = [v EXCEPT !.cb = FALSE]
      BY <1>1, <2>2 DEF Reported
    <3>2. v \in Trans /\ v.peer = t.peer /\ v.state = "TERMINATING" /\ v.timer = "process"
      BY MovedFields DEF States
    <3>3. t.peer # NoPeer
      BY <2>2 DEF Good
    <3>4. Good(v, n)
      BY <3>2, <3>3 DEF Good
    <3> HIDE DEF v
    <3> DEFINE u == [v EXCEPT !.cb = FALSE]
    <3>5. /\ u \in Trans /\ u.peer = v.peer /\ u.seqno = v.seqno
          /\ u.cmd = v.cmd /\ u.mode = v.mode /\ u.state = v.state
          /\ u.timer = v.timer
      BY <3>2, CallbackFields
    <3> HIDE DEF u
    <3>6. Good(u, n)
      BY <3>4, <3>5, GoodFields
    <3>7. Reported(t, ok) = u
      BY <3>1 DEF u
    <3>8. QED
      BY <3>2, <3>5, <3>6, <3>7, <2>1
  <2>3. CASE t.state # "INIT"
    <3>1. Reported(t, ok) = [t EXCEPT !.cb = FALSE]
      BY <1>1, <2>3 DEF Reported
    <3>2. QED
      BY <3>1, <2>1, CallbackFields, GoodFields
  <2>4. QED
    BY <2>2, <2>3
<1>2. CASE ok /\ AckedState(t) = t.state
  BY <1>2 DEF Reported, SeqnoReported
<1>3. CASE ok /\ AckedState(t) # t.state /\ ~Legal(t, AckedState(t))
  <2> DEFINE v == Moved(t, "TERMINATING")
  <2>1. Reported(t, ok) = [v EXCEPT !.cb = t.cb]
    <3>1. (t.cb /\ ~Legal(t, AckedState(t))) = t.cb
      BY <1>3 DEF Trans
    <3>2. QED
      BY <1>3, <3>1 DEF Reported, MovedOrEnded
  <2>2. SeqnoReported(t, ok, n) = n
    BY <1>3 DEF SeqnoReported
  <2>3. t.peer # NoPeer
    BY <1>3 DEF Good, AckedState
  <2>4. v \in Trans /\ v.peer = t.peer /\ v.state = "TERMINATING" /\ v.timer = "process"
    BY MovedFields DEF States
  <2>5. Good(v, n)
    BY <2>3, <2>4 DEF Good
  <2>6. t.cb \in BOOLEAN
    BY DEF Trans
  <2> HIDE DEF v
  <2> DEFINE u == [v EXCEPT !.cb = t.cb]
  <2>7. /\ u \in Trans /\ u.peer = v.peer /\ u.seqno = v.seqno
        /\ u.cmd = v.cmd /\ u.mode = v.mode /\ u.state = v.state
        /\ u.timer = v.timer
    BY <2>4, <2>6, CallbackFields
  <2> HIDE DEF u
  <2>8. Good(u, n)
    BY <2>5, <2>7, GoodFields
  <2>9. Reported(t, ok) = u
    BY <2>1 DEF u
  <2>10. QED
    BY <2>2, <2>4, <2>7, <2>8, <2>9
<1>4. CASE ok /\ AckedState(t) # t.state /\ Legal(t, AckedState(t))
  <2> DEFINE v == Moved(t, AckedState(t))
             m == SeqnoMoved(t, AckedState(t), n)
  <2>1. Reported(t, ok) = [v EXCEPT !.cb = FALSE]
    <3>1. (t.cb /\ ~Legal(t, AckedState(t))) = FALSE
      BY <1>4
    <3>2. QED
      BY <1>4, <3>1 DEF Reported, MovedOrEnded
  <2>2. SeqnoReported(t, ok, n) = m
    BY <1>4 DEF SeqnoReported
  <2>3. t.seqno \in SeqNos
    BY DEF Trans
  <2>4. m \in MaybeSeqNos
    BY <2>3, NextSeqnoType DEF SeqnoMoved, MaybeSeqNos
  <2>5. t.state \in {"INIT", "REQUEST_RECEIVED", "RESPONSE_RECEIVED"}
    BY <1>4 DEF AckedState
  <2>6. t.peer # NoPeer
    BY <2>5 DEF Good
  <2>7. AckedState(t) \in States
    BY <2>5 DEF AckedState, States
  <2>8. /\ v \in Trans /\ v.peer = t.peer /\ v.state = AckedState(t)
        /\ v.timer = "process" /\ v.seqno = t.seqno /\ v.cmd = t.cmd
    BY <2>7, MovedFields
  <2> HIDE DEF v
  <2>9. Good(v, m)
    <3>1. CASE t.state = "INIT"
      <4>1. AckedState(t) = "REQUEST_SENT"
        BY <3>1 DEF AckedState
      <4>2. QED
        BY <4>1, <3>1, <2>6, <2>8 DEF Good, SeqnoMoved
    <3>2. CASE t.state = "REQUEST_RECEIVED"
      <4>1. AckedState(t) = "RESPONSE_SENT"
        BY <3>2 DEF AckedState
      <4>2. QED
        BY <4>1, <3>2, <2>6, <2>8 DEF Good, SeqnoMoved
    <3>3. CASE t.state = "RESPONSE_RECEIVED"
      <4>1. AckedState(t) = "CONFIRMATION_SENT"
        BY <3>3 DEF AckedState
      <4>2. QED
        BY <4>1, <3>3, <2>6, <2>8 DEF Good, SeqnoMoved
    <3>4. QED
      BY <2>5, <3>1, <3>2, <3>3
  <2> HIDE DEF m
  <2>10. QED
    BY <2>1, <2>2, <2>4, <2>8, <2>9, CallbackFields, GoodFields
<1>5. QED
  <2>1. ok = TRUE \/ ok = FALSE
    OBVIOUS
  <2>2. QED
    BY <2>1, <1>1, <1>2, <1>3, <1>4
-----------------------------------------------------------------------------
(* One block changes to t, next_seqno of t's peer may change with it: the  *)
(* other blocks serve other peers and stay good.                           *)
LEMMA BlockChanges ==
  ASSUME IInv, NEW s \in Slots, NEW t \in Trans,
         trans' = [trans EXCEPT ![s] = t],
         t.peer = trans[s].peer \/ t.peer = NoPeer \/ ~Busy(t.peer),
         nbr' \in [Peers -> MaybeSeqNos],
         \A q \in Peers : q # t.peer => nbr'[q] = nbr[q],
         macq' \in [Peers -> Seq(Frames)],
         Good(t, nbr'[t.peer])
  PROVE  IInv'
<1>1. TypeOK'
  BY DEF IInv, TypeOK, MaybeSeqNos
<1>2. /\ trans'[s] = t
      /\ \A r \in Slots : r # s => trans'[r] = trans[r]
  BY DEF IInv, TypeOK
<1>3. ASSUME NEW r \in Slots, r # s, Used(r)
      PROVE  trans[r].peer # t.peer
  <2>1. CASE t.peer = trans[s].peer
    BY <1>3, <2>1 DEF IInv, OnePerPeer
  <2>2. CASE t.peer = NoPeer
    BY <1>3, <2>2 DEF Used
  <2>3. CASE ~Busy(t.peer)
    BY <1>3, <2>3 DEF Busy
  <2>4. QED
    BY <2>1, <2>2, <2>3
<1>4. OnePerPeer'
  BY <1>2, <1>3 DEF IInv, OnePerPeer, Used
<1>5. ASSUME NEW r \in Slots
      PROVE  Good(trans'[r], nbr'[trans'[r].peer])
  <2>1. CASE r = s
    BY <1>2, <2>1
  <2>2. CASE r # s /\ Used(r)
    <3>1. trans'[r] = trans[r] /\ trans[r].peer # t.peer
      BY <1>2, <1>3, <2>2
    <3>2. trans[r].peer \in Peers
      BY <2>2 DEF IInv, TypeOK, Trans, Used
    <3>3. nbr'[trans[r].peer] = nbr[trans[r].peer]
      BY <3>1, <3>2
    <3>4. QED
      BY <3>1, <3>3 DEF IInv
  <2>3. CASE r # s /\ ~Used(r)
    <3>1. trans'[r] = trans[r] /\ trans[r].peer = NoPeer
      BY <1>2, <2>3 DEF Used
    <3>2. Good(trans[r], nbr[trans[r].peer])
      BY DEF IInv
    <3>3. QED
      BY <3>1, <3>2 DEF Good
  <2>4. QED
    BY <2>1, <2>2, <2>3
<1>6. QED
  BY <1>1, <1>4, <1>5 DEF IInv

(* Only the MAC queues change, or nothing does but next_seqno of a peer    *)
(* that has no transaction or loses its entry.                             *)
LEMMA BlocksStay ==
  ASSUME IInv, trans' = trans,
         nbr' \in [Peers -> MaybeSeqNos],
         \A q \in Peers : nbr'[q] # nbr[q] => ~Busy(q) \/ nbr'[q] = NoNbr,
         macq' \in [Peers -> Seq(Frames)]
  PROVE  IInv'
<1>1. TypeOK' /\ OnePerPeer'
  BY DEF IInv, TypeOK, OnePerPeer, Used, MaybeSeqNos
<1>2. ASSUME NEW r \in Slots
      PROVE  Good(trans'[r], nbr'[trans'[r].peer])
  <2>1. Good(trans[r], nbr[trans[r].peer]) /\ trans[r] \in Trans
    BY DEF IInv, TypeOK
  <2>2. CASE trans[r].peer = NoPeer
    BY <2>1, <2>2 DEF Good
  <2>3. CASE trans[r].peer \in Peers
    <3>1. Busy(trans[r].peer)
      BY DEF Busy
    <3>2. CASE nbr'[trans[r].peer] = nbr[trans[r].peer]
      BY <2>1, <3>2
    <3>3. CASE nbr'[trans[r].peer] = NoNbr
      BY <2>1, <3>3 DEF Good
    <3>4. QED
      BY <3>1, <3>2, <3>3, <2>3
  <2>4. QED
    BY <2>1, <2>2, <2>3 DEF Trans
<1>3. QED
  BY <1>1, <1>2 DEF IInv

(* Frames of our own making keep the queues well-formed.                   *)
LEMMA FrameQueued ==
  ASSUME TypeOK, NEW p \in Peers, NEW f \in Frames,
         macq' = [macq EXCEPT ![p] = Append(@, f)]
  PROVE  macq' \in [Peers -> Seq(Frames)]
BY DEF TypeOK

LEMMA ErrorHanded ==
  ASSUME TypeOK, NEW p \in Peers, HandError(p)
  PROVE  macq' \in [Peers -> Seq(Frames)]
<1> DEFINE f == [kind |-> "ERROR", slot |-> NoSlot, live |-> FALSE]
<1>1. f \in Frames
  BY DEF Frames
<1>2. macq' = macq \/ macq' = [macq EXCEPT ![p] = Append(@, f)]
  BY DEF HandError
<1> HIDE DEF f
<1>3. QED
  BY <1>1, <1>2, FrameQueued DEF TypeOK

(* A frame handed to the MAC, queued or refused on the spot, keeps the     *)
(* invariant when the transaction it is sent for is good.                  *)
LEMMA Handed ==
  ASSUME IInv, NEW p \in Peers, NEW s \in Slots, NEW t \in Trans,
         NEW k \in {"REQUEST", "RESPONSE", "CONFIRMATION"},
         Hand(p, s, k, t), t.peer = p,
         trans[s].peer = p \/ ~Busy(p),
         nbr' \in [Peers -> MaybeSeqNos],
         \A q \in Peers : q # p => nbr'[q] = nbr[q],
         Good(t, nbr'[p])
  PROVE  IInv'
<1> DEFINE f == [kind |-> k, slot |-> s, live |-> TRUE]
           u == Reported(t, FALSE)
<1>1. f \in Frames
  BY DEF Frames
<1>2. \/ trans' = [trans EXCEPT ![s] = t] /\ macq' = [macq EXCEPT ![p] = Append(@, f)]
      \/ trans' = [trans EXCEPT ![s] = u] /\ macq' = macq
  BY DEF Hand
<1>3. u \in Trans /\ u.peer = p /\ Good(u, nbr'[p])
  <2>1. SeqnoReported(t, FALSE, nbr'[p]) = nbr'[p]
    BY DEF SeqnoReported
  <2>2. nbr'[p] \in MaybeSeqNos
    OBVIOUS
  <2>3. QED
    BY <2>1, <2>2, ReportedGood
<1> HIDE DEF f, u
<1>4. macq' \in [Peers -> Seq(Frames)]
  BY <1>1, <1>2, FrameQueued DEF IInv, TypeOK
<1>5. QED
  BY <1>2, <1>3, <1>4, BlockChanges
-----------------------------------------------------------------------------
LEMMA InitIInv == Init => IInv
<1> SUFFICES ASSUME Init PROVE IInv
  OBVIOUS
<1>1. FreeTrans(FALSE) \in Trans
  BY SixpTransAssumption, SixpAssumption DEF FreeTrans, Trans, States, Timers, SeqNos
<1>2. TypeOK
  <2>1. trans \in [Slots -> Trans]
    BY <1>1 DEF Init
  <2>2. nbr \in [Peers -> SeqNos \cup {NoNbr}]
    BY DEF Init
  <2>3. macq \in [Peers -> Seq(Frames)]
    BY DEF Init
  <2>4. QED
    BY <2>1, <2>2, <2>3 DEF TypeOK
<1>3. OnePerPeer
  BY DEF Init, OnePerPeer, Used, FreeTrans
<1>4. \A s \in Slots : Good(trans[s], nbr[trans[s].peer])
  BY DEF Init, FreeTrans, Good
<1>5. QED
  BY <1>2, <1>3, <1>4 DEF IInv

(* A fresh transaction, before and after it counts as received.            *)
LEMMA SentFields ==
  ASSUME NEW p \in Peers, NEW q \in SeqNos, NEW cmd \in Cmds, NEW mode \in {2, 3},
         NEW b \in BOOLEAN
  PROVE  LET t == [NewTrans(p, q, cmd, mode) EXCEPT !.cb = b]
         IN /\ t \in Trans /\ t.peer = p /\ t.seqno = q /\ t.cmd = cmd
            /\ t.state = "INIT" /\ t.timer = "timeout"
BY DEF NewTrans, Trans, States, Timers

LEMMA ReceivedFields ==
  ASSUME NEW p \in Peers, NEW q \in SeqNos, NEW cmd \in Cmds, NEW mode \in {2, 3}
  PROVE  LET u == Moved(NewTrans(p, q, cmd, mode), "REQUEST_RECEIVED")
         IN /\ u \in Trans /\ u.peer = p /\ u.seqno = q /\ u.cmd = cmd
            /\ u.state = "REQUEST_RECEIVED" /\ u.timer = "process"
BY DEF NewTrans, Moved, Trans, States, Timers

LEMMA RequestStep ==
  ASSUME IInv, NEW p \in Peers, NEW cmd \in Cmds, NEW mode \in {2, 3},
         Request(p, cmd, mode)
  PROVE  IInv'
<1> DEFINE seqno == IF nbr[p] = NoNbr THEN 0 ELSE nbr[p]
           t == [NewTrans(p, seqno, cmd, mode) EXCEPT !.cb = (cmd = "SIGNAL")]
           m == IF cmd = "CLEAR" THEN 0 ELSE seqno
<1>1. seqno \in SeqNos /\ m \in SeqNos
  BY SixpTransAssumption, SixpAssumption DEF IInv, TypeOK, SeqNos
<1>2. /\ nbr' \in [Peers -> MaybeSeqNos]
      /\ \A q \in Peers : q # p => nbr'[q] = nbr[q]
      /\ nbr'[p] = m
  <2>1. nbr' = [nbr EXCEPT ![p] = m]
    BY DEF Request
  <2> HIDE DEF m
  <2>2. QED
    BY <1>1, <2>1 DEF IInv, TypeOK, MaybeSeqNos
<1>3. /\ t \in Trans /\ t.peer = p /\ t.seqno = seqno /\ t.cmd = cmd
      /\ t.state = "INIT" /\ t.timer = "timeout"
  <2> DEFINE b == cmd = "SIGNAL"
  <2>1. b \in BOOLEAN
    OBVIOUS
  <2> HIDE DEF seqno, b
  <2>2. LET u == [NewTrans(p, seqno, cmd, mode) EXCEPT !.cb = b]
        IN /\ u \in Trans /\ u.peer = p /\ u.seqno = seqno /\ u.cmd = cmd
           /\ u.state = "INIT" /\ u.timer = "timeout"
    BY <1>1, <2>1, SentFields
  <2>3. QED
    BY <2>2 DEF b
<1>4. Good(t, m)
  <2>1. cmd # "CLEAR" => m = seqno
    OBVIOUS
  <2>2. cmd = "CLEAR" => m = 0
    OBVIOUS
  <2>3. p # NoPeer
    BY SixpTransAssumption, SixpAssumption
  <2> HIDE DEF t, m, seqno
  <2>4. QED
    BY <1>3, <2>1, <2>2, <2>3 DEF Good, Over
<1>5. CASE \E s \in Slots : ~Used(s) /\ Hand(p, s, "REQUEST", t)
  <2>1. PICK s \in Slots : Hand(p, s, "REQUEST", t)
    BY <1>5
  <2>2. ~Busy(p)
    BY DEF Request
  <2> HIDE DEF t, m, seqno
  <2>3. QED
    BY <1>2, <1>3, <1>4, <2>1, <2>2, Handed
<1>6. CASE UNCHANGED <<trans, macq>>
  <2>1. ~Busy(p)
    BY DEF Request
  <2>2. trans' = trans /\ macq' = macq /\ macq \in [Peers -> Seq(Frames)]
    BY <1>6 DEF IInv, TypeOK
  <2> HIDE DEF t, m, seqno
  <2>3. \A q \in Peers : nbr'[q] # nbr[q] => ~Busy(q) \/ nbr'[q] = NoNbr
    BY <1>2, <2>1
  <2>4. QED
    BY <1>2, <2>2, <2>3, BlocksStay
<1>7. QED
  BY <1>5, <1>6 DEF Request

LEMMA InputRequestStep ==
  ASSUME IInv, NEW p \in Peers, NEW seqno \in SeqNos, NEW cmd \in Cmds,
         NEW mode \in {2, 3}, InputRequest(p, seqno, cmd, mode)
  PROVE  IInv'
<1> DEFINE n == IF cmd = "CLEAR" /\ nbr[p] # NoNbr THEN 0 ELSE nbr[p]
           t == Moved(NewTrans(p, seqno, cmd, mode), "REQUEST_RECEIVED")
<1>1. n \in MaybeSeqNos /\ nbr \in [Peers -> MaybeSeqNos] /\ 0 \in MaybeSeqNos
  BY SixpTransAssumption, SixpAssumption DEF IInv, TypeOK, SeqNos, MaybeSeqNos
<1>2. /\ t \in Trans /\ t.peer = p /\ t.seqno = seqno /\ t.cmd = cmd
      /\ t.state = "REQUEST_RECEIVED" /\ t.timer = "process"
  BY ReceivedFields
<1>3. ASSUME NEW m, NEW b \in BOOLEAN
      PROVE  LET u == [t EXCEPT !.cb = b]
             IN u \in Trans /\ u.peer = p /\ Good(u, m) /\ Good(t, m)
  <2>1. p # NoPeer
    BY SixpTransAssumption, SixpAssumption
  <2> HIDE DEF t
  <2>2. Good(t, m)
    BY <1>2, <2>1 DEF Good
  <2> DEFINE u == [t EXCEPT !.cb = b]
  <2>3. /\ u \in Trans /\ u.peer = t.peer /\ u.seqno = t.seqno
        /\ u.cmd = t.cmd /\ u.mode = t.mode /\ u.state = t.state
        /\ u.timer = t.timer
    BY <1>2, CallbackFields
  <2> HIDE DEF u
  <2>4. Good(u, m)
    BY <2>2, <2>3, GoodFields
  <2>5. u \in Trans /\ u.peer = p /\ Good(u, m) /\ Good(t, m)
    BY <1>2, <2>2, <2>3, <2>4
  <2>6. QED
    BY <2>5 DEF u
<1>4. CASE Busy(p)
  <2>1. HandError(p) /\ trans' = trans /\ nbr' = nbr
    BY <1>4 DEF InputRequest
  <2>2. macq' \in [Peers -> Seq(Frames)]
    BY <2>1, ErrorHanded DEF IInv
  <2>3. QED
    BY <1>1, <2>1, <2>2, BlocksStay
<1>5. CASE ~Busy(p)
  <2> HIDE DEF n, t
  <2>1. CASE /\ nbr' = [nbr EXCEPT ![p] = n]
             /\ HandError(p)
             /\ UNCHANGED trans
    <3>1. macq' \in [Peers -> Seq(Frames)]
      BY <2>1, ErrorHanded DEF IInv
    <3>2. /\ nbr' \in [Peers -> MaybeSeqNos]
          /\ \A q \in Peers : q # p => nbr'[q] = nbr[q]
      BY <1>1, <2>1
    <3>3. \A q \in Peers : nbr'[q] # nbr[q] => ~Busy(q) \/ nbr'[q] = NoNbr
      BY <1>5, <3>2
    <3>4. QED
      BY <2>1, <3>1, <3>2, <3>3, BlocksStay
  <2>2. ASSUME NEW s \in Slots, trans' = [trans EXCEPT ![s] = t],
               UNCHANGED nbr, HandError(p)
        PROVE  IInv'
    <3>1. macq' \in [Peers -> Seq(Frames)]
      BY <2>2, ErrorHanded DEF IInv
    <3>2. Good(t, nbr'[t.peer])
      BY <1>3, FALSE \in BOOLEAN
    <3>3. nbr' \in [Peers -> MaybeSeqNos] /\ \A q \in Peers : q # t.peer => nbr'[q] = nbr[q]
      BY <2>2, <1>1
    <3>4. QED
      BY <1>2, <1>5, <2>2, <3>1, <3>2, <3>3, BlockChanges
  <2>3. ASSUME NEW s \in Slots, Answer(p, s, t, n)
        PROVE  IInv'
    <3>1. CASE /\ trans' = [trans EXCEPT ![s] = t]
               /\ nbr' = [nbr EXCEPT ![p] = n]
               /\ UNCHANGED macq
      <4>1. /\ nbr' \in [Peers -> MaybeSeqNos]
            /\ \A q \in Peers : q # t.peer => nbr'[q] = nbr[q]
        BY <1>1, <1>2, <3>1
      <4>2. macq' \in [Peers -> Seq(Frames)]
        BY <3>1 DEF IInv, TypeOK
      <4>3. Good(t, nbr'[t.peer])
        BY <1>3, FALSE \in BOOLEAN
      <4>4. QED
        BY <1>2, <1>5, <3>1, <4>1, <4>2, <4>3, BlockChanges
    <3>2. ASSUME NEW success \in BOOLEAN,
                 nbr' = [nbr EXCEPT ![p] =
                   IF n = NoNbr /\ success /\ t.cmd \in {"ADD", "DELETE"} THEN 0 ELSE n],
                 Hand(p, s, "RESPONSE", [t EXCEPT !.cb = TRUE])
          PROVE  IInv'
      <4> DEFINE m == IF n = NoNbr /\ success /\ t.cmd \in {"ADD", "DELETE"} THEN 0 ELSE n
                 u == [t EXCEPT !.cb = TRUE]
      <4>1. m \in MaybeSeqNos
        BY <1>1
      <4>2. nbr' = [nbr EXCEPT ![p] = m]
        BY <3>2
      <4>3. u \in Trans /\ u.peer = p /\ Good(u, nbr'[p])
        BY <1>3, TRUE \in BOOLEAN
      <4>4. Hand(p, s, "RESPONSE", u)
        BY <3>2
      <4> HIDE DEF m, u
      <4>5. /\ nbr' \in [Peers -> MaybeSeqNos]
            /\ \A q \in Peers : q # p => nbr'[q] = nbr[q]
        BY <1>1, <4>1, <4>2
      <4>6. QED
        BY <1>5, <4>3, <4>4, <4>5, Handed
    <3>3. QED
      BY <2>3, <3>1, <3>2 DEF Answer
  <2>4. \/ /\ nbr' = [nbr EXCEPT ![p] = n]
           /\ HandError(p)
           /\ UNCHANGED trans
        \/ \E s \in Slots :
             \/ /\ trans' = [trans EXCEPT ![s] = t]
                /\ UNCHANGED nbr
                /\ HandError(p)
             \/ Answer(p, s, t, n)
    BY <1>5 DEF InputRequest, n, t
  <2>5. QED
    BY <2>1, <2>2, <2>3, <2>4
<1>6. QED
  BY <1>4, <1>5

(* A used block is moved by a legal transition, or ended by an illegal one *)
LEMMA InputResponseStep ==
  ASSUME IInv, NEW s \in Slots, NEW seqno \in SeqNos, InputResponse(s, seqno)
  PROVE  IInv'
<1> DEFINE t == MovedOrEnded(trans[s], "RESPONSE_RECEIVED")
           p == trans[s].peer
           u == [t EXCEPT !.cb = TRUE]
<1>1. /\ trans[s] \in Trans /\ p \in Peers /\ Good(trans[s], nbr[p])
      /\ nbr' = nbr /\ nbr \in [Peers -> MaybeSeqNos]
      /\ macq \in [Peers -> Seq(Frames)]
  BY DEF IInv, TypeOK, InputResponse, Used, Trans, MaybeSeqNos
<1>2. /\ t \in Trans /\ t.peer = p /\ t.seqno = trans[s].seqno
      /\ t.cmd = trans[s].cmd /\ t.timer = "process"
      /\ t.state = IF Legal(trans[s], "RESPONSE_RECEIVED")
                   THEN "RESPONSE_RECEIVED" ELSE "TERMINATING"
  BY <1>1, MovedFields DEF MovedOrEnded, States
<1>3. Good(t, nbr[p])
  <2>1. p # NoPeer
    BY <1>1, SixpTransAssumption, SixpAssumption
  <2>2. Legal(trans[s], "RESPONSE_RECEIVED") => trans[s].state = "REQUEST_SENT"
    BY DEF Legal
  <2> HIDE DEF t
  <2>3. QED
    BY <1>1, <1>2, <2>1, <2>2 DEF Good
<1>4. /\ u \in Trans /\ u.peer = p /\ Good(u, nbr[p])
  <2> HIDE DEF t
  <2>1. /\ u \in Trans /\ u.peer = t.peer /\ u.seqno = t.seqno
        /\ u.cmd = t.cmd /\ u.mode = t.mode /\ u.state = t.state
        /\ u.timer = t.timer
    BY <1>2, TRUE \in BOOLEAN, CallbackFields
  <2> HIDE DEF u
  <2>2. QED
    BY <1>2, <1>3, <2>1, GoodFields
<1>5. CASE trans' = [trans EXCEPT ![s] = t] /\ UNCHANGED macq
  <2> HIDE DEF t
  <2>1. QED
    BY <1>1, <1>2, <1>3, <1>5, BlockChanges
<1>6. CASE Hand(t.peer, s, "CONFIRMATION", u)
  <2>1. Hand(p, s, "CONFIRMATION", u)
    BY <1>2, <1>6
  <2>2. p \in Peers /\ u \in Trans /\ u.peer = p /\ trans[s].peer = p /\ Good(u, nbr'[p])
    BY <1>1, <1>4
  <2>3. nbr' \in [Peers -> MaybeSeqNos] /\ \A q \in Peers : q # p => nbr'[q] = nbr[q]
    BY <1>1
  <2> HIDE DEF u, t, p
  <2>4. QED
    BY <2>1, <2>2, <2>3, Handed
<1>7. QED
  BY <1>5, <1>6 DEF InputResponse

LEMMA InputConfirmationStep ==
  ASSUME IInv, NEW s \in Slots, NEW seqno \in SeqNos, InputConfirmation(s, seqno)
  PROVE  IInv'
<1> DEFINE t == MovedOrEnded(trans[s], "CONFIRMATION_RECEIVED")
           p == trans[s].peer
<1>1. /\ trans[s] \in Trans /\ p \in Peers /\ Good(trans[s], nbr[p])
      /\ nbr' = nbr /\ nbr \in [Peers -> MaybeSeqNos]
      /\ macq' \in [Peers -> Seq(Frames)]
      /\ trans' = [trans EXCEPT ![s] = t]
  BY DEF IInv, TypeOK, InputConfirmation, Used, Trans, MaybeSeqNos
<1>2. /\ t \in Trans /\ t.peer = p /\ t.seqno = trans[s].seqno
      /\ t.cmd = trans[s].cmd /\ t.timer = "process"
      /\ t.state = IF Legal(trans[s], "CONFIRMATION_RECEIVED")
                   THEN "CONFIRMATION_RECEIVED" ELSE "TERMINATING"
  BY <1>1, MovedFields DEF MovedOrEnded, States
<1>3. Good(t, nbr[p])
  <2>1. p # NoPeer
    BY <1>1, SixpTransAssumption, SixpAssumption
  <2>2. Legal(trans[s], "CONFIRMATION_RECEIVED") => trans[s].state = "RESPONSE_SENT"
    BY DEF Legal
  <2> HIDE DEF t
  <2>3. QED
    BY <1>1, <1>2, <2>1, <2>2 DEF Good
<1> HIDE DEF t
<1>4. QED
  BY <1>1, <1>2, <1>3, BlockChanges

LEMMA MacDoneStep ==
  ASSUME IInv, NEW p \in Peers, NEW ok \in BOOLEAN, MacDone(p, ok)
  PROVE  IInv'
<1>1. macq[p] \in Seq(Frames) /\ macq[p] # <<>>
  BY DEF IInv, TypeOK, MacDone
<1>2. macq' \in [Peers -> Seq(Frames)]
  <2>1. Tail(macq[p]) \in Seq(Frames)
    BY <1>1
  <2>2. QED
    BY <2>1 DEF MacDone, IInv, TypeOK
<1>3. Head(macq[p]).slot \in Slots \cup {NoSlot}
  <2>1. Head(macq[p]) \in Frames
    BY <1>1
  <2>2. QED
    BY <2>1 DEF Frames
<1>4. CASE Head(macq[p]).slot = NoSlot
  <2>1. trans' = trans /\ nbr' = nbr
    BY <1>4 DEF MacDone
  <2>2. nbr' \in [Peers -> MaybeSeqNos]
    BY <2>1 DEF IInv, TypeOK, MaybeSeqNos
  <2>3. QED
    BY <1>2, <2>1, <2>2, BlocksStay
<1>5. CASE Head(macq[p]).slot \in Slots
  <2> DEFINE s == Head(macq[p]).slot
             t == trans[s]
             u == Reported(t, ok)
  <2>1. s \in Slots /\ s # NoSlot /\ t \in Trans
    BY <1>5, SixpTransAssumption, SixpAssumption DEF IInv, TypeOK
  <2>2. /\ trans' = [trans EXCEPT ![s] = u]
        /\ nbr' = [q \in Peers |->
             IF q = t.peer THEN SeqnoReported(t, ok, nbr[q]) ELSE nbr[q]]
    BY <2>1 DEF MacDone
  <2>3. CASE t.peer \in Peers
    <3>1. nbr[t.peer] \in MaybeSeqNos /\ nbr \in [Peers -> MaybeSeqNos]
      BY <2>3 DEF IInv, TypeOK, MaybeSeqNos
    <3>2. Good(t, nbr[t.peer])
      BY <2>1 DEF IInv
    <3>3. /\ u \in Trans /\ u.peer = t.peer
          /\ SeqnoReported(t, ok, nbr[t.peer]) \in MaybeSeqNos
          /\ Good(u, SeqnoReported(t, ok, nbr[t.peer]))
      BY <2>1, <3>1, <3>2, ReportedGood
    <3>4. /\ nbr' \in [Peers -> MaybeSeqNos]
          /\ nbr'[u.peer] = SeqnoReported(t, ok, nbr[t.peer])
          /\ \A q \in Peers : q # u.peer => nbr'[q] = nbr[q]
      BY <2>2, <2>3, <3>1, <3>3
    <3>5. u.peer = trans[s].peer
      BY <3>3
    <3> HIDE DEF s, t, u
    <3>6. QED
      BY <1>2, <2>1, <2>2, <3>3, <3>4, <3>5, BlockChanges
  <2>4. CASE t.peer = NoPeer
    <3>1. 0 \in MaybeSeqNos /\ nbr \in [Peers -> MaybeSeqNos]
      BY SixpTransAssumption, SixpAssumption DEF IInv, TypeOK, SeqNos, MaybeSeqNos
    <3>2. Good(t, 0)
      <4>1. Good(t, nbr[t.peer])
        BY <2>1 DEF IInv
      <4>2. QED
        BY <4>1, <2>4 DEF Good
    <3>3. u \in Trans /\ u.peer = NoPeer /\ Good(u, SeqnoReported(t, ok, 0))
      BY <2>1, <2>4, <3>1, <3>2, ReportedGood
    <3>4. Good(u, nbr'[u.peer])
      BY <3>3 DEF Good
    <3>5. /\ nbr' \in [Peers -> MaybeSeqNos]
          /\ \A q \in Peers : q # u.peer => nbr'[q] = nbr[q]
      BY <2>2, <2>4, <3>1, SixpTransAssumption, SixpAssumption
    <3> HIDE DEF s, t, u
    <3>6. QED
      BY <1>2, <2>1, <2>2, <3>3, <3>4, <3>5, BlockChanges
  <2>5. QED
    BY <2>1, <2>3, <2>4 DEF Trans
<1>6. QED
  BY <1>3, <1>4, <1>5

LEMMA TimeoutStep ==
  ASSUME IInv, NEW s \in Slots, Timeout(s)
  PROVE  IInv'
<1> DEFINE t == Moved(trans[s], "TERMINATING")
<1>1. /\ trans[s] \in Trans /\ Good(trans[s], nbr[trans[s].peer])
      /\ nbr' = nbr /\ nbr \in [Peers -> MaybeSeqNos]
      /\ macq' \in [Peers -> Seq(Frames)]
      /\ trans' = [trans EXCEPT ![s] = t]
      /\ trans[s].timer = "timeout"
  BY DEF IInv, TypeOK, Timeout, MaybeSeqNos
<1>2. /\ t \in Trans /\ t.peer = trans[s].peer /\ t.state = "TERMINATING"
      /\ t.timer = "process"
  BY <1>1, MovedFields DEF States
<1> HIDE DEF t
<1>3. Good(t, nbr[t.peer])
  BY <1>1, <1>2 DEF Good
<1>4. QED
  BY <1>1, <1>2, <1>3, BlockChanges

LEMMA ProcessTransStep ==
  ASSUME IInv, NEW s \in Slots, ProcessTrans(s)
  PROVE  IInv'
<1>1. /\ trans[s] \in Trans /\ Good(trans[s], nbr[trans[s].peer])
      /\ nbr' = nbr /\ nbr \in [Peers -> MaybeSeqNos]
      /\ macq \in [Peers -> Seq(Frames)]
      /\ trans[s].timer = "process"
  BY DEF IInv, TypeOK, ProcessTrans, MaybeSeqNos
<1>2. CASE /\ trans' = [trans EXCEPT ![s] = FreeTrans(@.cb)]
           /\ macq' = [p \in Peers |-> Orphaned(macq[p], s)]
  <2> DEFINE t == FreeTrans(trans[s].cb)
  <2>1. t \in Trans /\ t.peer = NoPeer /\ t.timer = "off" /\ t.state = "TERMINATING"
    BY <1>1, SixpTransAssumption, SixpAssumption DEF FreeTrans, Trans, States, Timers, SeqNos
  <2>2. ASSUME NEW p \in Peers
        PROVE  Orphaned(macq[p], s) \in Seq(Frames)
    <3>1. macq[p] \in Seq(Frames)
      BY <1>1
    <3>2. Len(macq[p]) \in Nat /\ DOMAIN macq[p] = 1..Len(macq[p])
      BY <3>1
    <3>3. ASSUME NEW f \in Frames
          PROVE  [f EXCEPT !.live = FALSE] \in Frames
      BY DEF Frames
    <3>4. ASSUME NEW i \in 1..Len(macq[p])
          PROVE  (IF macq[p][i].slot = s
                  THEN [macq[p][i] EXCEPT !.live = FALSE] ELSE macq[p][i]) \in Frames
      <4>1. macq[p][i] \in Frames
        BY <3>1
      <4>2. QED
        BY <4>1, <3>3
    <3>5. Orphaned(macq[p], s) \in [1..Len(macq[p]) -> Frames]
      BY <3>2, <3>4 DEF Orphaned
    <3>6. QED
      BY <3>2, <3>5, SeqDef
  <2>3. trans' = [trans EXCEPT ![s] = t] /\ macq' \in [Peers -> Seq(Frames)]
    BY <1>2, <2>2
  <2> HIDE DEF t
  <2>4. Good(t, nbr'[t.peer])
    BY <2>1 DEF Good
  <2>5. QED
    BY <1>1, <2>1, <2>3, <2>4, BlockChanges
<1>3. CASE trans' = [trans EXCEPT ![s] = Moved(@, "TERMINATING")] /\ Over(trans[s]) /\ UNCHANGED macq
  <2> DEFINE t == Moved(trans[s], "TERMINATING")
  <2>1. /\ t \in Trans /\ t.peer = trans[s].peer /\ t.state = "TERMINATING"
        /\ t.timer = "process"
    BY <1>1, MovedFields DEF States
  <2>2. trans' = [trans EXCEPT ![s] = t] /\ macq' \in [Peers -> Seq(Frames)]
    BY <1>1, <1>3
  <2> HIDE DEF t
  <2>3. Good(t, nbr'[t.peer])
    BY <1>1, <2>1 DEF Good
  <2>4. QED
    BY <1>1, <2>1, <2>2, <2>3, BlockChanges
<1>4. CASE /\ trans[s].state # "TERMINATING" /\ ~Over(trans[s])
           /\ trans' = [trans EXCEPT ![s].timer = "timeout"]
           /\ UNCHANGED macq
  <2> DEFINE t == [trans[s] EXCEPT !.timer = "timeout"]
  <2>1. /\ t \in Trans /\ t.peer = trans[s].peer /\ t.seqno = trans[s].seqno
        /\ t.cmd = trans[s].cmd /\ t.mode = trans[s].mode
        /\ t.state = trans[s].state /\ t.timer = "timeout"
    BY <1>1 DEF Trans, Timers
  <2>2. trans' = [trans EXCEPT ![s] = t] /\ macq' \in [Peers -> Seq(Frames)]
    BY <1>1, <1>4
  <2> HIDE DEF t
  <2>3. Good(t, nbr'[t.peer])
    BY <1>1, <1>4, <2>1 DEF Good, Over
  <2>4. QED
    BY <1>1, <2>1, <2>2, <2>3, BlockChanges
<1>5. QED
  BY <1>2, <1>3, <1>4 DEF ProcessTrans
-----------------------------------------------------------------------------
(* Every step keeps the inductive invariant.                               *)
LEMMA NextIInv == IInv /\ [Next]_vars => IInv'
<1> SUFFICES ASSUME IInv, [Next]_vars PROVE IInv'
  OBVIOUS
<1>1. /\ nbr \in [Peers -> MaybeSeqNos] /\ macq \in [Peers -> Seq(Frames)]
  BY DEF IInv, TypeOK, MaybeSeqNos
<1>2. ASSUME NEW p \in Peers, NEW cmd \in Cmds, NEW mode \in {2, 3}, Request(p, cmd, mode)
      PROVE  IInv'
  BY <1>2, RequestStep
<1>3. ASSUME NEW p \in Peers, NEW seqno \in SeqNos, NEW cmd \in Cmds,
             NEW mode \in {2, 3}, InputRequest(p, seqno, cmd, mode)
      PROVE  IInv'
  BY <1>3, InputRequestStep
<1>4. ASSUME NEW s \in Slots, NEW seqno \in SeqNos, InputResponse(s, seqno)
      PROVE  IInv'
  BY <1>4, InputResponseStep
<1>5. ASSUME NEW s \in Slots, NEW seqno \in SeqNos, InputConfirmation(s, seqno)
      PROVE  IInv'
  BY <1>5, InputConfirmationStep
<1>6. ASSUME NEW p \in Peers, InputForeign(p)
      PROVE  IInv'
  <2>1. macq' \in [Peers -> Seq(Frames)] /\ trans' = trans /\ nbr' = nbr
    BY <1>6, ErrorHanded DEF InputForeign, IInv
  <2>2. QED
    BY <1>1, <2>1, BlocksStay
<1>7. ASSUME NEW p \in Peers, NEW ok \in BOOLEAN, MacDone(p, ok)
      PROVE  IInv'
  BY <1>7, MacDoneStep
<1>8. ASSUME NEW s \in Slots, Timeout(s) \/ ProcessTrans(s)
      PROVE  IInv'
  BY <1>8, TimeoutStep, ProcessTransStep
<1>9. ASSUME NEW p \in Peers, EvictNbr(p)
      PROVE  IInv'
  <2>1. /\ nbr' \in [Peers -> MaybeSeqNos]
        /\ \A q \in Peers : nbr'[q] # nbr[q] => nbr'[q] = NoNbr
    BY <1>1, <1>9 DEF EvictNbr, MaybeSeqNos
  <2>2. trans' = trans /\ macq' \in [Peers -> Seq(Frames)]
    BY <1>1, <1>9 DEF EvictNbr
  <2>3. QED
    BY <2>1, <2>2, BlocksStay
<1>10. CASE UNCHANGED vars
  BY <1>1, <1>10, BlocksStay DEF vars
<1>11. QED
  BY <1>2, <1>3, <1>4, <1>5, <1>6, <1>7, <1>8, <1>9, <1>10 DEF Next

LEMMA InvariantHolds == Spec => []IInv
<1>1. QED
  BY InitIInv, NextIInv, PTL DEF Spec

(* Type correctness.                                                       *)
THEOREM TypeCorrect == Spec => []TypeOK
<1>1. IInv => TypeOK
  BY DEF IInv
<1>2. QED
  BY <1>1, InvariantHolds, PTL

(* At most one transaction per peer, however many blocks the pool has.     *)
THEOREM OneTransactionPerPeer == Spec => []OnePerPeer
<1>1. IInv => OnePerPeer
  BY DEF IInv
<1>2. QED
  BY <1>1, InvariantHolds, PTL

(* No transaction is ever without the timer that will end or free it.      *)
THEOREM NeverWithoutTimer == Spec => []Armed
<1>1. IInv => Armed
  BY DEF IInv, Armed, Good, Used
<1>2. QED
  BY <1>1, InvariantHolds, PTL

(* next_seqno never moves under a transaction but by its own progress.     *)
THEOREM SeqnoFollowsTransaction == Spec => []SeqnoInStep
<1>1. IInv => SeqnoInStep
  <2> SUFFICES ASSUME IInv, NEW s \in Slots, Used(s),
                      nbr[trans[s].peer] # NoNbr, trans[s].cmd # "CLEAR"
               PROVE  LET t == trans[s] IN
                      /\ t.state = "INIT" => nbr[t.peer] = t.seqno
                      /\ t.state \in {"REQUEST_SENT", "RESPONSE_RECEIVED", "CONFIRMATION_SENT"}
                           => nbr[t.peer] = NextSeqno(t.seqno)
                      /\ t.state \in {"RESPONSE_SENT", "CONFIRMATION_RECEIVED"} /\ t.seqno # 0
                           => nbr[t.peer] = NextSeqno(t.seqno)
    BY DEF SeqnoInStep
  <2>1. Good(trans[s], nbr[trans[s].peer])
    BY DEF IInv
  <2>2. QED
    BY <2>1 DEF Good, Used
<1>2. QED
  BY <1>1, InvariantHolds, PTL

(* The assertion of sixp_trans_transit_state cannot fail.                  *)
THEOREM ClearAssertionHolds == Spec => []ClearAssert
<1>1. IInv => ClearAssert
  <2> SUFFICES ASSUME IInv, NEW s \in Slots, Used(s), trans[s].cmd = "CLEAR",
                      trans[s].state \in {"INIT", "REQUEST_SENT", "RESPONSE_RECEIVED"}
               PROVE  nbr[trans[s].peer] \in {0, NoNbr}
    BY DEF ClearAssert
  <2>1. Good(trans[s], nbr[trans[s].peer])
    BY DEF IInv
  <2>2. QED
    BY <2>1 DEF Good, Used
<1>2. QED
  BY <1>1, InvariantHolds, PTL
-----------------------------------------------------------------------------
(* Where next_seqno becomes 0.                                             *)

(* With a block for each peer, one is free for a peer that has none: each  *)
(* of the others serves another peer.                                      *)
EnoughBlocks == IsFiniteSet(Slots) /\ IsFiniteSet(Peers) /\ Cardinality(Peers) <= Cardinality(Slots)

LEMMA BlockIsFree ==
  ASSUME EnoughBlocks, IInv, NEW p \in Peers, ~Busy(p)
  PROVE  \E s \in Slots : ~Used(s)
<1> SUFFICES ASSUME \A s \in Slots : Used(s) PROVE FALSE
  OBVIOUS
<1> DEFINE f == [s \in Slots |-> trans[s].peer]
           others == Peers \ {p}
<1>1. \A s \in Slots : trans[s].peer \in others
  BY DEF IInv, TypeOK, Trans, Used, Busy
<1>2. f \in Injection(Slots, others)
  <2>1. \A s, r \in Slots : trans[s].peer = trans[r].peer => s = r
    BY DEF IInv, OnePerPeer
  <2> QED BY <1>1, <2>1 DEF Injection, IsInjective
<1>3. IsFiniteSet(others) /\ Cardinality(others) = Cardinality(Peers) - 1 /\ Cardinality(Peers) \in Nat
  BY FS_RemoveElement, FS_CardinalityType DEF EnoughBlocks
<1>4. Cardinality(Slots) <= Cardinality(others)
  <2> HIDE DEF f, others
  <2> QED BY <1>2, <1>3, FS_Injection
<1>5. Cardinality(Slots) \in Nat
  BY FS_CardinalityType DEF EnoughBlocks
<1> QED BY <1>3, <1>4, <1>5 DEF EnoughBlocks

(* A report may end a transaction, not give its block to another.          *)
LEMMA ReportedServes ==
  ASSUME NEW t \in Trans, NEW ok \in BOOLEAN
  PROVE  Reported(t, ok).peer = t.peer /\ Reported(t, ok).cmd = t.cmd
BY DEF Reported, MovedOrEnded, Moved, Trans

(* The block handed over to the MAC serves the peer of its frame.          *)
LEMMA HandedServes ==
  ASSUME IInv, NEW p \in Peers, NEW s \in Slots, NEW t \in Trans, NEW k, Hand(p, s, k, t)
  PROVE  trans'[s].peer = t.peer /\ trans'[s].cmd = t.cmd
<1>1. Reported(t, FALSE).peer = t.peer /\ Reported(t, FALSE).cmd = t.cmd
  BY ReportedServes
<1>2. trans \in [Slots -> Trans]
  BY DEF IInv, TypeOK
<1> QED BY <1>1, <1>2 DEF Hand

(* No report makes it 0.                                                   *)
LEMMA ReportNeverZero ==
  ASSUME NEW t \in Trans, NEW ok \in BOOLEAN, NEW n \in MaybeSeqNos, n # 0
  PROVE  SeqnoReported(t, ok, n) # 0
<1>1. t.seqno \in SeqNos
  BY DEF Trans
<1>2. n # NoNbr => n \in SeqNos
  BY DEF MaybeSeqNos
<1> QED BY <1>1, <1>2, NextSeqnoType DEF SeqnoReported, SeqnoMoved

Begins(p) == \E s \in Slots : /\ trans[s].peer # p
                              /\ trans'[s].peer = p
                              /\ trans'[s].cmd = "CLEAR"

LEMMA RequestZeroes ==
  ASSUME EnoughBlocks, IInv, NEW p \in Peers, NEW cmd \in Cmds, NEW mode \in {2, 3},
         Request(p, cmd, mode), nbr[p] \notin {0, NoNbr}, nbr'[p] = 0
  PROVE  Begins(p)
<1>1. nbr[p] \in SeqNos /\ nbr \in [Peers -> SeqNos \cup {NoNbr}]
  BY DEF IInv, TypeOK
<1>2. cmd = "CLEAR"
  BY <1>1 DEF Request
<1>3. \E s \in Slots : ~Used(s)
  BY BlockIsFree DEF Request
<1>4. PICK s \in Slots :
        /\ ~Used(s)
        /\ Hand(p, s, "REQUEST", [NewTrans(p, nbr[p], cmd, mode) EXCEPT !.cb = (cmd = "SIGNAL")])
  BY <1>3 DEF Request
<1>5. PICK t \in Trans : /\ t = [NewTrans(p, nbr[p], cmd, mode) EXCEPT !.cb = FALSE]
                         /\ t.peer = p /\ t.cmd = cmd
  <2>1. PICK b \in BOOLEAN : b = FALSE
    OBVIOUS
  <2>2. PICK q \in SeqNos : q = nbr[p]
    BY <1>1
  <2>3. LET u == [NewTrans(p, q, cmd, mode) EXCEPT !.cb = b]
        IN u \in Trans /\ u.peer = p /\ u.cmd = cmd
    BY SentFields
  <2> QED BY <2>1, <2>2, <2>3, Zenon
<1>6. Hand(p, s, "REQUEST", t)
  BY <1>2, <1>4, <1>5
<1>7. trans'[s].peer = p /\ trans'[s].cmd = "CLEAR"
  BY <1>2, <1>5, <1>6, HandedServes
<1>8. trans[s].peer # p
  BY <1>4, SixpTransAssumption DEF Used
<1> QED BY <1>7, <1>8 DEF Begins

LEMMA InputRequestZeroes ==
  ASSUME EnoughBlocks, IInv, NEW p \in Peers, NEW seqno \in SeqNos, NEW cmd \in Cmds,
         NEW mode \in {2, 3}, InputRequest(p, seqno, cmd, mode),
         nbr[p] \notin {0, NoNbr}, nbr'[p] = 0
  PROVE  Begins(p)
<1> DEFINE n == IF cmd = "CLEAR" /\ nbr[p] # NoNbr THEN 0 ELSE nbr[p]
<1>1. nbr[p] \in SeqNos /\ nbr \in [Peers -> SeqNos \cup {NoNbr}]
  BY DEF IInv, TypeOK
<1>2. ~Busy(p)
  BY DEF InputRequest
<1>3. \E s \in Slots : ~Used(s)
  BY <1>2, BlockIsFree
<1>4. PICK t \in Trans : /\ t = Moved(NewTrans(p, seqno, cmd, mode), "REQUEST_RECEIVED")
                         /\ t.peer = p /\ t.cmd = cmd
  BY ReceivedFields
<1>5. PICK s \in Slots : ~Used(s) /\ (nbr' = nbr \/ Answer(p, s, t, n))
  BY <1>2, <1>3, <1>4 DEF InputRequest
<1>6. Answer(p, s, t, n)
  BY <1>5
<1>7. n # NoNbr
  BY SixpTransAssumption
<1>8. nbr' = [nbr EXCEPT ![p] = n]
  <2> HIDE DEF n
  <2> QED BY <1>6, <1>7 DEF Answer
<1>9. cmd = "CLEAR"
  BY <1>1, <1>8
<1>10. trans'[s].peer = p /\ trans'[s].cmd = "CLEAR"
  <2>1. CASE trans' = [trans EXCEPT ![s] = t]
    <3>1. trans \in [Slots -> Trans]
      BY DEF IInv, TypeOK
    <3>2. trans'[s] = t
      BY <2>1, <3>1
    <3> QED BY <1>4, <1>9, <3>2
  <2>2. CASE Hand(p, s, "RESPONSE", [t EXCEPT !.cb = TRUE])
    <3>1. PICK u \in Trans : u = [t EXCEPT !.cb = TRUE] /\ u.peer = p /\ u.cmd = cmd
      <4>1. PICK b \in BOOLEAN : b = TRUE
        OBVIOUS
      <4>2. LET u == [t EXCEPT !.cb = b] IN u \in Trans /\ u.peer = t.peer /\ u.cmd = t.cmd
        BY CallbackFields
      <4> QED BY <1>4, <4>1, <4>2, Zenon
    <3>2. Hand(p, s, "RESPONSE", u)
      BY <2>2, <3>1
    <3> QED BY <1>9, <3>1, <3>2, HandedServes
  <2> HIDE DEF n
  <2> QED BY <1>6, <2>1, <2>2 DEF Answer
<1>11. trans[s].peer # p
  BY <1>5, SixpTransAssumption DEF Used
<1> QED BY <1>10, <1>11 DEF Begins

(* "next_seqno can be 0 only by initialization of nbr or by a CLEAR        *)
(* transaction" (sixp_nbr_increment_next_seqno): with a block for each     *)
(* peer, a step that makes it 0 begins a CLEAR transaction with that peer. *)
THEOREM OnlyClearZeroes ==
  ASSUME EnoughBlocks PROVE Spec => ZeroOnlyByClear
<1> DEFINE Step == \A p \in Peers : nbr[p] \notin {0, NoNbr} /\ nbr'[p] = 0 => Begins(p)
<1>1. IInv /\ [Next]_vars => [Step]_vars
  <2> SUFFICES ASSUME IInv, Next, NEW p \in Peers, nbr[p] \notin {0, NoNbr}, nbr'[p] = 0
               PROVE  Begins(p)
    BY DEF vars
  <2>1. nbr \in [Peers -> MaybeSeqNos] /\ nbr' # nbr
    BY DEF IInv, TypeOK, MaybeSeqNos
  <2>2. ASSUME NEW q \in Peers, NEW cmd \in Cmds, NEW mode \in {2, 3}, Request(q, cmd, mode)
        PROVE  Begins(p)
    <3>1. q = p
      BY <2>1, <2>2 DEF Request
    <3> QED BY <2>2, <3>1, RequestZeroes
  <2>3. ASSUME NEW q \in Peers, NEW seqno \in SeqNos, NEW cmd \in Cmds, NEW mode \in {2, 3},
               InputRequest(q, seqno, cmd, mode)
        PROVE  Begins(p)
    <3>1. q = p
      BY <2>1, <2>3 DEF InputRequest, Answer
    <3> QED BY <2>3, <3>1, InputRequestZeroes
  <2>4. ASSUME NEW q \in Peers, NEW ok \in BOOLEAN, MacDone(q, ok) PROVE FALSE
    <3>1. PICK s : s = Head(macq[q]).slot
      OBVIOUS
    <3>2. Head(macq[q]) \in Frames
      BY <2>4 DEF MacDone, IInv, TypeOK
    <3>3. s \in Slots \cup {NoSlot}
      BY <3>1, <3>2 DEF Frames
    <3>4. s # NoSlot /\ nbr'[p] = IF p = trans[s].peer THEN SeqnoReported(trans[s], ok, nbr[p]) ELSE nbr[p]
      BY <2>1, <2>4, <3>1 DEF MacDone
    <3>5. trans[s] \in Trans /\ nbr[p] \in MaybeSeqNos
      BY <2>1, <3>3, <3>4 DEF IInv, TypeOK
    <3> QED BY <3>4, <3>5, ReportNeverZero
  <2>5. ASSUME NEW q \in Peers, EvictNbr(q) PROVE FALSE
    BY <2>1, <2>5, SixpTransAssumption DEF EvictNbr
  <2>6. ASSUME NEW s \in Slots, NEW seqno \in SeqNos, InputResponse(s, seqno) \/ InputConfirmation(s, seqno)
        PROVE  FALSE
    BY <2>1, <2>6 DEF InputResponse, InputConfirmation
  <2>7. ASSUME NEW s \in Slots, Timeout(s) \/ ProcessTrans(s) PROVE FALSE
    BY <2>1, <2>7 DEF Timeout, ProcessTrans
  <2>8. ASSUME NEW q \in Peers, InputForeign(q) PROVE FALSE
    BY <2>1, <2>8 DEF InputForeign
  <2> QED BY <2>2, <2>3, <2>4, <2>5, <2>6, <2>7, <2>8 DEF Next
<1> QED BY <1>1, InvariantHolds, PTL DEF Spec, ZeroOnlyByClear, Begins
=============================================================================
