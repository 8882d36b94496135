-------------------------------- MODULE Sixp --------------------------------
(***************************************************************************)
(* The 6P layer of one node: the transactions (sixp-trans.c), the sequence *)
(* numbers kept per neighbour (sixp-nbr.c), the input and output paths of  *)
(* the protocol (sixp.c) and the hand-over of its frames to the MAC        *)
(* (sixtop_output in sixtop.c).                                            *)
(*                                                                         *)
(* The scheduling function above (any one that uses sixp_output), the      *)
(* peers beyond the radio and the MAC below are the environment: a request *)
(* may be asked for at any time, any frame may arrive from any peer, and   *)
(* the MAC reports on the frames of one peer in the order it was given     *)
(* them, each with success or failure.                                     *)
(***************************************************************************)
EXTENDS SixpTrans, Sequences

CONSTANTS Slots,     (* blocks of trans_memb, SIXTOP_MAX_TRANSACTIONS       *)
          QueueCap,  (* bound: 6P frames to one peer inside the MAC         *)
          NoSlot     (* the callback argument of a frame sent without one   *)

ASSUME SixpAssumption ==
  /\ QueueCap \in Nat
  /\ NoSlot \notin Slots

VARIABLES trans,   (* [Slots -> record]: the blocks of trans_memb           *)
          nbr,     (* [Peers -> next_seqno or NoNbr]: table sixp_nbrs       *)
          macq     (* [Peers -> sequence of frames]: inside the MAC         *)

vars == <<trans, nbr, macq>>

(* A frame keeps what mac_callback gets, the block, and says whether the   *)
(* transaction that sent it still exists ("live" is a history variable:    *)
(* the code has only the pointer).                                         *)
Frames == [kind : {"REQUEST", "RESPONSE", "CONFIRMATION", "ERROR"},
           slot : Slots \cup {NoSlot}, live : BOOLEAN]

TypeOK ==
  /\ trans \in [Slots -> Trans]
  /\ nbr \in [Peers -> SeqNos \cup {NoNbr}]
  /\ macq \in [Peers -> Seq(Frames)]

Used(s) == trans[s].peer # NoPeer
BusyUnlessEnding(p) ==                               \* mutant
  \E s \in Slots : trans[s].peer = p /\ trans[s].state # "TERMINATING"
Busy(p) == \E s \in Slots : trans[s].peer = p      \* sixp_trans_find
-----------------------------------------------------------------------------
(* A frame of kind k handed to the MAC for peer p on behalf of block s,    *)
(* whose transaction is t: queued, or refused, when mac_callback runs on   *)
(* the spot (send_packet in tsch.c: not associated, no room).              *)
Hand(p, s, k, t) ==
  \/ /\ Len(macq[p]) < QueueCap
     /\ trans' = [trans EXCEPT ![s] = t]
     /\ macq' = [macq EXCEPT
          ![p] = Append(@, [kind |-> k, slot |-> s, live |-> TRUE])]
  \/ /\ trans' = [trans EXCEPT ![s] = Reported(t, FALSE)]
     /\ UNCHANGED macq

(* send_back_error: no transaction, no callback, no matter if it is lost.  *)
HandError(p) ==
  \/ /\ Len(macq[p]) < QueueCap
     /\ macq' = [macq EXCEPT
          ![p] = Append(@, [kind |-> "ERROR", slot |-> NoSlot, live |-> FALSE])]
  \/ UNCHANGED macq
-----------------------------------------------------------------------------
(* The SF sends a request: sixp_output with type REQUEST. The neighbour    *)
(* state is made when missing and a CLEAR resets it before the transaction *)
(* is allocated, which fails when every block is taken. As in sfsb.c only  *)
(* a SIGNAL asks for a callback.                                           *)
Request(p, cmd, mode) ==
  /\ ~Busy(p)
  /\ mode \in Modes(cmd)
  /\ LET seqno == IF nbr[p] = NoNbr THEN 0 ELSE nbr[p]
     IN /\ nbr' = [nbr EXCEPT ![p] = IF cmd = "CLEAR" THEN 0 ELSE seqno]
        /\ \/ \E s \in Slots :
                /\ ~Used(s)
                /\ Hand(p, s, "REQUEST",
                        [NewTrans(p, seqno, cmd, mode)
                          EXCEPT !.cb = (cmd = "SIGNAL")])
           \/ /\ \A s \in Slots : Used(s)
              /\ UNCHANGED <<trans, macq>>

Inconsistent(p, cmd, seqno) ==
  /\ cmd # "CLEAR"
  /\ \/ nbr[p] = NoNbr /\ seqno # 0
     \/ nbr[p] \notin {NoNbr, 0} /\ seqno = 0

(* The SF answers a request from inside its input handler, or does not:    *)
(* it then is silent until the transaction times out. It asks to be called *)
(* back about every answer (as sfsb.c does). A success to ADD or DELETE    *)
(* needs the neighbour state; without memory for it nothing is sent *)
(* (as if the SF were silent).                                             *)
Answer(p, s, t, n) ==
  \/ /\ trans' = [trans EXCEPT ![s] = t]
     /\ nbr' = [nbr EXCEPT ![p] = n]
     /\ UNCHANGED macq
  \/ \E success \in BOOLEAN :
       /\ nbr' = [nbr EXCEPT ![p] =
            IF n = NoNbr /\ success /\ t.cmd \in {"ADD", "DELETE"} THEN 0 ELSE n]
       /\ Hand(p, s, "RESPONSE", [t EXCEPT !.cb = TRUE])

(* sixp_input, a request                                                   *)
InputRequest(p, seqno, cmd, mode) ==
  /\ mode \in Modes(cmd)
  /\ IF Busy(p)
     THEN HandError(p) /\ UNCHANGED <<trans, nbr>>                 \* BUSY
     ELSE LET n == IF cmd = "CLEAR" /\ nbr[p] # NoNbr THEN 0 ELSE nbr[p]
          IN \/ /\ \A s \in Slots : Used(s)                        \* BUSY
                /\ nbr' = [nbr EXCEPT ![p] = n]
                /\ HandError(p)
                /\ UNCHANGED trans
             \/ \E s \in Slots :
                  LET t == Moved(NewTrans(p, seqno, cmd, mode),
                                 "REQUEST_RECEIVED")
                  IN /\ ~Used(s)
                     /\ IF Inconsistent(p, cmd, seqno)
                        THEN /\ trans' = [trans EXCEPT ![s] = t]
                             /\ UNCHANGED nbr
                             /\ HandError(p)                       \* SEQNUM
                        ELSE Answer(p, s, t, n)

(* sixp_input, a response; after three steps' second the SF may confirm.   *)
InputResponse(s, seqno) ==
  LET t == MovedOrEnded(trans[s], "RESPONSE_RECEIVED")
  IN /\ Used(s) /\ trans[s].seqno = seqno
     /\ \/ /\ trans' = [trans EXCEPT ![s] = t]
           /\ UNCHANGED macq
        \/ /\ t.state = "RESPONSE_RECEIVED"
           /\ Hand(t.peer, s, "CONFIRMATION", [t EXCEPT !.cb = TRUE])
     /\ UNCHANGED nbr

(* sixp_input, a confirmation                                              *)
InputConfirmation(s, seqno) ==
  /\ Used(s) /\ trans[s].seqno = seqno
  /\ trans' = [trans EXCEPT ![s] = MovedOrEnded(@, "CONFIRMATION_RECEIVED")]
  /\ UNCHANGED <<nbr, macq>>

(* sixp_input, a packet of another version or of an SF not installed here  *)
InputForeign(p) ==
  /\ HandError(p)
  /\ UNCHANGED <<trans, nbr>>

(* The MAC is through with the first frame to p: mac_callback, which has   *)
(* only the block's address.                                               *)
MacDone(p, ok) ==
  /\ macq[p] # <<>>
  /\ macq' = [macq EXCEPT ![p] = Tail(@)]
  /\ LET s == Head(macq[p]).slot
     IN IF s = NoSlot THEN UNCHANGED <<trans, nbr>>
        ELSE /\ trans' = [trans EXCEPT ![s] = Reported(@, ok)]
             /\ nbr' = [q \in Peers |->
                  IF q = trans[s].peer
                  THEN SeqnoReported(trans[s], ok, nbr[q]) ELSE nbr[q]]
-----------------------------------------------------------------------------
(* handle_trans_timeout *)
Timeout(s) ==
  /\ trans[s].timer = "timeout"
  /\ trans' = [trans EXCEPT ![s] = Moved(@, "TERMINATING")]
  /\ UNCHANGED <<nbr, macq>>

Orphaned(q, s) ==
  [i \in DOMAIN q |->
     IF q[i].slot = s THEN [q[i] EXCEPT !.live = FALSE] ELSE q[i]]

ProcessTransUntimed(s) ==                            \* mutant
  /\ trans[s].timer = "process"
  /\ UNCHANGED nbr
  /\ \/ /\ trans[s].state = "TERMINATING"
        /\ trans' = [trans EXCEPT ![s] = FreeTrans(@.cb)]
        /\ macq' = [p \in Peers |-> Orphaned(macq[p], s)]
     \/ /\ trans[s].state # "TERMINATING"
        /\ trans' = [trans EXCEPT ![s].timer = "off"]
        /\ UNCHANGED macq

(* process_trans *)
ProcessTrans(s) ==
  /\ trans[s].timer = "process"
  /\ UNCHANGED nbr
  /\ \/ /\ trans[s].state = "TERMINATING"
        /\ trans' = [trans EXCEPT ![s] = FreeTrans(@.cb)]
        /\ macq' = [p \in Peers |-> Orphaned(macq[p], s)]
     \/ /\ Over(trans[s])
        /\ trans' = [trans EXCEPT ![s] = Moved(@, "TERMINATING")]
        /\ UNCHANGED macq
     \/ /\ trans[s].state # "TERMINATING" /\ ~Over(trans[s])
        /\ trans' = [trans EXCEPT ![s].timer = "timeout"]
        /\ UNCHANGED macq

(* The neighbour table takes the entry of p back for another neighbour     *)
(* (nbr_table_allocate): 6P never locks its entries.                       *)
EvictNbr(p) ==
  /\ nbr[p] # NoNbr
  /\ nbr' = [nbr EXCEPT ![p] = NoNbr]
  /\ UNCHANGED <<trans, macq>>
-----------------------------------------------------------------------------
Init ==
  /\ trans = [s \in Slots |-> FreeTrans(FALSE)]
  /\ nbr = [p \in Peers |-> NoNbr]
  /\ macq = [p \in Peers |-> <<>>]

Next ==
  \/ \E p \in Peers, cmd \in Cmds, mode \in {2, 3} : Request(p, cmd, mode)
  \/ \E p \in Peers, seqno \in SeqNos, cmd \in Cmds, mode \in {2, 3} :
       InputRequest(p, seqno, cmd, mode)
  \/ \E s \in Slots, seqno \in SeqNos : InputResponse(s, seqno)
  \/ \E s \in Slots, seqno \in SeqNos : InputConfirmation(s, seqno)
  \/ \E p \in Peers : InputForeign(p)
  \/ \E p \in Peers, ok \in BOOLEAN : MacDone(p, ok)
  \/ \E s \in Slots : Timeout(s)
  \/ \E s \in Slots : ProcessTrans(s)
  \/ \E p \in Peers : EvictNbr(p)

Spec == Init /\ [][Next]_vars

(* Contiki's ctimer process runs every timer that expires. Nothing is      *)
(* assumed of the peers, of the SF or of the MAC.                          *)
Fairness == \A s \in Slots : WF_vars(Timeout(s)) /\ WF_vars(ProcessTrans(s))
FairSpec == Spec /\ Fairness
-----------------------------------------------------------------------------
(* Properties *)

(* At most one transaction per peer (the assumption noted in               *)
(* sixp_trans_find, which stops at the first match): two would make every  *)
(* lookup by address ambiguous.                                            *)
OnePerPeer ==
  \A s1, s2 \in Slots :
    Used(s1) /\ trans[s1].peer = trans[s2].peer => s1 = s2

(* No path of sixp-trans.c leaves a transaction without a pending timer,   *)
(* and one that is over waits for process_trans, never for the timeout: a  *)
(* block of the pool (of one by default) cannot leak.                      *)
Armed ==
  \A s \in Slots :
    /\ Used(s) <=> trans[s].timer # "off"
    /\ trans[s].timer = "timeout" =>
         trans[s].state # "TERMINATING" /\ ~Over(trans[s])

(* While we drive a transaction with p, next_seqno is the number the       *)
(* request carries until the request counts as sent and its successor      *)
(* afterwards, unless the table took the neighbour's entry back: no other  *)
(* request, incoming or ours, and no late MAC report moves it.             *)
SeqnoInStep ==
  \A s \in Slots :
    LET t == trans[s]
    IN /\ Used(s) /\ nbr[t.peer] # NoNbr /\ t.cmd # "CLEAR"
       => /\ t.state = "INIT" => nbr[t.peer] = t.seqno
          /\ t.state \in {"REQUEST_SENT", "RESPONSE_RECEIVED", "CONFIRMATION_SENT"}
               => nbr[t.peer] = NextSeqno(t.seqno)
          /\ t.state \in {"RESPONSE_SENT", "CONFIRMATION_RECEIVED"} /\ t.seqno # 0
               => nbr[t.peer] = NextSeqno(t.seqno)

(* assert(sixp_nbr_get_next_seqno(nbr) == 0) in sixp_trans_transit_state:  *)
(* when our CLEAR counts as sent, next_seqno still is 0.                   *)
ClearAssert ==
  \A s \in Slots :
    /\ Used(s)
    /\ trans[s].cmd = "CLEAR"
    /\ trans[s].state \in {"INIT", "REQUEST_SENT", "RESPONSE_RECEIVED"}
    => nbr[trans[s].peer] \in {0, NoNbr}

(* "next_seqno can be 0 only by initialization of nbr or by a CLEAR        *)
(* transaction" (sixp_nbr_increment_next_seqno): a step that zeroes it     *)
(* begins a CLEAR transaction with that peer.                              *)
ZeroOnlyByClear ==
  [][\A p \in Peers :
       nbr[p] \notin {0, NoNbr} /\ nbr'[p] = 0 =>
         \E s \in Slots : /\ trans[s].peer # p
                          /\ trans'[s].peer = p
                          /\ trans'[s].cmd = "CLEAR"]_vars

(* "the request is acknowledged by the peer" (sixp_trans_transit_state):   *)
(* a transaction becomes REQUEST_SENT on the report about its own request. *)
SentMeansAcked ==
  [][\A s \in Slots :
       Used(s) /\ trans[s].state = "INIT" /\ trans'[s].state = "REQUEST_SENT" =>
         \E p \in Peers : /\ macq[p] # <<>>
                          /\ macq'[p] = Tail(macq[p])
                          /\ Head(macq[p]) =
                               [kind |-> "REQUEST", slot |-> s, live |-> TRUE]]_vars

(* Every transaction ends and gives its block back, whatever the peer, the *)
(* SF and the MAC do or fail to do.                                        *)
TransEnds == \A s \in Slots : Used(s) ~> ~Used(s)
=============================================================================
