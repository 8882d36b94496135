------------------------------ MODULE SixpTrans ------------------------------
(***************************************************************************)
(* A 6P transaction and what the code does to one: the state machine of    *)
(* sixp-trans.c, the sequence numbers of sixp-nbr.c and mac_callback of    *)
(* sixp.c, as operators on the record of a transaction. The modules of one *)
(* node (Sixp) and of a network (SfsbNet) are built from them.             *)
(***************************************************************************)
EXTENDS Naturals

CONSTANTS Peers,     (* link-layer addresses of the neighbours              *)
          SeqMod,    (* number of values of a sequence number, 2^8 in C     *)
          Cmds,      (* the 6P commands of this instance                    *)
          NoNbr,     (* "the neighbour has no 6P state"                     *)
          NoPeer     (* the peer of a free block                            *)

ASSUME SixpTransAssumption ==
  /\ SeqMod \in Nat /\ SeqMod > 1
  /\ Cmds \subseteq {"ADD", "DELETE", "CLEAR", "SIGNAL"}
  /\ NoNbr \notin Nat
  /\ NoPeer \notin Peers

SeqNos == 0..(SeqMod - 1)
States == {"INIT", "REQUEST_SENT", "REQUEST_RECEIVED", "RESPONSE_SENT",
           "RESPONSE_RECEIVED", "CONFIRMATION_SENT",
           "CONFIRMATION_RECEIVED", "TERMINATING"}

(* A ctimer is off, runs the SF's timeout, or is due for process_trans.    *)
Timers == {"off", "timeout", "process"}
Trans == [peer : Peers \cup {NoPeer}, seqno : SeqNos, cmd : Cmds \cup {"NONE"},
          state : States, mode : {2, 3}, cb : BOOLEAN, timer : Timers]
-----------------------------------------------------------------------------
(* sixp-nbr.c *)

NextSeqnoUnwrapped(n) == n + 1                       \* mutant
NextSeqnoZero(n) == (n + 1) % SeqMod                 \* mutant

(* The successor never is 0: 255 is followed by 1. *)
NextSeqno(n) == IF n + 1 = SeqMod THEN 1 ELSE n + 1

(* sixp-trans.c *)

Legal(t, new) ==
  \/ new = "TERMINATING"
  \/ t.state = "INIT" /\ new \in {"REQUEST_SENT", "REQUEST_RECEIVED"}
  \/ t.state = "REQUEST_RECEIVED" /\ new = "RESPONSE_SENT"
  \/ t.state = "REQUEST_SENT" /\ new = "RESPONSE_RECEIVED"
  \/ /\ t.mode = 3
     /\ \/ t.state = "RESPONSE_SENT" /\ new = "CONFIRMATION_RECEIVED"
        \/ t.state = "RESPONSE_RECEIVED" /\ new = "CONFIRMATION_SENT"

MovedQuietly(t, new) == [t EXCEPT !.state = new]     \* mutant

(* A legal move also makes process_trans due. *)
Moved(t, new) == [t EXCEPT !.state = new, !.timer = "process"]

(* An illegal one ends the transaction, in every caller that may meet it.  *)
MovedOrEnded(t, new) == Moved(t, IF Legal(t, new) THEN new ELSE "TERMINATING")

SeqnoMovedAlways(t, new, n) ==                       \* mutant
  IF n # NoNbr /\ new \in {"REQUEST_SENT", "RESPONSE_SENT"}
  THEN NextSeqno(n) ELSE n
SeqnoMovedClearToo(t, new, n) ==                     \* mutant
  IF n = NoNbr THEN n
  ELSE IF new = "REQUEST_SENT" THEN NextSeqno(n)
  ELSE IF new = "RESPONSE_SENT"
       THEN NextSeqno(IF t.seqno # 0 THEN t.seqno ELSE n)
  ELSE n

(* next_seqno of the peer, n before, once transaction t moved to new.      *)
SeqnoMoved(t, new, n) ==
  IF n = NoNbr THEN n
  ELSE IF new = "REQUEST_SENT" /\ t.cmd # "CLEAR" THEN NextSeqno(n)
  ELSE IF new = "RESPONSE_SENT"
       THEN NextSeqno(IF t.seqno # 0 THEN t.seqno ELSE n)
  ELSE n

NewTrans(p, seqno, cmd, mode) ==
  [peer |-> p, seqno |-> seqno, cmd |-> cmd, state |-> "INIT",
   mode |-> mode, cb |-> FALSE, timer |-> "timeout"]

(* memb_free leaves the content: a late callback finds a block in the      *)
(* state in which it was freed, with the callback it had; the rest of the  *)
(* content is forgotten here, nothing reads it.                            *)
FreeTrans(cb) ==
  [peer |-> NoPeer, seqno |-> 0, cmd |-> "NONE", state |-> "TERMINATING",
   mode |-> 2, cb |-> cb, timer |-> "off"]

(* determine_trans_mode: three steps need an ADD or a DELETE without cells *)
Modes(cmd) == IF cmd \in {"ADD", "DELETE"} THEN {2, 3} ELSE {2}
-----------------------------------------------------------------------------
(* sixp.c: mac_callback on the record t *)

AckedState(t) ==
  CASE t.state = "INIT" -> "REQUEST_SENT"
    [] t.state = "REQUEST_RECEIVED" -> "RESPONSE_SENT"
    [] t.state = "RESPONSE_RECEIVED" -> "CONFIRMATION_SENT"
    [] OTHER -> t.state

Reported(t, ok) ==
  IF ok
  THEN IF AckedState(t) = t.state THEN t
       ELSE [MovedOrEnded(t, AckedState(t))
               EXCEPT !.cb = t.cb /\ ~Legal(t, AckedState(t))]
  ELSE [(IF t.state = "INIT" THEN Moved(t, "TERMINATING") ELSE t)
          EXCEPT !.cb = FALSE]

SeqnoReported(t, ok, n) ==
  IF ok /\ AckedState(t) # t.state /\ Legal(t, AckedState(t))
  THEN SeqnoMoved(t, AckedState(t), n) ELSE n

Over(t) ==
  \/ t.mode = 2 /\ t.state \in {"RESPONSE_SENT", "RESPONSE_RECEIVED"}
  \/ t.state \in {"CONFIRMATION_SENT", "CONFIRMATION_RECEIVED"}
=============================================================================
