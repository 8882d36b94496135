----------------------------- MODULE Blacklist -----------------------------
(***************************************************************************)
(* The channel blacklists of blacklist.c and the SIGNALs of sfsb.c that    *)
(* distribute them: a node blacklists channels, tells the neighbours it    *)
(* has cells with, and both ends of a cell then hop past those channels,   *)
(* each by what it knows: two ends that differ do not meet.                *)
(*                                                                         *)
(* Time goes in units of a part of the interval between two rounds of      *)
(* blacklisting; what happens between two of them (Later) is quick, but in *)
(* any order. Times of updates and notifications are only ever compared    *)
(* with each other: the model keeps which is the later.                    *)
(***************************************************************************)
EXTENDS Integers, Sequences, FiniteSets, FiniteSetsExt, Functions, TLC

CONSTANTS Nodes,
          Nbrs,          (* [node -> the neighbours sfsb knows]            *)
          Blacklisters,  (* nodes whose application blacklists: the root   *)
          sfsb_channels, (* what it blacklists                             *)
          Lifetime,      (* of an entry: sfsb_blacklist_lifetime, 10 min   *)
          Interval,      (* between rounds: BLACKLIST_NOTIFY_INTERVAL, 5   *)
          MaxAge,        (* units until the MAC has reported on a frame    *)
          PrivatePool,   (* blocks of mem_bl_entries                       *)
          NbrPool,       (* blocks of mem_nbr_bl_ent                       *)
          Room           (* entries that fit into buf[] of sfsb_bl_send    *)

ASSUME BlacklistAssumption ==
  /\ IsFiniteSet(Nodes) /\ Nbrs \in [Nodes -> SUBSET Nodes] /\ Blacklisters \subseteq Nodes
  /\ \A n \in Nodes : n \notin Nbrs[n]
  /\ sfsb_channels \subseteq 11..26 /\ Cardinality(sfsb_channels) <= Room
  /\ {Lifetime, Interval, PrivatePool, NbrPool, Room} \subseteq Nat \ {0}
  /\ MaxAge \in 1 .. Lifetime - 1

VARIABLES private,   (* [n][c]: units its own entry for c has left         *)
          informed,  (* [n][m][c]: m was notified "before", "with" or      *)
                     (* "after" the last update of n's entry for c         *)
          instant,   (* updates <<n, c>> and notifications <<n, m>> of     *)
                     (* this tick of the clock                             *)
          heard,     (* [n][m][c][u]: entries for c in n's list from m     *)
                     (* with u units left                                  *)
          cells,     (* [n][m]: n has dedicated Tx links to m              *)
          open,      (* [n][m]: a SIGNAL transaction of n with m is open   *)
          queue,     (* [n][m]: SIGNALs from n to m in TSCH                *)
          inbox,     (* [n][m]: SIGNALs from m that 6P of n has yet to see *)
          wait,      (* [n]: units since its last round                    *)
          posted,    (* nodes whose distribution process has an event      *)
          stopped    (* benchmark_stop_timer has expired                   *)

vars == <<private, informed, instant, heard, cells, open, queue, inbox, wait, posted, stopped>>
lists == <<private, informed, heard>>
signals == <<open, queue, inbox>>

Absent == Lifetime + 1
Units == 0 .. Lifetime
Pairs == {p \in Nodes \X Nodes : p[2] \in Nbrs[p[1]]}

TypeOK ==
  /\ private \in [Nodes -> [sfsb_channels -> Units \cup {Absent}]]
  /\ informed \in [Nodes -> [Nodes -> [sfsb_channels -> {"before", "with", "after"}]]]
  /\ instant \subseteq (Nodes \X sfsb_channels) \cup Pairs
  /\ heard \in [Nodes -> [Nodes -> [sfsb_channels -> [Units -> 0 .. NbrPool]]]]
  /\ cells \in [Nodes -> [Nodes -> BOOLEAN]] /\ open \in [Nodes -> [Nodes -> BOOLEAN]]
  /\ wait \in [Nodes -> 0 .. Interval] /\ posted \subseteq Nodes /\ stopped \in BOOLEAN
  /\ queue \in [Nodes -> [Nodes -> Seq([chs : SUBSET sfsb_channels, age : 0 .. MaxAge, there : BOOLEAN])]]
  /\ inbox \in [Nodes -> [Nodes -> Seq([chs : SUBSET sfsb_channels, age : 0 .. MaxAge])]]

Entries(n) == {c \in sfsb_channels : private[n][c] # Absent}
Copies(n, m, c) == SumFunction(heard[n][m][c])
Used(n) == SumFunction([p \in Nbrs[n] \X sfsb_channels |-> Copies(n, p[1], p[2])])
-----------------------------------------------------------------------------
(* Which channel a node uses                                               *)

(* sfsb_bl_check_helper                                                    *)
AvoidsOwn(n, m, c) ==                                           \* mutant
  c \in sfsb_channels /\ c \in Entries(n) /\ informed[n][m][c] = "after"
Avoids(n, m, c) ==
  /\ c \in sfsb_channels
  /\ (c \in Entries(n) /\ informed[n][m][c] = "after") \/ Copies(n, m, c) > 0

(* sfsb_bl_check: three channels are tried, Skip is its 0xFF. The slot     *)
(* asks for each cell that is not shared, before it sends or listens.      *)
Skip == 255
Swapped(c) == ((c - 11 + 7) % 16) + 11
sfsb_bl_check(n, m, c) ==
  IF ~Avoids(n, m, c) THEN c
  ELSE IF ~Avoids(n, m, Swapped(c)) THEN Swapped(c)
  ELSE IF ~Avoids(n, m, Swapped(Swapped(c))) THEN Swapped(Swapped(c))
  ELSE Skip
-----------------------------------------------------------------------------
(* The lists                                                               *)

(* updated = clock_time(), in n's entries for chs                          *)
Stamped(n, chs) ==
  /\ informed' = [informed EXCEPT ![n] =
       [m \in Nodes |-> [c \in sfsb_channels |->
          IF c \notin chs THEN @[m][c] ELSE IF <<n, m>> \in instant THEN "with" ELSE "before"]]]
  /\ instant' = instant \cup ({n} \X chs)

(* memb_alloc for each of chs: those that get one of the free blocks       *)
Allocated(chs, free) ==
  {got \in SUBSET chs : Cardinality(got) = Min({free, Cardinality(chs)})}

(* sfsb_bl_add_update for each of chs: those that have an entry start      *)
(* their timers again, the others get a block as long as there is one.     *)
AddUpdate(n, chs) ==
  \E new \in Allocated(chs \ Entries(n), PrivatePool - Cardinality(Entries(n))) :
    LET stamped == (chs \cap Entries(n)) \cup new
    IN /\ private' = [private EXCEPT ![n] =
            [c \in sfsb_channels |-> IF c \in stamped THEN Lifetime ELSE @[c]]]
       /\ Stamped(n, stamped)

(* sfsb_bl_unpack: generic_add_update looks each channel up in the node's  *)
(* own list, whatever list it was given. A channel the node has itself     *)
(* gets no entry from the neighbour, one that it has not gets one more at  *)
(* each SIGNAL. The time the SIGNAL took is taken off.                     *)
LeftUncompensated(s) == Lifetime                                \* mutant
Left(s) == Lifetime - s.age

Unpack(n, m, s) ==
  LET own == s.chs \cap Entries(n)
  IN /\ \E new \in Allocated(s.chs \ own, NbrPool - Used(n)) :
          heard' = [heard EXCEPT ![n][m] = [c \in sfsb_channels |-> [u \in Units |->
            IF c \in new /\ u = Left(s) THEN @[c][u] + 1 ELSE @[c][u]]]]
     /\ private' = [private EXCEPT ![n] =
          [c \in sfsb_channels |-> IF c \in own THEN Left(s) ELSE @[c]]]
     /\ Stamped(n, own)
-----------------------------------------------------------------------------
(* Telling the neighbours                                                  *)

(* sfsb_bl_updated                                                         *)
Updated(n, m) == \E c \in Entries(n) : informed[n][m][c] = "before"

(* sfsb_bl_send to those of tell it can be sent to: the neighbour has      *)
(* cells, something is new to it, and 6P takes the request.                *)
Send(n, tell) ==
  LET to == {m \in tell : cells[n][m] /\ Updated(n, m)' /\ ~open[n][m]}
      signal == [chs |-> Entries(n)', age |-> 0, there |-> FALSE]
  IN /\ queue' = [queue EXCEPT ![n] =
          [m \in Nodes |-> IF m \in to THEN Append(@[m], signal) ELSE @[m]]]
     /\ open' = [open EXCEPT ![n] = [m \in Nodes |-> @[m] \/ m \in to]]

(* A round of the root's benchmark process: it blacklists its channels,    *)
(* wakes the distribution process and sends SIGNALs. 6P may be busy with   *)
(* all but tell.                                                           *)
Round(n, tell) ==
  /\ n \in Blacklisters /\ ~stopped /\ wait[n] = Interval
  /\ UNCHANGED <<heard, cells, inbox, stopped>>
  /\ AddUpdate(n, sfsb_channels)
  /\ Send(n, tell)
  /\ wait' = [wait EXCEPT ![n] = 0]
  /\ posted' = posted \cup {n}

(* p_sfsb_bl_distribution                                                  *)
Distribute(n, tell) ==
  /\ n \in posted
  /\ UNCHANGED <<lists, instant>>
  /\ Send(n, tell)
  /\ posted' = posted \ {n}
  /\ UNCHANGED <<cells, inbox, wait, stopped>>

(* A slot takes longer than a tick: a frame is not done in the one it was  *)
(* handed over in.                                                         *)
Under(n, m) ==
  /\ queue[n][m] # <<>>
  /\ Head(queue[n][m]).age > 0 \/ \A c \in sfsb_channels : <<n, c>> \notin instant

(* The frame at the head of the queue reaches the neighbour's radio.       *)
Arrive(n, m) ==
  /\ Under(n, m) /\ ~Head(queue[n][m]).there
  /\ queue' = [queue EXCEPT ![n][m][1].there = TRUE]
  /\ inbox' = [inbox EXCEPT ![m][n] =
       Append(@, [chs |-> Head(queue[n][m]).chs, age |-> Head(queue[n][m]).age])]
  /\ UNCHANGED <<lists, instant, cells, open, wait, posted, stopped>>

(* signal_request_sent_callback, on an acknowledgement: notified is now.   *)
Acked(n, m) ==
  /\ queue[n][m] # <<>> /\ Head(queue[n][m]).there
  /\ queue' = [queue EXCEPT ![n][m] = Tail(@)]
  /\ informed' = [informed EXCEPT ![n][m] =
       [c \in sfsb_channels |-> IF <<n, c>> \in instant THEN "with" ELSE "after"]]
  /\ instant' = instant \cup {<<n, m>>}
  /\ UNCHANGED <<private, heard, cells, open, inbox, wait, posted, stopped>>

(* The last retransmission was not acknowledged, or it was never sent.     *)
NotAcked(n, m) ==
  /\ Under(n, m)
  /\ queue' = [queue EXCEPT ![n][m] = Tail(@)]
  /\ UNCHANGED <<lists, instant, cells, open, inbox, wait, posted, stopped>>

(* 6P hands a SIGNAL to signal_req_input.                                  *)
SignalReqInput(n, m) ==
  /\ inbox[n][m] # <<>>
  /\ Unpack(n, m, Head(inbox[n][m]))
  /\ inbox' = [inbox EXCEPT ![n][m] = Tail(@)]
  /\ UNCHANGED <<cells, open, queue, wait, posted, stopped>>

(* 6P refuses it: a transaction with the neighbour is open, or it does not *)
(* agree with the sequence number.                                         *)
Refuse(n, m) ==
  /\ inbox[n][m] # <<>>
  /\ inbox' = [inbox EXCEPT ![n][m] = Tail(@)]
  /\ UNCHANGED <<lists, instant, cells, open, queue, wait, posted, stopped>>

(* A SIGNAL is not answered: its transaction ends by its timer, long after *)
(* the distribution process has run.                                       *)
TransTimeout(n, m) ==
  /\ open[n][m] /\ n \notin posted
  /\ open' = [open EXCEPT ![n][m] = FALSE]
  /\ UNCHANGED <<lists, instant, cells, queue, inbox, wait, posted, stopped>>
-----------------------------------------------------------------------------
(* Cells come about by negotiation (SfsbNet) and stay.                     *)
Negotiated(n, m) ==
  /\ m \in Nbrs[n] /\ ~cells[n][m]
  /\ cells' = [cells EXCEPT ![n][m] = TRUE]
  /\ UNCHANGED <<lists, instant, signals, wait, posted, stopped>>

Stop ==
  /\ ~stopped /\ stopped' = TRUE
  /\ UNCHANGED <<lists, instant, cells, signals, wait, posted>>

(* sfsb_bl_callback_delete, of an own and of a received entry              *)
Expire(n, c) ==
  /\ private[n][c] = 0
  /\ private' = [private EXCEPT ![n][c] = Absent]
  /\ UNCHANGED <<informed, instant, heard, cells, signals, wait, posted, stopped>>

ExpireHeardOwn(n, m, c) ==                                      \* mutant
  /\ heard[n][m][c][0] > 0
  /\ private' = [private EXCEPT ![n][c] = Absent]
  /\ UNCHANGED <<informed, instant, heard, cells, signals, wait, posted, stopped>>
ExpireHeardTwice(n, m, c) ==                                    \* mutant
  /\ \E u \in Units : heard[n][m][c][u] > 0
  /\ heard' = [heard EXCEPT ![n][m][c][0] = @ - 1]
  /\ UNCHANGED <<private, informed, instant, cells, signals, wait, posted, stopped>>
ExpireHeard(n, m, c) ==
  /\ heard[n][m][c][0] > 0
  /\ heard' = [heard EXCEPT ![n][m][c][0] = @ - 1]
  /\ UNCHANGED <<private, informed, instant, cells, signals, wait, posted, stopped>>

(* The clock ticks.                                                        *)
Tick ==
  /\ instant # {} /\ instant' = {}
  /\ UNCHANGED <<lists, cells, signals, wait, posted, stopped>>

(* A unit of time passes, once events, timers, rounds, transactions and    *)
(* the MAC have done what they had to by then.                             *)
Later ==
  /\ instant = {} /\ posted = {}
  /\ \A n \in Blacklisters : stopped \/ wait[n] < Interval
  /\ \A n \in Nodes, c \in sfsb_channels : private[n][c] # 0
  /\ \A n, m \in Nodes :
       /\ ~open[n][m] /\ inbox[n][m] = <<>>
       /\ \A i \in DOMAIN queue[n][m] : queue[n][m][i].age < MaxAge
       /\ \A c \in sfsb_channels : heard[n][m][c][0] = 0
  /\ private' = [n \in Nodes |-> [c \in sfsb_channels |->
       IF private[n][c] = Absent THEN Absent ELSE private[n][c] - 1]]
  /\ heard' = [n \in Nodes |-> [m \in Nodes |-> [c \in sfsb_channels |-> [u \in Units |->
       IF u = Lifetime THEN 0 ELSE heard[n][m][c][u + 1]]]]]
  /\ queue' = [n \in Nodes |-> [m \in Nodes |->
       [i \in DOMAIN queue[n][m] |-> [queue[n][m][i] EXCEPT !.age = @ + 1]]]]
  /\ wait' = [n \in Nodes |-> Min({wait[n] + 1, Interval})]
  /\ UNCHANGED <<informed, instant, cells, open, inbox, posted, stopped>>

Init ==
  /\ private = [n \in Nodes |-> [c \in sfsb_channels |-> Absent]]
  /\ informed = [n \in Nodes |-> [m \in Nodes |-> [c \in sfsb_channels |-> "before"]]]
  /\ instant = {}
  /\ heard = [n \in Nodes |-> [m \in Nodes |-> [c \in sfsb_channels |-> [u \in Units |-> 0]]]]
  /\ cells = [n \in Nodes |-> [m \in Nodes |-> FALSE]]
  /\ open = [n \in Nodes |-> [m \in Nodes |-> FALSE]]
  /\ queue = [n \in Nodes |-> [m \in Nodes |-> <<>>]]
  /\ inbox = [n \in Nodes |-> [m \in Nodes |-> <<>>]]
  /\ wait = [n \in Nodes |-> Interval]
  /\ posted = {} /\ stopped = FALSE

Next ==
  \/ \E n \in Nodes : \E tell \in SUBSET Nbrs[n] : Round(n, tell) \/ Distribute(n, tell)
  \/ \E p \in Pairs : \/ Arrive(p[1], p[2]) \/ Acked(p[1], p[2]) \/ NotAcked(p[1], p[2])
                      \/ SignalReqInput(p[1], p[2]) \/ Refuse(p[1], p[2])
                      \/ TransTimeout(p[1], p[2]) \/ Negotiated(p[1], p[2])
                      \/ \E c \in sfsb_channels : ExpireHeard(p[1], p[2], c)
  \/ \E n \in Nodes, c \in sfsb_channels : Expire(n, c)
  \/ Stop \/ Tick \/ Later

Spec == Init /\ [][Next]_vars

(* The processes, the timers and the clock run. What chance decides does   *)
(* not go the same way for ever: 6P takes the request of some round, its   *)
(* frame gets through while the neighbour is not busy, and it is           *)
(* acknowledged before the neighbour's entries have expired.               *)
Holds(m, n) == \A c \in Entries(n) : \E u \in Units \ {0} : heard[m][n][c][u] > 0

Fairness ==
  /\ \A n \in Nodes :
       /\ WF_vars(\E tell \in SUBSET Nbrs[n] : Round(n, tell))
       /\ WF_vars(\E tell \in SUBSET Nbrs[n] : Distribute(n, tell))
       /\ SF_vars(Round(n, Nbrs[n]))
       /\ \A c \in sfsb_channels : WF_vars(Expire(n, c))
  /\ \A p \in Pairs :
       LET n == p[1] m == p[2]
       IN /\ WF_vars(Negotiated(n, m)) /\ WF_vars(TransTimeout(n, m))
          /\ WF_vars(NotAcked(n, m)) /\ WF_vars(Refuse(m, n))
          /\ SF_vars(instant = {} /\ Arrive(n, m))
          /\ SF_vars(instant = {} /\ queue[n][m] # <<>> /\ Head(queue[n][m]).there
                       /\ SignalReqInput(m, n))
          /\ SF_vars(instant = {} /\ Holds(m, n) /\ Acked(n, m))
          /\ \A c \in sfsb_channels : WF_vars(ExpireHeard(n, m, c))
  /\ WF_vars(Tick) /\ WF_vars(Later)

FairSpec == Spec /\ Fairness
-----------------------------------------------------------------------------
(* Properties *)

(* What a node still avoids on a neighbour's word, the neighbour has not   *)
(* let expire: an entry received late is kept the shorter for it, and the  *)
(* neighbour's own is never older than what it sent. Else the receiver     *)
(* would hop alone, but for the moment both timers expire in.              *)
NeverOutlives ==
  \A p \in Pairs, c \in sfsb_channels, u \in Units :
    u > 0 /\ heard[p[1]][p[2]][c][u] > 0 => private[p[2]][c] # Absent /\ u <= private[p[2]][c]

(* Each SIGNAL adds its channels again, to entries that are there: what is *)
(* left of the earlier ones is bounded, and so a received list never needs *)
(* more blocks than the pool has.                                          *)
FewCopies ==
  \A p \in Pairs, c \in sfsb_channels :
    Copies(p[1], p[2], c) <= (Lifetime \div Interval) + 1

(* As long as the application blacklists, both ends of a cell come to use  *)
(* the same channel at each hop again and again, and none it blacklisted:  *)
(* refused SIGNALs, lost ones and the refreshing of entries, after which a *)
(* node goes back to the channel, hold only for a while.                   *)
Meet(n, m) ==
  \A hop \in 11..26 : /\ sfsb_bl_check(n, m, hop) = sfsb_bl_check(m, n, hop)
                      /\ sfsb_bl_check(n, m, hop) \notin sfsb_channels
MeetAgain ==
  \A n \in Blacklisters : \A m \in Nbrs[n] : []<>(stopped \/ Meet(n, m))

(* Once it has stopped, all entries go and all blocks come back.           *)
Released ==
  stopped ~> \A n \in Nodes : Entries(n) = {} /\ Used(n) = 0

(* "does our neighbor have up-to-date infos from us?" (blacklist.c): a     *)
(* node avoids a channel only when its neighbour does, or is about to.     *)
InformedMeansTold ==
  \A p \in Pairs, c \in sfsb_channels :
    c \in Entries(p[1]) /\ informed[p[1]][p[2]][c] = "after" =>
      Copies(p[2], p[1], c) > 0 \/ inbox[p[2]][p[1]] # <<>>
=============================================================================
