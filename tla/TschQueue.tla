------------------------------ MODULE TschQueue ------------------------------
(***************************************************************************)
(* Frames, neighbours and links inside the TSCH MAC of one node: the       *)
(* process context (tsch-queue.c, tsch-schedule.c, and of tsch.c the       *)
(* sending, the reporting and the leaving) and the slot interrupt of       *)
(* tsch-slot-operation.c, which comes between any two of its steps.        *)
(*                                                                         *)
(* A call from the process context is a sequence of operations, todo. One  *)
(* that changes a list takes the lock: it asks for it, waits for the slot  *)
(* under way to end, holds it and releases it. The time of a slot is its   *)
(* beginning, when the interrupt picks a frame, and its end, when it knows *)
(* what became of it; in between the process context runs on.              *)
(*                                                                         *)
(* The schedule is the one slotframe this program has, so that there is    *)
(* no backup link, and one link per timeslot; which link is next is any    *)
(* (TschSchedule has the choice). Enhanced beacons use the queue of the    *)
(* broadcasts, and a received frame is no part of this.                    *)
(***************************************************************************)
EXTENDS Naturals, Sequences, FiniteSets

CONSTANTS Unicast,     (* neighbours                                        *)
          Bcast,       (* the virtual neighbour n_broadcast                 *)
          Sends,       (* destinations the upper layers send to             *)
          Timeslots, SharedSlot,
          Packets,     (* packet_memb and the queuebufs                     *)
          NbrMax,      (* entries of neighbor_memb                          *)
          LinkMax,     (* entries of link_memb                              *)
          QueueCap,    (* TSCH_QUEUE_NUM_PER_NEIGHBOR                       *)
          RingCap,     (* TSCH_DEQUEUED_ARRAY_SIZE                          *)
          Retries,     (* TSCH_MAC_MAX_FRAME_RETRIES                        *)
          MaxWindow,   (* greatest backoff window                           *)
          CountMod,    (* values of tx_links_count, 2^8 in C                *)
          MidSlot,     (* may a beacon make the node leave during a slot?   *)
          None

Dests == Unicast \cup {Bcast}

Link(options, n) == [options |-> options, addr |-> n]
SharedLink == Link({"TX", "RX", "SHARED"}, Bcast)
Links == {SharedLink} \cup {Link({o}, n) : o \in {"TX", "RX"}, n \in Unicast}

ASSUME TschQueueAssumption ==
  /\ Bcast \notin Unicast /\ Sends \subseteq Dests
  /\ SharedSlot \in Timeslots /\ IsFiniteSet(Timeslots)
  /\ {NbrMax, LinkMax, QueueCap, RingCap, MaxWindow} \subseteq Nat \ {0}
  /\ Retries \in Nat
  /\ CountMod \in Nat /\ CountMod > 1
  /\ MidSlot \in BOOLEAN
  /\ None \notin Dests \cup Timeslots \cup Links

VARIABLES nbrs,     (* neighbor_list                                        *)
          queue,    (* [Dests -> sequence of packets]                       *)
          count,    (* [Dests -> tx_links_count]                            *)
          window,   (* [Dests -> backoff_window]                            *)
          tries,    (* [Packets -> transmissions]                           *)
          pool,     (* packets that are free                                *)
          ring,     (* dequeued_ringbuf                                     *)
          links,    (* [Timeslots -> link or None]                          *)
          current,  (* current_link, its timeslot or None                   *)
          slot,     (* the slot under way: kind and, in one to send, frame  *)
          lock,     (* "free", "wanted" (tsch_lock_requested) or "held"     *)
          todo,     (* operations the process context still has to do       *)
          parent,   (* the time source or None                              *)
          assoc     (* "in", "leaving" (tsch_process is polled) or "out"    *)

frames == <<queue, tries, pool, ring, window>>
others == <<nbrs, count, links>>
vars == <<frames, others, current, slot, lock, todo, parent, assoc>>

Has(t, option) == t # None /\ links[t] # None /\ option \in links[t].options

Sent == [pkt : Packets, to : Dests]
NoSlot == [kind |-> "none", pkt |-> None, to |-> None]
RxSlot == [NoSlot EXCEPT !.kind = "rx"]
TxSlot(p, n) == [kind |-> "tx", pkt |-> p, to |-> n]
Slots == {NoSlot, RxSlot} \cup {TxSlot(p, n) : p \in Packets, n \in Dests}
Ops == [op : {"add", "put"}, n : Dests] \cup [op : {"remove", "join"}, n : Unicast]
  \cup [op : {"count"}, n : Dests, up : BOOLEAN]
  \cup [op : {"unlink"}, t : Timeslots] \cup [op : {"link"}, t : Timeslots, l : Links]
  \cup [op : {"drop"}, left : SUBSET Unicast]
  \cup [op : {"free", "get", "flush", "forget"}]

TypeOK ==
  /\ Bcast \in nbrs /\ nbrs \subseteq Dests
  /\ queue \in [Dests -> Seq(Packets)]
  /\ count \in [Dests -> 0..(CountMod - 1)]
  /\ window \in [Dests -> 0..MaxWindow]
  /\ tries \in [Packets -> 0..(Retries + 1)]
  /\ pool \subseteq Packets
  /\ ring \in Seq(Sent)
  /\ links \in [Timeslots -> Links \cup {None}]
  /\ current \in Timeslots \cup {None}
  /\ slot \in Slots
  /\ lock \in {"free", "wanted", "held"}
  /\ todo \in Seq(Ops)
  /\ parent \in Unicast \cup {None}
  /\ assoc \in {"in", "leaving", "out"}
-----------------------------------------------------------------------------
(* The process context: the lock, tsch_get_lock and tsch_release_lock      *)

Locking(o) ==
  \/ o.op \in {"remove", "link"}
  \/ o.op = "add" /\ o.n \notin nbrs
  \/ o.op = "unlink" /\ links[o.t] # None

WantLock ==
  /\ todo # <<>> /\ Locking(Head(todo))
  /\ lock = "free"
  /\ lock' = "wanted"
  /\ UNCHANGED <<frames, others, current, slot, todo, parent, assoc>>

TakeLock ==
  /\ lock = "wanted" /\ slot = NoSlot
  /\ lock' = "held"
  /\ UNCHANGED <<frames, others, current, slot, todo, parent, assoc>>

(* The next operation is one named op, with the lock if it needs it; it    *)
(* gives way to the operations ops.                                        *)
Begin(op) ==
  /\ todo # <<>> /\ Head(todo).op = op
  /\ Locking(Head(todo)) => lock = "held"
  /\ lock' = "free"
Then(ops) == todo' = ops \o Tail(todo)

RecountUp(n, up) ==                                                \* mutant
  IF up THEN <<[op |-> "add", n |-> n], [op |-> "count", n |-> n, up |-> TRUE]>> ELSE <<>>
Recount(n, up) == <<[op |-> "add", n |-> n], [op |-> "count", n |-> n, up |-> up]>>

(* tsch_queue_add_nbr                                                      *)
Add ==
  /\ Begin("add") /\ Then(<<>>)
  /\ LET n == Head(todo).n
     IN IF n \in nbrs \/ Cardinality(nbrs) = NbrMax
        THEN UNCHANGED <<nbrs, count, window>>
        ELSE /\ nbrs' = nbrs \cup {n}
             /\ count' = [count EXCEPT ![n] = 0]
             /\ window' = [window EXCEPT ![n] = 0]
  /\ UNCHANGED <<queue, tries, pool, ring, links, current, slot, parent, assoc>>

(* tsch_queue_add_packet: without room the sender is told at once.         *)
Put ==
  /\ Begin("put") /\ Then(<<>>)
  /\ LET n == Head(todo).n
     IN IF n \in nbrs /\ Len(queue[n]) < QueueCap /\ pool # {}
        THEN \E p \in pool :
               /\ pool' = pool \ {p}
               /\ tries' = [tries EXCEPT ![p] = 0]
               /\ queue' = [queue EXCEPT ![n] = Append(@, p)]
        ELSE UNCHANGED <<pool, tries, queue>>
  /\ UNCHANGED <<window, ring, others, current, slot, parent, assoc>>

(* tsch_schedule_add_link and tsch_schedule_remove_link count the links to *)
(* a neighbour after they have released the lock.                          *)
CountLink ==
  /\ Begin("count") /\ Then(<<>>)
  /\ LET n == Head(todo).n
         step == IF Head(todo).up THEN 1 ELSE CountMod - 1
     IN count' = IF n \in nbrs THEN [count EXCEPT ![n] = (@ + step) % CountMod] ELSE count
  /\ UNCHANGED <<frames, nbrs, links, current, slot, parent, assoc>>

KeptAnyway(t) == current                                             \* mutant
Kept(t) == IF current = t THEN None ELSE current

RemoveLink ==
  /\ Begin("unlink")
  /\ LET t == Head(todo).t
     IN /\ links' = [links EXCEPT ![t] = None]
        /\ current' = Kept(t)
        /\ Then(IF Has(t, "TX") THEN Recount(links[t].addr, FALSE) ELSE <<>>)
  /\ UNCHANGED <<frames, nbrs, count, slot, parent, assoc>>

AddLink ==
  /\ Begin("link")
  /\ LET t == Head(todo).t
         l == Head(todo).l
     IN IF Cardinality({u \in Timeslots : links[u] # None}) = LinkMax
        THEN Then(<<>>) /\ UNCHANGED links
        ELSE /\ links' = [links EXCEPT ![t] = l]
             /\ Then(IF "TX" \in l.options THEN Recount(l.addr, TRUE) ELSE <<>>)
  /\ UNCHANGED <<frames, nbrs, count, current, slot, parent, assoc>>

(* tsch_queue_free_unused_neighbors: one neighbour after the other, in the *)
(* order of the list, which is any.                                        *)
Unused(n) == n \in nbrs /\ n # parent /\ count[n] = 0 /\ queue[n] = <<>>

DropUnused ==
  /\ Begin("drop")
  /\ \/ Head(todo).left = {} /\ Then(<<>>)
     \/ \E n \in Head(todo).left :
          LET rest == [op |-> "drop", left |-> Head(todo).left \ {n}]
          IN Then(IF Unused(n) THEN <<[op |-> "remove", n |-> n], rest>> ELSE <<rest>>)
  /\ UNCHANGED <<frames, others, current, slot, parent, assoc>>

(* tsch_queue_remove_nbr                                                   *)
Remove ==
  /\ Begin("remove") /\ Then(<<>>)
  /\ nbrs' = nbrs \ {Head(todo).n}
  /\ UNCHANGED <<frames, count, links, current, slot, parent, assoc>>
-----------------------------------------------------------------------------
(* Calls from the upper layers: a frame, a link more or a link less. They  *)
(* come by themselves or from the callback of a reported frame.            *)
Drop == [op |-> "drop", left |-> Unicast]
Calls ==
  {<<>>}
  \cup (IF assoc = "in"
        THEN {<<[op |-> "add", n |-> n], [op |-> "put", n |-> n]>> : n \in Sends} ELSE {})
  \cup {<<[op |-> "unlink", t |-> t]>> : t \in Timeslots \ {SharedSlot}}
  \cup {<<[op |-> "unlink", t |-> t], [op |-> "link", t |-> t, l |-> l]>> :
          t \in Timeslots \ {SharedSlot}, l \in Links \ {SharedLink}}

Call ==
  /\ todo = <<>>
  /\ todo' \in Calls \ {<<>>}
  /\ UNCHANGED <<frames, others, current, slot, lock, parent, assoc>>

(* tsch_tx_process_pending: the callback, then the packet is freed, unused *)
(* neighbours go and only then the packet leaves the ring.                 *)
Report ==
  /\ todo = <<>> /\ ring # <<>>
  /\ \E call \in Calls : todo' = call \o <<[op |-> "free"], Drop, [op |-> "get"]>>
  /\ UNCHANGED <<frames, others, current, slot, lock, parent, assoc>>

FreeWhileIn ==                                                       \* mutant
  /\ Begin("free") /\ Then(<<>>)
  /\ pool' = IF assoc = "in" THEN pool \cup {Head(ring).pkt} ELSE pool
  /\ UNCHANGED <<queue, tries, ring, window, others, current, slot, parent, assoc>>
Free ==
  /\ Begin("free") /\ Then(<<>>)
  /\ pool' = pool \cup {Head(ring).pkt}
  /\ UNCHANGED <<queue, tries, ring, window, others, current, slot, parent, assoc>>

Get ==
  /\ Begin("get") /\ Then(<<>>)
  /\ ring' = Tail(ring)
  /\ UNCHANGED <<queue, tries, pool, window, others, current, slot, parent, assoc>>

(* eb_input: the time source disagrees about the ASN.                      *)
EbLeave ==
  /\ todo = <<>> /\ assoc = "in" /\ parent # None
  /\ MidSlot \/ slot = NoSlot
  /\ assoc' = "leaving"
  /\ UNCHANGED <<frames, others, current, slot, lock, todo, parent>>

(* tsch_reset, which begins by reporting all that is in the ring.          *)
Reset ==
  /\ todo = <<>> /\ assoc = "leaving" /\ ring = <<>>
  /\ assoc' = "out"
  /\ todo' = <<[op |-> "flush"], Drop, [op |-> "forget"]>>
  /\ UNCHANGED <<frames, others, current, slot, lock, parent>>

(* tsch_queue_flush_nbr_queue: each packet is reported and freed.          *)
Flush ==
  /\ Begin("flush")
  /\ IF \A n \in nbrs : queue[n] = <<>>
     THEN /\ Then(<<>>)
          /\ window' = [n \in Dests |-> 0]
          /\ UNCHANGED <<queue, pool>>
     ELSE /\ UNCHANGED <<todo, window>>
          /\ \E n \in nbrs : /\ queue[n] # <<>>
                             /\ pool' = pool \cup {Head(queue[n])}
                             /\ queue' = [queue EXCEPT ![n] = Tail(@)]
  /\ UNCHANGED <<tries, ring, others, current, slot, parent, assoc>>

Forget ==
  /\ Begin("forget") /\ Then(<<>>)
  /\ parent' = None /\ current' = None
  /\ UNCHANGED <<frames, others, slot, assoc>>

(* tsch_associate on a beacon of n: the schedule begins anew with the      *)
(* links of the beacon.                                                    *)
Associate(n) ==
  /\ todo = <<>> /\ assoc = "out" /\ slot = NoSlot
  /\ \E order \in [1..Cardinality(Timeslots) -> Timeslots] :
       /\ {order[i] : i \in DOMAIN order} = Timeslots
       /\ todo' = [i \in DOMAIN order |-> [op |-> "unlink", t |-> order[i]]]
                  \o <<[op |-> "link", t |-> SharedSlot, l |-> SharedLink],
                       [op |-> "add", n |-> n], [op |-> "join", n |-> n]>>
  /\ UNCHANGED <<frames, others, current, slot, lock, parent, assoc>>

Join ==
  /\ Begin("join") /\ Then(<<>>)
  /\ LET n == Head(todo).n
     IN IF n \in nbrs
        THEN /\ parent' = n /\ assoc' = "in"
             /\ \E t \in Timeslots : links[t] # None /\ current' = t
        ELSE UNCHANGED <<parent, assoc, current>>
  /\ UNCHANGED <<frames, others, slot>>
-----------------------------------------------------------------------------
(* The slot interrupt. All of tsch-queue.c is closed to it while the lock  *)
(* is held: it then finds no packet and no next link.                      *)

Ready(n) == n \in nbrs /\ queue[n] # <<>>

(* get_packet_and_neighbor_for_link, with current_link: the link's own     *)
(* neighbour first, then for broadcast any neighbour without a link.       *)
Candidates ==
  IF lock = "held" \/ ~Has(current, "TX") THEN {}
  ELSE LET n == links[current].addr
           open(m) == Ready(m) /\ (Has(current, "SHARED") => window[m] = 0)
       IN IF open(n) THEN {n}
          ELSE IF n = Bcast THEN {m \in Unicast : open(m) /\ count[m] = 0}
          ELSE {}

(* tsch_slot_operation until the radio is at work                          *)
SlotTxAnyRoom(n) ==                                                  \* mutant
  /\ assoc = "in" /\ slot = NoSlot /\ current # None /\ lock # "wanted"
  /\ n \in Candidates
  /\ slot' = TxSlot(Head(queue[n]), n)
  /\ UNCHANGED <<frames, others, current, lock, todo, parent, assoc>>
SlotTx(n) ==
  /\ assoc = "in" /\ slot = NoSlot /\ current # None /\ lock # "wanted"
  /\ n \in Candidates /\ Len(ring) < RingCap
  /\ slot' = TxSlot(Head(queue[n]), n)
  /\ UNCHANGED <<frames, others, current, lock, todo, parent, assoc>>

SlotRx ==
  /\ assoc = "in" /\ slot = NoSlot /\ current # None /\ lock # "wanted"
  /\ Candidates = {} /\ Has(current, "RX")
  /\ slot' = RxSlot
  /\ UNCHANGED <<frames, others, current, lock, todo, parent, assoc>>

(* The end of tsch_slot_operation: backoff windows w count the slot, and   *)
(* the next link is looked up.                                             *)
Counting(n) ==
  /\ lock # "held"
  /\ Has(current, "TX") /\ Has(current, "SHARED")
  /\ n \in nbrs /\ count[n] = 0
DecrementedNever(w) == w                                             \* mutant
Decremented(w) ==
  [n \in Dests |-> IF w[n] > 0 /\ Counting(n) THEN w[n] - 1 ELSE w[n]]

Advance(w) ==
  /\ window' = Decremented(w)
  /\ IF lock = "held" \/ \A t \in Timeslots : links[t] = None
     THEN current' = None
     ELSE \E t \in Timeslots : links[t] # None /\ current' = t

(* No link, the lock requested, nothing to do, no room to report it or,    *)
(* for a dedicated link, a blacklisted channel.                            *)
SlotSkip ==
  /\ assoc = "in" /\ slot = NoSlot
  /\ \/ current = None
     \/ lock = "wanted"
     \/ Candidates = {} /\ ~Has(current, "RX")
     \/ Candidates # {} /\ Len(ring) = RingCap
     \/ ~Has(current, "SHARED")
  /\ Advance(window)
  /\ UNCHANGED <<queue, tries, pool, ring, others, slot, lock, todo, parent, assoc>>

(* The end of tsch_tx_slot, and update_neighbor_state: what is removed is  *)
(* the first packet of the queue, what is reported the one transmitted.    *)
Over(ok) == ok \/ tries[slot.pkt] >= Retries
RestUnlessShared ==                                                  \* mutant
  IF Has(current, "SHARED") \/ queue[slot.to] = <<>> THEN queue[slot.to] ELSE Tail(queue[slot.to])
Rest == IF queue[slot.to] = <<>> THEN <<>> ELSE Tail(queue[slot.to])

Outcome(ok) ==
  /\ tries' = [tries EXCEPT ![slot.pkt] = IF @ > Retries THEN @ ELSE @ + 1]
  /\ queue' = [queue EXCEPT ![slot.to] = IF Over(ok) THEN Rest ELSE @]
  /\ ring' = IF Over(ok) THEN Append(ring, [pkt |-> slot.pkt, to |-> slot.to]) ELSE ring

(* tsch_queue_backoff_reset and tsch_queue_backoff_inc; the exponent is    *)
(* left out, a window is any up to the greatest.                           *)
DrawnBeyond == 1..(MaxWindow + 1)                                    \* mutant
Drawn == 1..MaxWindow

Windows(ok) ==
  LET shared == Has(current, "SHARED")
  IN IF slot.to = Bcast THEN {window}
     ELSE IF ok THEN {IF shared \/ Rest = <<>> THEN [window EXCEPT ![slot.to] = 0] ELSE window}
     ELSE IF shared THEN {[window EXCEPT ![slot.to] = k] : k \in Drawn}
     ELSE {window}

SlotEnd(ok) ==
  /\ slot # NoSlot
  /\ slot' = NoSlot
  /\ IF slot = RxSlot THEN UNCHANGED <<queue, tries, ring>> ELSE Outcome(ok)
  /\ \E w \in (IF slot = RxSlot THEN {window} ELSE Windows(ok)) :
       \/ Advance(w) /\ UNCHANGED assoc
       \/ /\ assoc = "in" /\ parent # None                     \* desynchronised
          /\ assoc' = "leaving"
          /\ window' = w /\ UNCHANGED current
  /\ UNCHANGED <<pool, others, lock, todo, parent>>
-----------------------------------------------------------------------------
(* A coordinator starts its network, any other node is yet to join one.    *)
Init ==
  /\ nbrs = {Bcast}
  /\ queue = [n \in Dests |-> <<>>]
  /\ window = [n \in Dests |-> 0]
  /\ tries = [p \in Packets |-> 0]
  /\ pool = Packets
  /\ ring = <<>>
  /\ slot = NoSlot /\ lock = "free" /\ todo = <<>> /\ parent = None
  /\ \E root \in BOOLEAN :
       /\ assoc = IF root THEN "in" ELSE "out"
       /\ current = IF root THEN SharedSlot ELSE None
       /\ count = [n \in Dests |-> IF root /\ n = Bcast THEN 1 ELSE 0]
       /\ links = [t \in Timeslots |-> IF root /\ t = SharedSlot THEN SharedLink ELSE None]

Operation ==
  \/ WantLock \/ TakeLock
  \/ Add \/ Put \/ CountLink \/ RemoveLink \/ AddLink
  \/ DropUnused \/ Remove \/ Free \/ Get \/ Flush \/ Forget \/ Join

Next ==
  \/ Operation
  \/ Call \/ Report \/ EbLeave \/ Reset
  \/ \E n \in Unicast : Associate(n)
  \/ \E n \in Dests : SlotTx(n)
  \/ SlotRx \/ SlotSkip
  \/ \E ok \in BOOLEAN : SlotEnd(ok)

Spec == Init /\ [][Next]_vars

(* The process context goes on, the processes polled run in turn, a slot   *)
(* ends, each link's timeslot comes round, not always when the lock is     *)
(* requested or the channel blacklisted, and in the end the schedule       *)
(* settles. Nothing is assumed of the radio.                               *)
Fairness ==
  /\ WF_vars(Operation)
  /\ SF_vars(Report) /\ SF_vars(Reset)
  /\ WF_vars(\E ok \in BOOLEAN : SlotEnd(ok))
  /\ WF_vars(SlotRx \/ SlotSkip \/ \E n \in Dests : SlotTx(n))
  /\ \A t \in Timeslots :
       /\ SF_vars((SlotSkip \/ \E ok \in BOOLEAN : SlotEnd(ok)) /\ current' = t)
       /\ SF_vars(current = t /\ \E n \in Dests : SlotTx(n))
  /\ <>[][UNCHANGED links]_links

FairSpec == Spec /\ Fairness
-----------------------------------------------------------------------------
(* Properties *)

Coming(op) == \E i \in DOMAIN todo : todo[i].op = op

(* A packet is free, in one queue or in the ring, and there once: none is  *)
(* lost to the pool, none is freed while something still points to it.     *)
FreedInRing(i) == i = 1 /\ Coming("get") /\ ~Coming("free")
Accounted ==
  \A p \in Packets :
    LET queued == {x \in Dests \X (1..QueueCap) : x[2] \in DOMAIN queue[x[1]] /\ queue[x[1]][x[2]] = p}
        inRing == {i \in DOMAIN ring : ring[i].pkt = p /\ ~FreedInRing(i)}
    IN Cardinality(queued) + Cardinality(inRing) + (IF p \in pool THEN 1 ELSE 0) = 1

(* The room in dequeued_ringbuf that tsch_tx_slot looks for at its start   *)
(* is there at its end.                                                    *)
RingHasRoom == slot.kind = "tx" => Len(ring) < RingCap

(* "needed to keep neighbor state in sync with link options etc."          *)
(* (tsch_schedule_add_link): between two calls tx_links_count of every     *)
(* neighbour is the number of links to transmit to it, and no neighbour    *)
(* with such a link is gone. One counted too often is never freed, and its *)
(* frames never go through the shared cell.                                *)
TxLinks(n) == {t \in Timeslots : Has(t, "TX") /\ links[t].addr = n}
LinksCounted ==
  todo = <<>> =>
    \A n \in Dests : IF n \in nbrs THEN count[n] = Cardinality(TxLinks(n)) ELSE TxLinks(n) = {}

(* The link kept for the next slot is not removed in the meantime.         *)
CurrentInSchedule == current # None => links[current] # None

(* Frames are reported once each and in order, per destination: pending    *)
(* are those in the ring, but for the one reported now, then those queued. *)
Reports(n, entries) ==
  LET upto[i \in 0..Len(entries)] ==
        IF i = 0 THEN <<>>
        ELSE IF entries[i].to = n THEN Append(upto[i - 1], entries[i].pkt) ELSE upto[i - 1]
  IN upto[Len(entries)]
Unreported == IF Coming("get") THEN Tail(ring) ELSE ring
Pending == [n \in Dests |-> Reports(n, Unreported) \o queue[n]]
Mac == INSTANCE MacContract WITH pending <- Pending
ReportedOnceInOrder == Mac!Spec

(* Every packet comes back to the pool, its sender told: neither backoff   *)
(* nor links that come and go keep it in its queue for ever.               *)
Served == \A p \in Packets : p \notin pool ~> p \in pool
=============================================================================
