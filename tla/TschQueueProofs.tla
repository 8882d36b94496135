-------------------------- MODULE TschQueueProofs --------------------------
(***************************************************************************)
(* Proofs about the frames and links of one TSCH MAC, for any neighbours,  *)
(* timeslots and packets, any size of the pools, queues and rings, and any *)
(* number of retransmissions.                                              *)
(***************************************************************************)
EXTENDS TschQueue, CommonLemmas

(* The end of a call: the packet reported is freed and then leaves the     *)
(* ring, a node that has joined goes on as one, and queues are flushed     *)
(* only outside a network.                                                 *)
TodoOrder ==
  \A i \in DOMAIN todo :
    /\ todo[i].op = "get" => i = Len(todo) /\ ring # <<>>
    /\ todo[i].op = "free" => i = Len(todo) - 2 /\ todo[Len(todo)].op = "get"
    /\ todo[i].op = "join" => i = Len(todo)
    /\ todo[i].op = "flush" => assoc = "out"

(* What holds whenever a beacon makes the node leave: types, and what the  *)
(* process context and the slot interrupt leave to each other.             *)
Regular ==
  /\ TypeOK
  /\ \A n \in Dests : Len(queue[n]) <= QueueCap
  /\ TodoOrder
  /\ RingHasRoom
  /\ CurrentInSchedule

(* In a slot to send, the frame is still the first of its queue.           *)
SlotFrame ==
  /\ assoc # "in" => slot = NoSlot
  /\ slot.kind = "tx" => queue[slot.to] # <<>> /\ slot.pkt = Head(queue[slot.to])

(* The packets of the queues q, and those of the places R of the ring r;   *)
(* none is in two places of the queues, or in two of the ring.             *)
Queued(q) == {p \in Packets : \E n \in Dests : \E i \in DOMAIN q[n] : q[n][i] = p}
ToReport(r, R) == {p \in Packets : \E i \in R : r[i].pkt = p}
Apart(q) == \A n, m \in Dests : \A i \in DOMAIN q[n], j \in DOMAIN q[m] :
              q[n][i] = q[m][j] => n = m /\ i = j
RingApart(r, R) == \A i, j \in R : r[i].pkt = r[j].pkt => i = j

(* Each packet is in one place: the first of the ring has left it once it  *)
(* is freed.                                                               *)
InRing == {i \in DOMAIN ring : ~FreedInRing(i)}
Partition(q, T, P) ==
  /\ Queued(q) \cap T = {} /\ Queued(q) \cap P = {} /\ T \cap P = {}
  /\ Queued(q) \cup T \cup P = Packets
Placed ==
  /\ Apart(queue) /\ RingApart(ring, InRing)
  /\ Partition(queue, ToReport(ring, InRing), pool)

IInv == Regular /\ SlotFrame /\ Placed
-----------------------------------------------------------------------------
(* The parts of the state that are sequences, place by place.              *)
LEMMA TypeFacts ==
  ASSUME TypeOK
  PROVE  /\ \A n \in Dests : /\ queue[n] \in Seq(Packets) /\ Len(queue[n]) \in Nat
                             /\ DOMAIN queue[n] = 1 .. Len(queue[n])
                             /\ \A i \in DOMAIN queue[n] : queue[n][i] \in Packets
         /\ ring \in Seq(Sent) /\ Len(ring) \in Nat /\ DOMAIN ring = 1 .. Len(ring)
         /\ \A i \in DOMAIN ring : ring[i].pkt \in Packets /\ ring[i].to \in Dests
         /\ todo \in Seq(Ops) /\ Len(todo) \in Nat /\ DOMAIN todo = 1 .. Len(todo)
         /\ \A i \in DOMAIN todo : todo[i] \in Ops
<1>1. \A n \in Dests : queue[n] \in Seq(Packets)
  BY DEF TypeOK
<1>2. ring \in Seq(Sent) /\ todo \in Seq(Ops)
  BY DEF TypeOK
<1>3. \A T : \A s \in Seq(T) : Len(s) \in Nat /\ DOMAIN s = 1 .. Len(s) /\ \A i \in DOMAIN s : s[i] \in T
  BY Places
<1>4. \A n \in Dests : /\ Len(queue[n]) \in Nat /\ DOMAIN queue[n] = 1 .. Len(queue[n])
                       /\ \A i \in DOMAIN queue[n] : queue[n][i] \in Packets
  BY <1>1, <1>3
<1>5. Len(ring) \in Nat /\ DOMAIN ring = 1 .. Len(ring) /\ \A i \in DOMAIN ring : ring[i] \in Sent
  BY <1>2, <1>3, Zenon
<1>6. Len(todo) \in Nat /\ DOMAIN todo = 1 .. Len(todo) /\ \A i \in DOMAIN todo : todo[i] \in Ops
  BY <1>2, <1>3, Zenon
<1>7. \A i \in DOMAIN ring : ring[i].pkt \in Packets /\ ring[i].to \in Dests
  BY <1>5 DEF Sent
<1> QED BY <1>1, <1>2, <1>4, <1>5, <1>6, <1>7

(* What each operation carries.                                            *)
LEMMA OpFacts ==
  ASSUME NEW o \in Ops
  PROVE  /\ o.op \in {"add", "put", "count"} => o.n \in Dests
         /\ o.op = "count" => o.up \in BOOLEAN
         /\ o.op \in {"unlink", "link"} => o.t \in Timeslots
         /\ o.op = "link" => o.l \in Links
         /\ o.op = "drop" => o.left \subseteq Unicast
         /\ o.op \in {"remove", "join"} => o.n \in Unicast
BY DEF Ops

(* The operations that are no part of the order of a call.                 *)
PlainOps == {o \in Ops : o.op \notin {"free", "get", "flush", "join"}}

LEMMA OpsBuilt ==
  /\ \A n \in Dests : /\ [op |-> "add", n |-> n] \in PlainOps
                       /\ [op |-> "put", n |-> n] \in PlainOps
                       /\ \A up \in BOOLEAN : [op |-> "count", n |-> n, up |-> up] \in PlainOps
  /\ \A t \in Timeslots : /\ [op |-> "unlink", t |-> t] \in PlainOps
                           /\ \A l \in Links : [op |-> "link", t |-> t, l |-> l] \in PlainOps
  /\ \A left \in SUBSET Unicast : [op |-> "drop", left |-> left] \in PlainOps
  /\ [op |-> "forget"] \in PlainOps
  /\ \A n \in Unicast : [op |-> "remove", n |-> n] \in PlainOps /\ [op |-> "join", n |-> n] \in Ops
  /\ [op |-> "free"] \in Ops /\ [op |-> "get"] \in Ops /\ [op |-> "flush"] \in Ops
BY DEF Ops, PlainOps

SameComing == (Coming("get")' <=> Coming("get")) /\ (Coming("free")' <=> Coming("free"))

(* The places of what is left to do when an operation gives way to others. *)
LEMMA ThenPlaces ==
  ASSUME TypeOK, todo # <<>>, NEW ops \in Seq(Ops), Then(ops)
  PROVE  \E k, l \in Nat :
           /\ k = Len(ops) /\ l >= 1 /\ DOMAIN ops = 1 .. k
           /\ DOMAIN todo = 1 .. l /\ DOMAIN todo' = 1 .. k + l - 1 /\ Head(todo) = todo[1]
           /\ todo[1] \in Ops /\ todo' \in Seq(Ops)
           /\ \A i \in 1 .. k : todo'[i] = ops[i]
           /\ \A i \in 2 .. l : k + i - 1 \in DOMAIN todo' /\ todo'[k + i - 1] = todo[i]
           /\ \A j \in DOMAIN todo' : j \in 1 .. k \/ \E i \in 2 .. l : j = k + i - 1
<1>1. /\ todo \in Seq(Ops) /\ DOMAIN todo = 1 .. Len(todo) /\ Len(todo) \in Nat
      /\ \A i \in DOMAIN todo : todo[i] \in Ops
  BY TypeFacts
<1>2. /\ Head(todo) = todo[1] /\ 1 \in DOMAIN todo
      /\ Tail(todo) \in Seq(Ops) /\ Len(Tail(todo)) = Len(todo) - 1
      /\ DOMAIN Tail(todo) = 1 .. Len(todo) - 1
      /\ \A i \in DOMAIN Tail(todo) : Tail(todo)[i] = todo[i + 1]
  BY <1>1, HeadTaken
<1>3. Len(ops) \in Nat /\ DOMAIN ops = 1 .. Len(ops)
  BY LenProperties
<1>4. PICK l \in Nat, k \in Nat : l = Len(todo) /\ k = Len(ops)
  BY <1>1, <1>3
<1>5. /\ todo' = ops \o Tail(todo) /\ todo' \in Seq(Ops) /\ Len(todo') = k + (l - 1)
      /\ \A i \in 1 .. k + (l - 1) : todo'[i] = IF i <= k THEN ops[i] ELSE Tail(todo)[i - k]
  <2>1. PICK u \in Seq(Ops) : u = Tail(todo) /\ Len(u) = l - 1
    BY <1>2, <1>4
  <2>2. /\ ops \o u \in Seq(Ops) /\ Len(ops \o u) = Len(ops) + Len(u)
        /\ \A i \in 1 .. Len(ops) + Len(u) : (ops \o u)[i] = IF i <= Len(ops) THEN ops[i] ELSE u[i - Len(ops)]
    BY ConcatProperties
  <2>3. todo' = ops \o u
    BY <2>1 DEF Then
  <2> QED BY <1>4, <2>1, <2>2, <2>3
<1>6. l >= 1 /\ DOMAIN todo' = 1 .. k + l - 1
  BY <1>1, <1>2, <1>4, <1>5, LenProperties
<1>7. \A i \in 1 .. k : todo'[i] = ops[i]
  BY <1>5, <1>6
<1>8. \A i \in 2 .. l : k + i - 1 \in DOMAIN todo' /\ todo'[k + i - 1] = todo[i]
  <2> SUFFICES ASSUME NEW i \in 2 .. l PROVE k + i - 1 \in DOMAIN todo' /\ todo'[k + i - 1] = todo[i]
    OBVIOUS
  <2>1. PICK j \in Nat, m \in Nat : j = k + i - 1 /\ m = i - 1
    OBVIOUS
  <2>2. /\ j \in 1 .. k + l - 1 /\ j \in 1 .. k + (l - 1) /\ ~ (j <= k)
        /\ j - k = m /\ m \in 1 .. l - 1 /\ m + 1 = i
    BY <2>1
  <2>3. Tail(todo)[m] = todo[i]
    BY <1>2, <1>4, <2>2
  <2>4. todo'[j] = Tail(todo)[j - k]
    BY <1>5, <2>2
  <2> QED BY <1>6, <2>1, <2>2, <2>3, <2>4
<1>9. \A j \in DOMAIN todo' : j \in 1 .. k \/ \E i \in 2 .. l : j = k + i - 1
  <2> SUFFICES ASSUME NEW j \in DOMAIN todo', j \notin 1 .. k PROVE \E i \in 2 .. l : j = k + i - 1
    OBVIOUS
  <2>1. j - k + 1 \in 2 .. l /\ j = k + (j - k + 1) - 1
    BY <1>6
  <2> QED BY <2>1
<1> QED BY <1>1, <1>2, <1>3, <1>4, <1>5, <1>6, <1>7, <1>8, <1>9

(* One operation that is neither the freeing nor the leaving of the ring   *)
(* gives way to others.                                                    *)
LEMMA ThenFacts ==
  ASSUME TypeOK, TodoOrder, todo # <<>>, Head(todo).op \notin {"free", "get"},
         NEW ops \in Seq(PlainOps), Then(ops)
  PROVE  /\ todo' \in Seq(Ops)
         /\ assoc' = assoc /\ (ring # <<>> => ring' # <<>>) => TodoOrder'
         /\ SameComing
<1>1. ops \in Seq(Ops) /\ \A i \in DOMAIN ops : ops[i] \in PlainOps
  <2>1. \A i \in DOMAIN ops : ops[i] \in PlainOps
    BY Places, Zenon
  <2> QED BY <2>1, Widened DEF PlainOps
<1>2. PICK k \in Nat, l \in Nat :
        /\ k = Len(ops) /\ l >= 1 /\ DOMAIN ops = 1 .. k
        /\ DOMAIN todo = 1 .. l /\ DOMAIN todo' = 1 .. k + l - 1 /\ Head(todo) = todo[1]
        /\ todo[1] \in Ops /\ todo' \in Seq(Ops)
        /\ \A i \in 1 .. k : todo'[i] = ops[i]
        /\ \A i \in 2 .. l : k + i - 1 \in DOMAIN todo' /\ todo'[k + i - 1] = todo[i]
        /\ \A j \in DOMAIN todo' : j \in 1 .. k \/ \E i \in 2 .. l : j = k + i - 1
  BY <1>1, ThenPlaces
<1>4. todo' \in Seq(Ops)
  BY <1>2
<1>5. l = Len(todo)
  BY <1>2, TypeFacts
<1>6. l >= 1 /\ DOMAIN todo = 1 .. l /\ Len(todo') = k + l - 1 /\ DOMAIN todo' = 1 .. k + l - 1
  <2>1. Len(todo') \in Nat /\ DOMAIN todo' = 1 .. Len(todo')
    BY <1>4, LenProperties
  <2>2. PICK n \in Nat, m \in Nat : n = Len(todo') /\ m = k + l - 1
    BY <1>2, <2>1
  <2>3. 1 .. n = 1 .. m
    BY <1>2, <2>1, <2>2
  <2>4. n \in 1 .. m \/ n = 0
    BY <2>3
  <2>5. m \in 1 .. n \/ m = 0
    BY <2>3
  <2>6. n = m
    BY <2>4, <2>5
  <2> QED BY <1>2, <2>2, <2>6
<1>7. \A i \in 1 .. k : i \in DOMAIN todo' /\ todo'[i] \in PlainOps
  BY <1>1, <1>2
<1>8. \A i \in 2 .. l : k + i - 1 \in DOMAIN todo' /\ todo'[k + i - 1] = todo[i]
  BY <1>2
<1>9. \A j \in DOMAIN todo' : j \in 1 .. k \/ \E i \in 2 .. l : j = k + i - 1
  BY <1>2
<1>10. ASSUME NEW op \in {"get", "free"}
       PROVE  Coming(op)' <=> Coming(op)
  <2>1. ASSUME NEW j \in DOMAIN todo', todo'[j].op = op PROVE \E i \in DOMAIN todo : todo[i].op = op
    <3>1. j \notin 1 .. k
      BY <1>7, <2>1 DEF PlainOps
    <3>2. PICK i \in 2 .. l : j = k + i - 1
      BY <1>9, <3>1
    <3>3. i \in DOMAIN todo /\ todo[i].op = op
      BY <1>6, <1>8, <2>1, <3>2
    <3> QED BY <3>3
  <2>2. ASSUME NEW i \in DOMAIN todo, todo[i].op = op PROVE \E j \in DOMAIN todo' : todo'[j].op = op
    <3>1. i \in 2 .. l
      BY <1>2, <1>6, <2>2
    <3> QED BY <1>8, <2>2, <3>1
  <2> QED BY <2>1, <2>2 DEF Coming
<1>11. ASSUME assoc' = assoc, ring # <<>> => ring' # <<>> PROVE TodoOrder'
  <2> SUFFICES ASSUME NEW j \in DOMAIN todo'
               PROVE  /\ todo'[j].op = "get" => j = Len(todo') /\ ring' # <<>>
                      /\ todo'[j].op = "free" => j = Len(todo') - 2 /\ todo'[Len(todo')].op = "get"
                      /\ todo'[j].op = "join" => j = Len(todo')
                      /\ todo'[j].op = "flush" => assoc' = "out"
    BY DEF TodoOrder
  <2>1. CASE j \in 1 .. k
    BY <1>7, <2>1 DEF PlainOps
  <2>2. ASSUME NEW i \in 2 .. l, j = k + i - 1
        PROVE  /\ todo'[j].op = "get" => j = Len(todo') /\ ring' # <<>>
               /\ todo'[j].op = "free" => j = Len(todo') - 2 /\ todo'[Len(todo')].op = "get"
               /\ todo'[j].op = "join" => j = Len(todo')
               /\ todo'[j].op = "flush" => assoc' = "out"
    <3>1. i \in DOMAIN todo /\ todo'[j] = todo[i]
      BY <1>6, <1>8, <2>2
    <3>2. /\ todo[i].op = "get" => i = l /\ ring # <<>>
          /\ todo[i].op = "free" => i = l - 2 /\ todo[l].op = "get"
          /\ todo[i].op = "join" => i = l
          /\ todo[i].op = "flush" => assoc = "out"
      BY <1>5, <3>1 DEF TodoOrder
    <3>3. todo'[Len(todo')] = todo[l]
      BY <1>6, <1>8
    <3> QED BY <1>6, <1>11, <2>2, <3>1, <3>2, <3>3
  <2> QED BY <1>9, <2>1, <2>2
<1> QED BY <1>4, <1>10, <1>11 DEF SameComing
-----------------------------------------------------------------------------
(* Each step keeps the regular state, whether a beacon may come during a   *)
(* slot or not.                                                            *)

(* A step of the process context that changes no more than the neighbours, *)
(* their counts and their windows.                                         *)
LEMMA NbrStep ==
  ASSUME Regular, todo # <<>>, Head(todo).op \notin {"free", "get"},
         NEW ops \in Seq(PlainOps), Then(ops),
         Bcast \in nbrs' /\ nbrs' \subseteq Dests,
         count' \in [Dests -> 0 .. CountMod - 1], window' \in [Dests -> 0 .. MaxWindow],
         lock' \in {"free", "wanted", "held"},
         UNCHANGED <<queue, tries, pool, ring, links, current, slot, parent, assoc>>
  PROVE  Regular' /\ SameComing
<1>1. TypeOK /\ TodoOrder
  BY DEF Regular
<1>2. todo' \in Seq(Ops) /\ TodoOrder' /\ SameComing
  BY <1>1, ThenFacts
<1>3. /\ queue' \in [Dests -> Seq(Packets)] /\ tries' \in [Packets -> 0 .. Retries + 1]
      /\ pool' \subseteq Packets /\ ring' \in Seq(Sent)
      /\ links' \in [Timeslots -> Links \cup {None}] /\ current' \in Timeslots \cup {None}
      /\ slot' \in Slots
      /\ parent' \in Unicast \cup {None} /\ assoc' \in {"in", "leaving", "out"}
  <2>1. /\ queue' = queue /\ tries' = tries /\ pool' = pool /\ ring' = ring /\ links' = links
        /\ current' = current /\ slot' = slot /\ parent' = parent /\ assoc' = assoc
    OBVIOUS
  <2> QED BY <1>1, <2>1 DEF TypeOK
<1>5. TypeOK'
  BY <1>2, <1>3 DEF TypeOK
<1>4. RingHasRoom' /\ CurrentInSchedule'
  BY DEF Regular, RingHasRoom, CurrentInSchedule
<1> QED BY <1>2, <1>4, <1>5 DEF Regular

LEMMA NoOps == <<>> \in Seq(PlainOps)
OBVIOUS

LEMMA RecountOps ==
  ASSUME NEW n \in Dests, NEW up \in BOOLEAN
  PROVE  Recount(n, up) \in Seq(PlainOps)
<1>1. PICK a \in PlainOps, b \in PlainOps :
        a = [op |-> "add", n |-> n] /\ b = [op |-> "count", n |-> n, up |-> up]
  BY OpsBuilt
<1>2. <<a, b>> \in Seq(PlainOps)
  OBVIOUS
<1> QED BY <1>1, <1>2 DEF Recount

LEMMA AddRegular ==
  ASSUME Regular, Add PROVE Regular' /\ SameComing
<1>1. TypeOK /\ todo # <<>> /\ Head(todo).op = "add" /\ Then(<<>>) /\ lock' = "free"
  BY DEF Add, Begin, Regular
<1>2. Head(todo).n \in Dests
  BY <1>1, TypeFacts, HeadTaken, OpFacts
<1>3. /\ Bcast \in nbrs /\ nbrs \subseteq Dests
      /\ count \in [Dests -> 0 .. CountMod - 1] /\ window \in [Dests -> 0 .. MaxWindow]
  BY <1>1 DEF TypeOK
<1>4. 0 \in 0 .. CountMod - 1 /\ 0 \in 0 .. MaxWindow
  BY TschQueueAssumption
<1>5. /\ Bcast \in nbrs' /\ nbrs' \subseteq Dests
      /\ count' \in [Dests -> 0 .. CountMod - 1] /\ window' \in [Dests -> 0 .. MaxWindow]
  BY <1>2, <1>3, <1>4 DEF Add
<1> QED BY <1>1, <1>5, NbrStep, NoOps DEF Add

LEMMA CountLinkRegular ==
  ASSUME Regular, CountLink PROVE Regular' /\ SameComing
<1>1. TypeOK /\ todo # <<>> /\ Head(todo).op = "count" /\ Then(<<>>) /\ lock' = "free"
  BY DEF CountLink, Begin, Regular
<1>2. PICK n \in Dests : n = Head(todo).n
  BY <1>1, TypeFacts, HeadTaken, OpFacts
<1>3. PICK step \in Nat : step = IF Head(todo).up THEN 1 ELSE CountMod - 1
  BY TschQueueAssumption
<1>4. count[n] \in Int /\ (count[n] + step) % CountMod \in 0 .. CountMod - 1
  <2>1. count[n] \in 0 .. CountMod - 1
    BY <1>1 DEF TypeOK
  <2>2. CountMod \in Nat \ {0} /\ count[n] + step \in Int
    BY <2>1, TschQueueAssumption
  <2>3. (count[n] + step) % CountMod \in 0 .. CountMod - 1
    BY <2>2, Division, Zenon
  <2> QED BY <2>1, <2>3
<1>5. count' = IF n \in nbrs THEN [count EXCEPT ![n] = (count[n] + step) % CountMod] ELSE count
  BY <1>2, <1>3 DEF CountLink
<1>6. count' \in [Dests -> 0 .. CountMod - 1]
  BY <1>1, <1>4, <1>5 DEF TypeOK
<1>7. /\ UNCHANGED <<queue, tries, pool, ring, links, current, slot, parent, assoc>>
      /\ nbrs' = nbrs /\ window' = window
  BY DEF CountLink, frames
<1>8. Bcast \in nbrs' /\ nbrs' \subseteq Dests /\ window' \in [Dests -> 0 .. MaxWindow]
  BY <1>1, <1>7 DEF TypeOK
<1> QED BY <1>1, <1>6, <1>7, <1>8, NbrStep, NoOps

LEMMA RemoveRegular ==
  ASSUME Regular, Remove PROVE Regular' /\ SameComing
<1>1. TypeOK /\ todo # <<>> /\ Head(todo).op = "remove" /\ Then(<<>>) /\ lock' = "free"
  BY DEF Remove, Begin, Regular
<1>2. Head(todo).n \in Unicast /\ Bcast \notin Unicast
  BY <1>1, TypeFacts, HeadTaken, OpFacts, TschQueueAssumption
<1>3. /\ UNCHANGED <<queue, tries, pool, ring, links, current, slot, parent, assoc>>
      /\ nbrs' = nbrs \ {Head(todo).n} /\ window' = window /\ count' = count
  BY DEF Remove, frames
<1>4. /\ Bcast \in nbrs' /\ nbrs' \subseteq Dests
      /\ count' \in [Dests -> 0 .. CountMod - 1] /\ window' \in [Dests -> 0 .. MaxWindow]
  BY <1>1, <1>2, <1>3 DEF TypeOK
<1> QED BY <1>1, <1>3, <1>4, NbrStep, NoOps

(* The link kept for the next slot, if it is the one removed, is forgotten.*)
LEMMA RemoveLinkRegular ==
  ASSUME Regular, RemoveLink PROVE Regular' /\ SameComing
<1>1. TypeOK /\ TodoOrder /\ todo # <<>> /\ Head(todo).op = "unlink" /\ lock' = "free"
  BY DEF RemoveLink, Begin, Regular
<1>2. PICK t \in Timeslots : t = Head(todo).t
  BY <1>1, TypeFacts, HeadTaken, OpFacts
<1>3. /\ links' = [links EXCEPT ![t] = None] /\ current' = Kept(t)
      /\ Then(IF Has(t, "TX") THEN Recount(links[t].addr, FALSE) ELSE <<>>)
      /\ queue' = queue /\ tries' = tries /\ pool' = pool /\ ring' = ring /\ window' = window
      /\ nbrs' = nbrs /\ count' = count /\ slot' = slot /\ parent' = parent /\ assoc' = assoc
  BY <1>2 DEF RemoveLink, frames
<1>4. links \in [Timeslots -> Links \cup {None}] /\ current \in Timeslots \cup {None}
  BY <1>1 DEF TypeOK
<1>5. Has(t, "TX") => links[t].addr \in Dests
  BY <1>4 DEF Has, Links, SharedLink, Link, Dests
<1>6. ASSUME NEW ops \in Seq(PlainOps), Then(ops) PROVE todo' \in Seq(Ops) /\ TodoOrder' /\ SameComing
  BY <1>1, <1>3, <1>6, ThenFacts
<1>7. todo' \in Seq(Ops) /\ TodoOrder' /\ SameComing
  <2>1. CASE Has(t, "TX")
    <3>1. Recount(links[t].addr, FALSE) \in Seq(PlainOps)
      BY <1>5, <2>1, RecountOps
    <3> QED BY <1>3, <1>6, <2>1, <3>1
  <2>2. CASE ~Has(t, "TX")
    BY <1>3, <1>6, <2>2, NoOps
  <2> QED BY <2>1, <2>2
<1>8. links' \in [Timeslots -> Links \cup {None}] /\ current' \in Timeslots \cup {None}
  BY <1>3, <1>4 DEF Kept
<1>9. TypeOK'
  BY <1>1, <1>3, <1>7, <1>8 DEF TypeOK
<1>10. CurrentInSchedule'
  BY <1>2, <1>3, <1>4, TschQueueAssumption DEF Regular, CurrentInSchedule, Kept
<1>11. RingHasRoom'
  BY <1>3 DEF Regular, RingHasRoom
<1> QED BY <1>3, <1>7, <1>9, <1>10, <1>11 DEF Regular

LEMMA AddLinkRegular ==
  ASSUME Regular, AddLink PROVE Regular' /\ SameComing
<1>1. TypeOK /\ TodoOrder /\ todo # <<>> /\ Head(todo).op = "link" /\ lock' = "free"
  BY DEF AddLink, Begin, Regular
<1>2. PICK t \in Timeslots, l \in Links : t = Head(todo).t /\ l = Head(todo).l
  BY <1>1, TypeFacts, HeadTaken, OpFacts
<1>3. /\ \/ links' = links /\ Then(<<>>)
         \/ /\ links' = [links EXCEPT ![t] = l]
            /\ Then(IF "TX" \in l.options THEN Recount(l.addr, TRUE) ELSE <<>>)
      /\ queue' = queue /\ tries' = tries /\ pool' = pool /\ ring' = ring /\ window' = window
      /\ nbrs' = nbrs /\ count' = count /\ current' = current
      /\ slot' = slot /\ parent' = parent /\ assoc' = assoc
  BY <1>2 DEF AddLink, frames
<1>4. links \in [Timeslots -> Links \cup {None}] /\ current \in Timeslots \cup {None}
  BY <1>1 DEF TypeOK
<1>5. l.addr \in Dests
  BY DEF Links, SharedLink, Link, Dests
<1>6. ASSUME NEW ops \in Seq(PlainOps), Then(ops) PROVE todo' \in Seq(Ops) /\ TodoOrder' /\ SameComing
  BY <1>1, <1>3, <1>6, ThenFacts
<1>7. Recount(l.addr, TRUE) \in Seq(PlainOps)
  BY <1>5, RecountOps
<1>8. todo' \in Seq(Ops) /\ TodoOrder' /\ SameComing
  <2>1. CASE Then(<<>>)
    BY <1>6, <2>1, NoOps
  <2>2. CASE Then(Recount(l.addr, TRUE))
    BY <1>6, <1>7, <2>2
  <2> QED BY <1>3, <2>1, <2>2
<1>9. links' \in [Timeslots -> Links \cup {None}] /\ current' \in Timeslots \cup {None}
  BY <1>3, <1>4
<1>10. TypeOK'
  BY <1>1, <1>3, <1>8, <1>9 DEF TypeOK
<1>11. CurrentInSchedule'
  BY <1>3, <1>4, TschQueueAssumption DEF Regular, CurrentInSchedule
<1>12. RingHasRoom'
  BY <1>3 DEF Regular, RingHasRoom
<1> QED BY <1>3, <1>8, <1>10, <1>11, <1>12 DEF Regular

LEMMA DropUnusedRegular ==
  ASSUME Regular, DropUnused PROVE Regular' /\ SameComing
<1>1. TypeOK /\ todo # <<>> /\ Head(todo).op = "drop" /\ lock' = "free"
  BY DEF DropUnused, Begin, Regular
<1>2. PICK left \in SUBSET Unicast : left = Head(todo).left
  BY <1>1, TypeFacts, HeadTaken, OpFacts
<1>3. /\ UNCHANGED <<queue, tries, pool, ring, links, current, slot, parent, assoc>>
      /\ nbrs' = nbrs /\ window' = window /\ count' = count
  BY DEF DropUnused, frames, others
<1>4. /\ Bcast \in nbrs' /\ nbrs' \subseteq Dests
      /\ count' \in [Dests -> 0 .. CountMod - 1] /\ window' \in [Dests -> 0 .. MaxWindow]
  BY <1>1, <1>3 DEF TypeOK
<1>5. ASSUME NEW ops \in Seq(PlainOps), Then(ops) PROVE Regular' /\ SameComing
  BY <1>1, <1>3, <1>4, <1>5, NbrStep
<1>6. CASE Then(<<>>)
  BY <1>5, <1>6, NoOps
<1>7. ASSUME NEW n \in left,
             Then(IF Unused(n) THEN <<[op |-> "remove", n |-> n], [op |-> "drop", left |-> left \ {n}]>>
                  ELSE <<[op |-> "drop", left |-> left \ {n}]>>)
      PROVE  Regular' /\ SameComing
  <2>1. /\ [op |-> "remove", n |-> n] \in PlainOps
        /\ [op |-> "drop", left |-> left \ {n}] \in PlainOps
    BY OpsBuilt
  <2>2. /\ <<[op |-> "remove", n |-> n], [op |-> "drop", left |-> left \ {n}]>> \in Seq(PlainOps)
        /\ <<[op |-> "drop", left |-> left \ {n}]>> \in Seq(PlainOps)
    BY <2>1
  <2> QED BY <1>5, <1>7, <2>2
<1> QED BY <1>2, <1>6, <1>7 DEF DropUnused

(* A packet is put at the end of a queue that has room.                    *)
LEMMA PutRegular ==
  ASSUME Regular, Put PROVE Regular' /\ SameComing
<1>1. TypeOK /\ TodoOrder /\ todo # <<>> /\ Head(todo).op = "put" /\ Then(<<>>) /\ lock' = "free"
  BY DEF Put, Begin, Regular
<1>2. PICK n \in Dests : n = Head(todo).n
  BY <1>1, TypeFacts, HeadTaken, OpFacts
<1>3. /\ ring' = ring /\ window' = window /\ nbrs' = nbrs /\ count' = count /\ links' = links
      /\ current' = current /\ slot' = slot /\ parent' = parent /\ assoc' = assoc
      /\ \/ pool' = pool /\ tries' = tries /\ queue' = queue
         \/ /\ Len(queue[n]) < QueueCap
            /\ \E p \in pool : /\ pool' = pool \ {p} /\ tries' = [tries EXCEPT ![p] = 0]
                               /\ queue' = [queue EXCEPT ![n] = Append(queue[n], p)]
  BY <1>2 DEF Put, others
<1>4. todo' \in Seq(Ops) /\ TodoOrder' /\ SameComing
  BY <1>1, <1>3, ThenFacts, NoOps
<1>5. /\ queue' \in [Dests -> Seq(Packets)] /\ tries' \in [Packets -> 0 .. Retries + 1]
      /\ pool' \subseteq Packets /\ \A m \in Dests : Len(queue'[m]) <= QueueCap
  <2>1. /\ queue \in [Dests -> Seq(Packets)] /\ tries \in [Packets -> 0 .. Retries + 1]
        /\ pool \subseteq Packets /\ \A m \in Dests : Len(queue[m]) <= QueueCap
    BY <1>1 DEF TypeOK, Regular
  <2>2. CASE pool' = pool /\ tries' = tries /\ queue' = queue
    BY <2>1, <2>2
  <2>3. ASSUME NEW p \in pool, pool' = pool \ {p}, tries' = [tries EXCEPT ![p] = 0],
               queue' = [queue EXCEPT ![n] = Append(queue[n], p)], Len(queue[n]) < QueueCap
        PROVE  /\ queue' \in [Dests -> Seq(Packets)] /\ tries' \in [Packets -> 0 .. Retries + 1]
               /\ pool' \subseteq Packets /\ \A m \in Dests : Len(queue'[m]) <= QueueCap
    <3>1. PICK s \in Seq(Packets) : s = queue[n]
      BY <2>1
    <3>2. PICK q : q = Append(s, p)
      OBVIOUS
    <3>3. q \in Seq(Packets) /\ Len(q) = Len(s) + 1 /\ Len(s) \in Nat
      BY <2>1, <3>2, Appended, LenProperties
    <3>4. Len(q) <= QueueCap
      BY <2>3, <3>1, <3>3, TschQueueAssumption
    <3>5. queue' = [queue EXCEPT ![n] = q]
      BY <2>3, <3>1, <3>2
    <3>6. 0 \in 0 .. Retries + 1
      BY TschQueueAssumption
    <3> QED BY <2>1, <2>3, <3>3, <3>4, <3>5, <3>6
  <2> QED BY <1>3, <2>2, <2>3
<1>6. TypeOK'
  BY <1>1, <1>3, <1>4, <1>5 DEF TypeOK
<1>7. RingHasRoom' /\ CurrentInSchedule'
  BY <1>3 DEF Regular, RingHasRoom, CurrentInSchedule
<1> QED BY <1>4, <1>5, <1>6, <1>7 DEF Regular

(* The packets of a queue are freed from its front.                        *)
LEMMA FlushRegular ==
  ASSUME Regular, Flush PROVE Regular' /\ SameComing
<1>1. TypeOK /\ TodoOrder /\ todo # <<>> /\ Head(todo).op = "flush" /\ lock' = "free"
  BY DEF Flush, Begin, Regular
<1>2. /\ tries' = tries /\ ring' = ring /\ nbrs' = nbrs /\ count' = count /\ links' = links
      /\ current' = current /\ slot' = slot /\ parent' = parent /\ assoc' = assoc
      /\ \/ Then(<<>>) /\ window' = [n \in Dests |-> 0] /\ queue' = queue /\ pool' = pool
         \/ /\ todo' = todo /\ window' = window
            /\ \E n \in nbrs : /\ queue[n] # <<>> /\ pool' = pool \cup {Head(queue[n])}
                               /\ queue' = [queue EXCEPT ![n] = Tail(queue[n])]
  BY DEF Flush, others
<1>3. todo' \in Seq(Ops) /\ TodoOrder' /\ SameComing
  <2>1. CASE Then(<<>>)
    BY <1>1, <1>2, <2>1, ThenFacts, NoOps
  <2>2. CASE todo' = todo
    BY <1>1, <1>2, <2>2 DEF TypeOK, TodoOrder, SameComing, Coming
  <2> QED BY <1>2, <2>1, <2>2
<1>4. /\ queue \in [Dests -> Seq(Packets)] /\ pool \subseteq Packets
      /\ window \in [Dests -> 0 .. MaxWindow] /\ nbrs \subseteq Dests
      /\ \A m \in Dests : Len(queue[m]) <= QueueCap
  BY <1>1 DEF TypeOK, Regular
<1>5. window' \in [Dests -> 0 .. MaxWindow]
  BY <1>2, <1>4, TschQueueAssumption
<1>6. /\ queue' \in [Dests -> Seq(Packets)] /\ pool' \subseteq Packets
      /\ \A m \in Dests : Len(queue'[m]) <= QueueCap
  <2>1. CASE queue' = queue /\ pool' = pool
    BY <1>4, <2>1
  <2>2. ASSUME NEW n \in nbrs, queue[n] # <<>>, pool' = pool \cup {Head(queue[n])},
               queue' = [queue EXCEPT ![n] = Tail(queue[n])]
        PROVE  /\ queue' \in [Dests -> Seq(Packets)] /\ pool' \subseteq Packets
               /\ \A m \in Dests : Len(queue'[m]) <= QueueCap
    <3>1. PICK s, q, p : s \in Seq(Packets) /\ s = queue[n] /\ q = Tail(s) /\ p = Head(s) /\ n \in Dests
      BY <1>4
    <3>2. q \in Seq(Packets) /\ Len(q) = Len(s) - 1 /\ p \in Packets /\ Len(s) \in Nat
      BY <2>2, <3>1, HeadTaken, LenProperties
    <3>3. Len(q) <= QueueCap
      BY <1>4, <3>1, <3>2, TschQueueAssumption
    <3>4. queue' = [queue EXCEPT ![n] = q] /\ pool' = pool \cup {p}
      BY <2>2, <3>1
    <3> QED BY <1>4, <3>2, <3>3, <3>4
  <2> QED BY <1>2, <2>1, <2>2
<1>7. TypeOK'
  BY <1>1, <1>2, <1>3, <1>5, <1>6 DEF TypeOK
<1>8. RingHasRoom' /\ CurrentInSchedule'
  BY <1>2 DEF Regular, RingHasRoom, CurrentInSchedule
<1> QED BY <1>3, <1>6, <1>7, <1>8 DEF Regular

(* While one packet is being freed, it is the one place before the last    *)
(* but one, and the ring is not empty.                                     *)
LEMMA FreeFacts ==
  ASSUME Regular, Free
  PROVE  /\ ring # <<>> /\ todo' = Tail(todo) /\ todo' \in Seq(Ops) /\ TodoOrder'
         /\ Coming("free") /\ Coming("get")' /\ ~Coming("free")'
<1>1. TypeOK /\ TodoOrder /\ todo # <<>> /\ Head(todo).op = "free" /\ Then(<<>>)
      /\ ring' = ring /\ assoc' = assoc
  BY DEF Free, Begin, Regular
<1>2. /\ todo \in Seq(Ops) /\ DOMAIN todo = 1 .. Len(todo) /\ Len(todo) \in Nat
      /\ Head(todo) = todo[1] /\ 1 \in DOMAIN todo
      /\ Tail(todo) \in Seq(Ops) /\ Len(Tail(todo)) = Len(todo) - 1
      /\ DOMAIN Tail(todo) = 1 .. Len(todo) - 1
      /\ \A i \in DOMAIN Tail(todo) : i + 1 \in DOMAIN todo /\ Tail(todo)[i] = todo[i + 1]
  BY <1>1, TypeFacts, HeadTaken
<1>3. todo' = Tail(todo)
  BY <1>1, <1>2, ConcatEmptySeq DEF Then
<1>4. Len(todo) = 3 /\ todo[3].op = "get" /\ ring # <<>>
  <2>1. 1 = Len(todo) - 2 /\ todo[Len(todo)].op = "get"
    BY <1>1, <1>2 DEF TodoOrder
  <2>2. Len(todo) = 3
    <3>1. PICK l \in Nat : l = Len(todo)
      BY <1>2
    <3>2. 1 = l - 2
      BY <2>1, <3>1, Zenon
    <3>3. l = 3
      BY <3>2
    <3> QED BY <3>1, <3>3
  <2>3. 3 \in DOMAIN todo
    BY <1>2, <2>2
  <2> QED BY <1>1, <2>1, <2>2, <2>3 DEF TodoOrder
<1>5. DOMAIN todo' = 1 .. 2 /\ Len(todo') = 2 /\ todo'[1] = todo[2] /\ todo'[2] = todo[3]
      /\ DOMAIN todo = 1 .. 3
  BY <1>2, <1>3, <1>4
<1>6. \A i \in 1 .. 3 : /\ todo[i].op = "get" => i = 3
                        /\ todo[i].op = "free" => i = 1
                        /\ todo[i].op = "join" => i = 3
                        /\ todo[i].op = "flush" => assoc = "out"
  BY <1>1, <1>4, <1>5 DEF TodoOrder
<1>7. /\ todo[2].op \notin {"get", "free", "join"} /\ (todo[2].op = "flush" => assoc = "out")
      /\ todo[3].op = "get" /\ todo[1].op = "free"
  BY <1>1, <1>2, <1>4, <1>6
<1>8. TodoOrder'
  BY <1>1, <1>4, <1>5, <1>7 DEF TodoOrder
<1>9. Coming("free") /\ Coming("get")' /\ ~Coming("free")'
  BY <1>5, <1>7 DEF Coming
<1> QED BY <1>2, <1>3, <1>4, <1>8, <1>9

LEMMA FreeRegular ==
  ASSUME Regular, Free PROVE Regular'
<1>1. TypeOK /\ lock' = "free" /\ ring # <<>> /\ todo' \in Seq(Ops) /\ TodoOrder'
  BY FreeFacts DEF Regular, Free, Begin
<1>2. /\ queue' = queue /\ tries' = tries /\ ring' = ring /\ window' = window
      /\ nbrs' = nbrs /\ count' = count /\ links' = links
      /\ current' = current /\ slot' = slot /\ parent' = parent /\ assoc' = assoc
      /\ pool' = pool \cup {Head(ring).pkt}
  BY DEF Free, others
<1>3. pool' \subseteq Packets
  <2>1. Head(ring).pkt \in Packets
    BY <1>1, TypeFacts, HeadTaken
  <2> QED BY <1>1, <1>2, <2>1 DEF TypeOK
<1>4. TypeOK'
  BY <1>1, <1>2, <1>3 DEF TypeOK
<1>5. RingHasRoom' /\ CurrentInSchedule'
  BY <1>2 DEF Regular, RingHasRoom, CurrentInSchedule
<1> QED BY <1>1, <1>2, <1>4, <1>5 DEF Regular

(* When the packet reported leaves the ring, it is the only thing left to  *)
(* do, and it has been freed.                                              *)
LEMMA GetFacts ==
  ASSUME Regular, Get
  PROVE  /\ ring # <<>> /\ todo' = <<>>
         /\ Coming("get") /\ ~Coming("free") /\ ~Coming("get")' /\ ~Coming("free")'
<1>1. TypeOK /\ TodoOrder /\ todo # <<>> /\ Head(todo).op = "get" /\ Then(<<>>)
  BY DEF Get, Begin, Regular
<1>2. /\ todo \in Seq(Ops) /\ DOMAIN todo = 1 .. Len(todo) /\ Len(todo) \in Nat
      /\ Head(todo) = todo[1] /\ 1 \in DOMAIN todo
      /\ Tail(todo) \in Seq(Ops) /\ Len(Tail(todo)) = Len(todo) - 1
  BY <1>1, TypeFacts, HeadTaken
<1>3. todo' = Tail(todo)
  BY <1>1, <1>2, ConcatEmptySeq DEF Then
<1>4. Len(todo) = 1 /\ ring # <<>>
  BY <1>1, <1>2 DEF TodoOrder
<1>5. todo' = <<>>
  BY <1>2, <1>3, <1>4, EmptySeq
<1>6. DOMAIN todo = 1 .. 1 /\ todo[1].op = "get"
  BY <1>1, <1>2, <1>4
<1> QED BY <1>4, <1>5, <1>6 DEF Coming

LEMMA NothingLeftToDo ==
  ASSUME todo' = <<>> PROVE todo' \in Seq(Ops) /\ TodoOrder' /\ ~Coming("get")' /\ ~Coming("free")'
BY DEF TodoOrder, Coming

LEMMA GetRegular ==
  ASSUME Regular, Get PROVE Regular'
<1>1. TypeOK /\ lock' = "free" /\ ring # <<>> /\ todo' \in Seq(Ops) /\ TodoOrder'
  BY GetFacts, NothingLeftToDo DEF Regular, Get, Begin
<1>2. /\ queue' = queue /\ tries' = tries /\ pool' = pool /\ window' = window
      /\ nbrs' = nbrs /\ count' = count /\ links' = links
      /\ current' = current /\ slot' = slot /\ parent' = parent /\ assoc' = assoc
      /\ ring' = Tail(ring)
  BY DEF Get, others
<1>3. ring' \in Seq(Sent) /\ Len(ring') = Len(ring) - 1 /\ Len(ring) \in Nat
  BY <1>1, <1>2, TypeFacts, HeadTaken
<1>4. TypeOK'
  BY <1>1, <1>2, <1>3 DEF TypeOK
<1>5. RingHasRoom'
  BY <1>2, <1>3, TschQueueAssumption DEF Regular, RingHasRoom
<1>6. CurrentInSchedule'
  BY <1>2 DEF Regular, CurrentInSchedule
<1> QED BY <1>1, <1>2, <1>4, <1>5, <1>6 DEF Regular

LEMMA ForgetRegular ==
  ASSUME Regular, Forget PROVE Regular' /\ SameComing
<1>1. TypeOK /\ TodoOrder /\ todo # <<>> /\ Head(todo).op = "forget" /\ Then(<<>>) /\ lock' = "free"
  BY DEF Forget, Begin, Regular
<1>2. /\ queue' = queue /\ tries' = tries /\ pool' = pool /\ window' = window /\ ring' = ring
      /\ nbrs' = nbrs /\ count' = count /\ links' = links /\ slot' = slot /\ assoc' = assoc
      /\ current' = None /\ parent' = None
  BY DEF Forget, frames, others
<1>3. todo' \in Seq(Ops) /\ TodoOrder' /\ SameComing
  BY <1>1, <1>2, ThenFacts, NoOps
<1>4. TypeOK'
  BY <1>1, <1>2, <1>3 DEF TypeOK
<1>5. RingHasRoom' /\ CurrentInSchedule'
  BY <1>2 DEF Regular, RingHasRoom, CurrentInSchedule
<1> QED BY <1>2, <1>3, <1>4, <1>5 DEF Regular

(* To join is the last thing to do.                                        *)
LEMMA JoinRegular ==
  ASSUME Regular, Join PROVE Regular' /\ todo' = <<>> /\ ~Coming("get") /\ ~Coming("free")
<1>1. TypeOK /\ TodoOrder /\ todo # <<>> /\ Head(todo).op = "join" /\ Then(<<>>) /\ lock' = "free"
  BY DEF Join, Begin, Regular
<1>2. /\ todo \in Seq(Ops) /\ DOMAIN todo = 1 .. Len(todo) /\ Len(todo) \in Nat
      /\ Head(todo) = todo[1] /\ 1 \in DOMAIN todo
      /\ Tail(todo) \in Seq(Ops) /\ Len(Tail(todo)) = Len(todo) - 1
  BY <1>1, TypeFacts, HeadTaken
<1>3. Len(todo) = 1
  BY <1>1, <1>2 DEF TodoOrder
<1>4. todo' = <<>>
  <2>1. todo' = Tail(todo)
    BY <1>1, <1>2, ConcatEmptySeq DEF Then
  <2> QED BY <1>2, <1>3, <2>1, EmptySeq
<1>5. ~Coming("get") /\ ~Coming("free")
  <2>1. DOMAIN todo = 1 .. 1 /\ todo[1].op = "join"
    BY <1>1, <1>2, <1>3
  <2> QED BY <2>1 DEF Coming
<1>6. PICK n \in Unicast : n = Head(todo).n
  BY <1>1, <1>2, TypeFacts, OpFacts
<1>7. /\ queue' = queue /\ tries' = tries /\ pool' = pool /\ window' = window /\ ring' = ring
      /\ nbrs' = nbrs /\ count' = count /\ links' = links /\ slot' = slot
      /\ \/ parent' = parent /\ assoc' = assoc /\ current' = current
         \/ /\ parent' = n /\ assoc' = "in"
            /\ \E t \in Timeslots : links[t] # None /\ current' = t
  BY <1>6 DEF Join, frames, others
<1>8. /\ parent' \in Unicast \cup {None} /\ assoc' \in {"in", "leaving", "out"}
      /\ current' \in Timeslots \cup {None}
  BY <1>1, <1>7 DEF TypeOK
<1>9. todo' \in Seq(Ops) /\ TodoOrder'
  BY <1>4, NothingLeftToDo
<1>10. TypeOK'
  BY <1>1, <1>7, <1>8, <1>9 DEF TypeOK
<1>11. RingHasRoom'
  BY <1>7 DEF Regular, RingHasRoom
<1>12. CurrentInSchedule'
  BY <1>7 DEF Regular, CurrentInSchedule
<1> QED BY <1>4, <1>5, <1>7, <1>9, <1>10, <1>11, <1>12 DEF Regular

(* A call ends with three operations.                                      *)
LEMMA CallEnds ==
  ASSUME NEW call \in Seq(PlainOps), NEW e \in Seq(Ops), Len(e) = 3
  PROVE  /\ Len(call) \in Nat
         /\ call \o e \in Seq(Ops) /\ Len(call \o e) = Len(call) + 3
         /\ DOMAIN (call \o e) = 1 .. Len(call) + 3
         /\ \A i \in 1 .. Len(call) : (call \o e)[i] \in PlainOps
         /\ \A j \in 1 .. 3 : (call \o e)[Len(call) + j] = e[j]
<1>1. PICK k \in Nat : k = Len(call)
  BY LenProperties
<1>2. \A i \in 1 .. k : call[i] \in PlainOps
  BY <1>1, Places
<1>3. call \in Seq(Ops)
  <2>1. \A i \in DOMAIN call : call[i] \in Ops
    BY <1>1, <1>2, LenProperties DEF PlainOps
  <2> QED BY <2>1, Widened
<1>4. PICK s : s = call \o e
  OBVIOUS
<1>5. /\ s \in Seq(Ops) /\ Len(s) = k + 3
      /\ \A i \in 1 .. k + 3 : s[i] = IF i <= k THEN call[i] ELSE e[i - k]
  <2>1. /\ call \o e \in Seq(Ops) /\ Len(call \o e) = Len(call) + Len(e)
        /\ \A i \in 1 .. Len(call) + Len(e) :
              (call \o e)[i] = IF i <= Len(call) THEN call[i] ELSE e[i - Len(call)]
    BY <1>3, ConcatProperties
  <2> QED BY <1>1, <1>4, <2>1
<1>6. DOMAIN s = 1 .. k + 3
  BY <1>5, LenProperties
<1>7. \A i \in 1 .. k : s[i] \in PlainOps
  BY <1>2, <1>5
<1>8. ASSUME NEW j \in 1 .. 3 PROVE s[k + j] = e[j]
  <2>1. k + j \in 1 .. k + 3 /\ ~ (k + j <= k) /\ k + j - k = j
    OBVIOUS
  <2> QED BY <1>5, <2>1
<1> QED BY <1>1, <1>4, <1>5, <1>6, <1>7, <1>8

LEMMA CallFacts == \A call \in Calls : call \in Seq(PlainOps)
<1> SUFFICES ASSUME NEW call \in Calls PROVE call \in Seq(PlainOps)
  OBVIOUS
<1>1. CASE call = <<>>
  BY <1>1, NoOps
<1>2. ASSUME NEW n \in Sends, call = <<[op |-> "add", n |-> n], [op |-> "put", n |-> n]>>
      PROVE  call \in Seq(PlainOps)
  <2>1. PICK a \in PlainOps, b \in PlainOps : a = [op |-> "add", n |-> n] /\ b = [op |-> "put", n |-> n]
    BY OpsBuilt, TschQueueAssumption
  <2> QED BY <1>2, <2>1
<1>3. ASSUME NEW t \in Timeslots, call = <<[op |-> "unlink", t |-> t]>>
      PROVE  call \in Seq(PlainOps)
  <2>1. PICK a \in PlainOps : a = [op |-> "unlink", t |-> t]
    BY OpsBuilt
  <2> QED BY <1>3, <2>1
<1>4. ASSUME NEW t \in Timeslots, NEW l \in Links,
             call = <<[op |-> "unlink", t |-> t], [op |-> "link", t |-> t, l |-> l]>>
      PROVE  call \in Seq(PlainOps)
  <2>1. PICK a \in PlainOps, b \in PlainOps :
          a = [op |-> "unlink", t |-> t] /\ b = [op |-> "link", t |-> t, l |-> l]
    BY OpsBuilt
  <2> QED BY <1>4, <2>1
<1>5. \/ call = <<>>
      \/ \E n \in Sends : call = <<[op |-> "add", n |-> n], [op |-> "put", n |-> n]>>
      \/ \E t \in Timeslots : call = <<[op |-> "unlink", t |-> t]>>
      \/ \E t \in Timeslots, l \in Links :
           call = <<[op |-> "unlink", t |-> t], [op |-> "link", t |-> t, l |-> l]>>
  BY DEF Calls
<1> QED BY <1>1, <1>2, <1>3, <1>4, <1>5, Zenon

LEMMA NoneComing ==
  ASSUME todo = <<>> PROVE ~Coming("get") /\ ~Coming("free")
BY DEF Coming

(* All but what is left to do, the lock and the association stays.         *)
LEMMA TodoStep ==
  ASSUME Regular, todo' \in Seq(Ops), TodoOrder', assoc' \in {"in", "leaving", "out"},
         lock' \in {"free", "wanted", "held"},
         UNCHANGED <<frames, others, current, slot, parent>>
  PROVE  Regular'
<1>1. /\ queue' = queue /\ tries' = tries /\ pool' = pool /\ window' = window /\ ring' = ring
      /\ nbrs' = nbrs /\ count' = count /\ links' = links /\ slot' = slot
      /\ current' = current /\ parent' = parent
  BY DEF frames, others
<1>2. TypeOK'
  BY <1>1 DEF TypeOK, Regular
<1>3. RingHasRoom' /\ CurrentInSchedule'
  BY <1>1 DEF Regular, RingHasRoom, CurrentInSchedule
<1> QED BY <1>1, <1>2, <1>3 DEF Regular

LEMMA LockRegular ==
  ASSUME Regular, WantLock \/ TakeLock
  PROVE  Regular' /\ SameComing /\ UNCHANGED <<frames, slot, assoc>>
<1>1. /\ lock' \in {"wanted", "held"} /\ todo' = todo /\ assoc' = assoc
      /\ UNCHANGED <<frames, others, current, slot, parent>>
  BY DEF WantLock, TakeLock
<1>2. ring' = ring
  BY <1>1 DEF frames
<1>3. todo' \in Seq(Ops) /\ TodoOrder' /\ assoc' \in {"in", "leaving", "out"}
  BY <1>1, <1>2 DEF Regular, TypeOK, TodoOrder
<1>4. SameComing
  BY <1>1 DEF SameComing, Coming
<1> QED BY <1>1, <1>3, <1>4, TodoStep

LEMMA CallRegular ==
  ASSUME Regular, Call PROVE Regular' /\ ~Coming("get")' /\ ~Coming("free")'
<1>1. todo' \in Seq(PlainOps)
  BY CallFacts DEF Call
<1>2. Len(todo') \in Nat /\ DOMAIN todo' = 1 .. Len(todo') /\ \A i \in DOMAIN todo' : todo'[i] \in PlainOps
  BY <1>1, Places, Zenon
<1>3. todo' \in Seq(Ops)
  <2>1. \A i \in DOMAIN todo' : todo'[i] \in Ops
    BY <1>2 DEF PlainOps
  <2> QED BY <1>1, <2>1, Widened
<1>4. TodoOrder' /\ ~Coming("get")' /\ ~Coming("free")'
  BY <1>2 DEF TodoOrder, Coming, PlainOps
<1>5. lock' = lock /\ assoc' = assoc
  BY DEF Call
<1>6. lock' \in {"free", "wanted", "held"} /\ assoc' \in {"in", "leaving", "out"}
  BY <1>5 DEF Regular, TypeOK
<1> QED BY <1>3, <1>4, <1>6, TodoStep DEF Call

LEMMA ReportRegular ==
  ASSUME Regular, Report PROVE Regular' /\ Coming("free")'
<1>1. PICK call \in Seq(PlainOps) : todo' = call \o <<[op |-> "free"], Drop, [op |-> "get"]>>
  BY CallFacts DEF Report
<1>2. Drop \in PlainOps /\ Drop \in Ops /\ [op |-> "free"] \in Ops /\ [op |-> "get"] \in Ops
  BY OpsBuilt DEF Drop, PlainOps
<1>9. PICK a \in Ops, c \in Ops : a = [op |-> "free"] /\ c = [op |-> "get"]
  BY <1>2
<1>10. PICK e : e = <<a, Drop, c>> /\ todo' = call \o e
  BY <1>1, <1>9
<1>11. e \in Seq(Ops) /\ Len(e) = 3 /\ e[1] = a /\ e[2] = Drop /\ e[3] = c
  BY <1>2, <1>10
<1>12. PICK k \in Nat : k = Len(call)
  BY LenProperties
<1>3. /\ todo' \in Seq(Ops) /\ Len(todo') = k + 3 /\ DOMAIN todo' = 1 .. k + 3
      /\ \A i \in 1 .. k : todo'[i] \in PlainOps
      /\ todo'[k + 1] = a /\ todo'[k + 2] = Drop /\ todo'[k + 3] = c
  <2>1. /\ Len(call) \in Nat /\ call \o e \in Seq(Ops) /\ Len(call \o e) = Len(call) + 3
        /\ DOMAIN (call \o e) = 1 .. Len(call) + 3
        /\ \A i \in 1 .. Len(call) : (call \o e)[i] \in PlainOps
        /\ \A j \in 1 .. 3 : (call \o e)[Len(call) + j] = e[j]
    BY <1>11, CallEnds
  <2>2. /\ todo' \in Seq(Ops) /\ Len(todo') = k + 3 /\ DOMAIN todo' = 1 .. k + 3
        /\ \A i \in 1 .. k : todo'[i] \in PlainOps
        /\ \A j \in 1 .. 3 : todo'[k + j] = e[j]
    BY <2>1, <1>10, <1>12
  <2> QED BY <2>2, <1>11
<1>4. ring' = ring /\ ring # <<>> /\ lock' = lock /\ assoc' = assoc
      /\ UNCHANGED <<frames, others, current, slot, parent>>
  BY DEF Report, frames
<1>5. /\ \A i \in 1 .. k : todo'[i].op \notin {"free", "get", "flush", "join"}
      /\ todo'[k + 1].op = "free" /\ todo'[k + 2].op = "drop" /\ todo'[k + 3].op = "get"
  BY <1>3, <1>9 DEF PlainOps, Drop
<1>6. Coming("free")'
  <2>1. k + 1 \in DOMAIN todo'
    BY <1>3
  <2> QED BY <1>5, <2>1 DEF Coming
<1>7. TodoOrder'
  <2> SUFFICES ASSUME NEW i \in 1 .. k + 3
               PROVE  /\ todo'[i].op = "get" => i = k + 3 /\ ring' # <<>>
                      /\ todo'[i].op = "free" => i = k + 3 - 2 /\ todo'[k + 3].op = "get"
                      /\ todo'[i].op = "join" => i = k + 3
                      /\ todo'[i].op = "flush" => assoc' = "out"
    BY <1>3 DEF TodoOrder
  <2>1. i \in 1 .. k \/ i = k + 1 \/ i = k + 2 \/ i = k + 3
    OBVIOUS
  <2>2. CASE i = k + 1
    <3>1. i = k + 3 - 2
      BY <2>2
    <3> QED BY <1>5, <2>2, <3>1
  <2> QED BY <1>4, <1>5, <2>1, <2>2
<1>8. lock' \in {"free", "wanted", "held"} /\ assoc' \in {"in", "leaving", "out"}
  BY <1>4 DEF Regular, TypeOK
<1> QED BY <1>3, <1>4, <1>6, <1>7, <1>8, TodoStep

LEMMA EbLeaveRegular ==
  ASSUME Regular, EbLeave PROVE Regular'
<1>1. todo' = <<>> /\ lock' = lock /\ assoc' = "leaving"
      /\ UNCHANGED <<frames, others, current, slot, parent>>
  BY DEF EbLeave
<1>2. lock' \in {"free", "wanted", "held"}
  BY <1>1 DEF Regular, TypeOK
<1> QED BY <1>1, <1>2, NothingLeftToDo, TodoStep

LEMMA ResetRegular ==
  ASSUME Regular, Reset PROVE Regular' /\ ~Coming("get")' /\ ~Coming("free")'
<1>1. /\ todo' = <<[op |-> "flush"], Drop, [op |-> "forget"]>> /\ assoc' = "out" /\ lock' = lock
      /\ UNCHANGED <<frames, others, current, slot, parent>>
  BY DEF Reset
<1>2. Drop \in Ops /\ [op |-> "flush"] \in Ops /\ [op |-> "forget"] \in Ops
  BY OpsBuilt DEF Drop, PlainOps
<1>3. PICK k \in Nat :
        /\ todo' \in Seq(Ops) /\ Len(todo') = k + 3 /\ DOMAIN todo' = 1 .. k + 3
        /\ todo'[k + 1] = [op |-> "flush"] /\ todo'[k + 2] = Drop /\ todo'[k + 3] = [op |-> "forget"]
        /\ k = 0
  BY <1>1, <1>2
<1>4. \A i \in DOMAIN todo' : todo'[i].op \in {"flush", "drop", "forget"}
  BY <1>3 DEF Drop
<1>5. TodoOrder' /\ ~Coming("get")' /\ ~Coming("free")'
  BY <1>1, <1>4 DEF TodoOrder, Coming
<1>6. lock' \in {"free", "wanted", "held"}
  BY <1>1 DEF Regular, TypeOK
<1> QED BY <1>1, <1>3, <1>5, <1>6, TodoStep

LEMMA AssociateRegular ==
  ASSUME Regular, NEW n \in Unicast, Associate(n)
  PROVE  Regular' /\ ~Coming("get")' /\ ~Coming("free")'
<1>1. Cardinality(Timeslots) \in Nat
  BY FS_CardinalityType, TschQueueAssumption
<1>2. PICK order \in [1 .. Cardinality(Timeslots) -> Timeslots] :
        todo' = [i \in DOMAIN order |-> [op |-> "unlink", t |-> order[i]]]
                  \o <<[op |-> "link", t |-> SharedSlot, l |-> SharedLink],
                       [op |-> "add", n |-> n], [op |-> "join", n |-> n]>>
  BY DEF Associate
<1>3. PICK call : call = [i \in 1 .. Cardinality(Timeslots) |-> [op |-> "unlink", t |-> order[i]]]
  OBVIOUS
<1>4. call \in Seq(PlainOps)
  <2>1. \A i \in 1 .. Cardinality(Timeslots) : [op |-> "unlink", t |-> order[i]] \in PlainOps
    BY OpsBuilt
  <2> QED BY <1>1, <1>3, <2>1, IsASeq
<1>5. PICK a \in Ops, b \in Ops, c \in Ops :
        /\ a = [op |-> "link", t |-> SharedSlot, l |-> SharedLink]
        /\ b = [op |-> "add", n |-> n] /\ c = [op |-> "join", n |-> n]
  <2>1. SharedSlot \in Timeslots /\ SharedLink \in Links /\ n \in Dests
    BY TschQueueAssumption DEF Links, Dests
  <2> QED BY <2>1, OpsBuilt DEF PlainOps
<1>6. PICK e : e = <<a, b, c>> /\ todo' = call \o e
  BY <1>2, <1>3, <1>5
<1>13. e \in Seq(Ops) /\ Len(e) = 3 /\ e[1] = a /\ e[2] = b /\ e[3] = c
  BY <1>6
<1>12. PICK k \in Nat : k = Len(call)
  BY <1>4, LenProperties
<1>7. /\ todo' \in Seq(Ops) /\ Len(todo') = k + 3 /\ DOMAIN todo' = 1 .. k + 3
      /\ \A i \in 1 .. k : todo'[i] \in PlainOps
      /\ todo'[k + 1] = a /\ todo'[k + 2] = b /\ todo'[k + 3] = c
  <2>1. /\ Len(call) \in Nat /\ call \o e \in Seq(Ops) /\ Len(call \o e) = Len(call) + 3
        /\ DOMAIN (call \o e) = 1 .. Len(call) + 3
        /\ \A i \in 1 .. Len(call) : (call \o e)[i] \in PlainOps
        /\ \A j \in 1 .. 3 : (call \o e)[Len(call) + j] = e[j]
    BY <1>4, <1>13, CallEnds
  <2>2. /\ todo' \in Seq(Ops) /\ Len(todo') = k + 3 /\ DOMAIN todo' = 1 .. k + 3
        /\ \A i \in 1 .. k : todo'[i] \in PlainOps
        /\ \A j \in 1 .. 3 : todo'[k + j] = e[j]
    BY <2>1, <1>6, <1>12
  <2> QED BY <2>2, <1>13
<1>8. \A i \in 1 .. k + 3 : /\ todo'[i].op \notin {"free", "get", "flush"}
                            /\ todo'[i].op = "join" => i = k + 3
  <2> SUFFICES ASSUME NEW i \in 1 .. k + 3
               PROVE  todo'[i].op \notin {"free", "get", "flush"} /\ (todo'[i].op = "join" => i = k + 3)
    OBVIOUS
  <2>1. i \in 1 .. k \/ i = k + 1 \/ i = k + 2 \/ i = k + 3
    OBVIOUS
  <2>2. a.op = "link" /\ b.op = "add" /\ c.op = "join"
    BY <1>5
  <2> QED BY <1>7, <2>1, <2>2 DEF PlainOps
<1>9. TodoOrder' /\ ~Coming("get")' /\ ~Coming("free")'
  BY <1>7, <1>8 DEF TodoOrder, Coming
<1>10. lock' = lock /\ assoc' = assoc /\ UNCHANGED <<frames, others, current, slot, parent>>
  BY DEF Associate
<1>11. lock' \in {"free", "wanted", "held"} /\ assoc' \in {"in", "leaving", "out"}
  BY <1>10 DEF Regular, TypeOK
<1> QED BY <1>7, <1>9, <1>10, <1>11, TodoStep
-----------------------------------------------------------------------------
(* The slot interrupt.                                                     *)

LEMMA SlotFacts ==
  ASSUME TypeOK
  PROVE  /\ slot.kind = "tx" => slot.pkt \in Packets /\ slot.to \in Dests
         /\ slot = NoSlot \/ slot = RxSlot \/ slot.kind = "tx"
         /\ NoSlot.kind # "tx" /\ RxSlot.kind # "tx" /\ RxSlot # NoSlot
BY DEF TypeOK, Slots, NoSlot, RxSlot, TxSlot

(* The next link is one of the schedule, and windows only shrink.          *)
LEMMA AdvanceFacts ==
  ASSUME Regular, NEW w \in [Dests -> 0 .. MaxWindow], Advance(w)
  PROVE  /\ window' \in [Dests -> 0 .. MaxWindow]
         /\ current' \in Timeslots \cup {None}
         /\ current' # None => links[current'] # None
<1>1. window' \in [Dests -> 0 .. MaxWindow]
  <2>1. \A n \in Dests : w[n] \in 0 .. MaxWindow /\ (w[n] > 0 => w[n] - 1 \in 0 .. MaxWindow)
    BY TschQueueAssumption
  <2>2. \A n \in Dests : (IF w[n] > 0 /\ Counting(n) THEN w[n] - 1 ELSE w[n]) \in 0 .. MaxWindow
    BY <2>1
  <2> QED BY <2>2 DEF Advance, Decremented
<1>2. current' = None \/ \E t \in Timeslots : links[t] # None /\ current' = t
  BY DEF Advance
<1> QED BY <1>1, <1>2

(* A slot begins, or is passed over.                                       *)
LEMMA SlotTxRegular ==
  ASSUME Regular, NEW n \in Dests, SlotTx(n)
  PROVE  /\ Regular' /\ slot.kind # "tx" /\ queue[n] # <<>> /\ slot' = TxSlot(Head(queue[n]), n)
         /\ assoc = "in" /\ UNCHANGED <<frames, todo, assoc>>
<1>1. TypeOK /\ TodoOrder
  BY DEF Regular
<1>2. /\ n \in Candidates /\ slot' = TxSlot(Head(queue[n]), n) /\ Len(ring) < RingCap
      /\ slot = NoSlot /\ assoc = "in"
      /\ queue' = queue /\ tries' = tries /\ pool' = pool /\ window' = window /\ ring' = ring
      /\ nbrs' = nbrs /\ count' = count /\ links' = links
      /\ current' = current /\ parent' = parent /\ assoc' = assoc /\ lock' = lock /\ todo' = todo
  BY DEF SlotTx, frames, others
<1>3. queue[n] # <<>>
  BY <1>2 DEF Candidates, Ready
<1>4. Head(queue[n]) \in Packets
  BY <1>1, <1>3, TypeFacts, HeadTaken
<1>5. slot' \in Slots
  BY <1>2, <1>4 DEF Slots
<1>6. TypeOK'
  BY <1>1, <1>2, <1>5 DEF TypeOK
<1>7. RingHasRoom' /\ CurrentInSchedule' /\ TodoOrder'
  BY <1>1, <1>2 DEF Regular, RingHasRoom, CurrentInSchedule, TodoOrder
<1> QED BY <1>1, <1>2, <1>3, <1>6, <1>7, SlotFacts DEF Regular, frames

LEMMA SlotRxRegular ==
  ASSUME Regular, SlotRx
  PROVE  Regular' /\ slot' = RxSlot /\ assoc = "in" /\ UNCHANGED <<frames, todo, assoc>>
<1>1. TypeOK /\ TodoOrder
  BY DEF Regular
<1>2. /\ slot' = RxSlot /\ assoc = "in"
      /\ queue' = queue /\ tries' = tries /\ pool' = pool /\ window' = window /\ ring' = ring
      /\ nbrs' = nbrs /\ count' = count /\ links' = links
      /\ current' = current /\ parent' = parent /\ assoc' = assoc /\ lock' = lock /\ todo' = todo
  BY DEF SlotRx, frames, others
<1>3. slot' \in Slots
  BY <1>2 DEF Slots
<1>4. TypeOK'
  BY <1>1, <1>2, <1>3 DEF TypeOK
<1>5. RingHasRoom' /\ CurrentInSchedule' /\ TodoOrder'
  BY <1>1, <1>2, SlotFacts DEF Regular, RingHasRoom, CurrentInSchedule, TodoOrder
<1> QED BY <1>2, <1>4, <1>5 DEF Regular, frames

LEMMA SlotSkipRegular ==
  ASSUME Regular, SlotSkip
  PROVE  Regular' /\ UNCHANGED <<queue, pool, ring, todo, slot, assoc>>
<1>1. TypeOK /\ TodoOrder /\ window \in [Dests -> 0 .. MaxWindow]
  BY DEF Regular, TypeOK
<1>2. /\ Advance(window) /\ slot' = slot
      /\ queue' = queue /\ tries' = tries /\ pool' = pool /\ ring' = ring
      /\ nbrs' = nbrs /\ count' = count /\ links' = links
      /\ parent' = parent /\ assoc' = assoc /\ lock' = lock /\ todo' = todo
  BY DEF SlotSkip, others
<1>3. /\ window' \in [Dests -> 0 .. MaxWindow] /\ current' \in Timeslots \cup {None}
      /\ current' # None => links[current'] # None
  BY <1>1, <1>2, AdvanceFacts
<1>4. TypeOK'
  BY <1>1, <1>2, <1>3 DEF TypeOK
<1>5. RingHasRoom' /\ CurrentInSchedule' /\ TodoOrder'
  BY <1>1, <1>2, <1>3 DEF Regular, RingHasRoom, CurrentInSchedule, TodoOrder
<1> QED BY <1>2, <1>4, <1>5 DEF Regular

(* What becomes of the frame sent.                                         *)
LEMMA OutcomeFacts ==
  ASSUME Regular, slot.kind = "tx", NEW ok \in BOOLEAN, Outcome(ok)
  PROVE  /\ queue' \in [Dests -> Seq(Packets)] /\ \A n \in Dests : Len(queue'[n]) <= QueueCap
         /\ tries' \in [Packets -> 0 .. Retries + 1]
         /\ ring' \in Seq(Sent) /\ (ring # <<>> => ring' # <<>>)
<1>1. TypeOK /\ slot.pkt \in Packets /\ slot.to \in Dests
  BY SlotFacts DEF Regular
<1>2. PICK p \in Packets, n \in Dests : p = slot.pkt /\ n = slot.to
  BY <1>1
<1>3. /\ queue \in [Dests -> Seq(Packets)] /\ tries \in [Packets -> 0 .. Retries + 1]
      /\ ring \in Seq(Sent) /\ \A m \in Dests : Len(queue[m]) <= QueueCap
  BY <1>1 DEF TypeOK, Regular
<1>4. tries' \in [Packets -> 0 .. Retries + 1]
  <2>1. PICK k \in 0 .. Retries + 1 : k = tries[p]
    BY <1>3
  <2>2. (IF k > Retries THEN k ELSE k + 1) \in 0 .. Retries + 1
    BY TschQueueAssumption
  <2>3. tries' = [tries EXCEPT ![p] = IF k > Retries THEN k ELSE k + 1]
    BY <1>2, <2>1 DEF Outcome
  <2> QED BY <1>3, <2>2, <2>3
<1>5. Rest \in Seq(Packets) /\ Len(Rest) <= QueueCap
  <2>1. PICK s \in Seq(Packets) : s = queue[n]
    BY <1>3
  <2>2. Rest = IF s = <<>> THEN <<>> ELSE Tail(s)
    BY <1>2, <2>1 DEF Rest
  <2>3. CASE s = <<>>
    BY <2>2, <2>3, TschQueueAssumption
  <2>4. CASE s # <<>>
    <3>1. Tail(s) \in Seq(Packets) /\ Len(Tail(s)) = Len(s) - 1 /\ Len(s) \in Nat /\ Len(s) <= QueueCap
      BY <1>3, <2>1, <2>4, HeadTaken, LenProperties
    <3> QED BY <2>2, <2>4, <3>1, TschQueueAssumption
  <2> QED BY <2>3, <2>4
<1>6. queue' \in [Dests -> Seq(Packets)] /\ \A m \in Dests : Len(queue'[m]) <= QueueCap
  <2>1. queue' = [queue EXCEPT ![n] = IF Over(ok) THEN Rest ELSE queue[n]]
    BY <1>2 DEF Outcome
  <2> QED BY <1>3, <1>5, <2>1
<1>7. ring' \in Seq(Sent) /\ (ring # <<>> => ring' # <<>>)
  <2>1. PICK e \in Sent : e = [pkt |-> slot.pkt, to |-> slot.to]
    BY <1>1 DEF Sent
  <2>2. ring' = IF Over(ok) THEN Append(ring, e) ELSE ring
    BY <2>1 DEF Outcome
  <2>3. Append(ring, e) \in Seq(Sent) /\ Append(ring, e) # <<>>
    <3>1. /\ Append(ring, e) \in Seq(Sent) /\ Len(Append(ring, e)) = Len(ring) + 1
          /\ Len(ring) \in Nat
      BY <1>3, Appended, LenProperties
    <3>2. Len(Append(ring, e)) # 0
      BY <3>1
    <3> QED BY <3>1, <3>2, EmptySeq
  <2> QED BY <1>3, <2>2, <2>3
<1> QED BY <1>4, <1>6, <1>7

LEMMA WindowsFacts ==
  ASSUME Regular, slot.kind = "tx", NEW ok \in BOOLEAN, NEW w \in Windows(ok)
  PROVE  w \in [Dests -> 0 .. MaxWindow]
<1>1. window \in [Dests -> 0 .. MaxWindow] /\ slot.to \in Dests
  BY SlotFacts DEF Regular, TypeOK
<1>2. 0 \in 0 .. MaxWindow /\ Drawn \subseteq 0 .. MaxWindow
  BY TschQueueAssumption DEF Drawn
<1>3. w = window \/ \E k \in 0 .. MaxWindow : w = [window EXCEPT ![slot.to] = k]
  BY <1>2 DEF Windows
<1> QED BY <1>1, <1>3

LEMMA SlotEndRegular ==
  ASSUME Regular, NEW ok \in BOOLEAN, SlotEnd(ok)
  PROVE  /\ Regular' /\ slot' = NoSlot /\ UNCHANGED <<pool, todo>>
         /\ (slot.kind = "tx" /\ Outcome(ok)) \/ UNCHANGED <<queue, ring>>
<1>1. TypeOK /\ TodoOrder
  BY DEF Regular
<1>2. /\ slot' = NoSlot /\ pool' = pool /\ nbrs' = nbrs /\ count' = count /\ links' = links
      /\ lock' = lock /\ todo' = todo /\ parent' = parent
  BY DEF SlotEnd, others
<1>3. /\ slot = RxSlot => queue' = queue /\ tries' = tries /\ ring' = ring
      /\ slot # RxSlot => slot.kind = "tx" /\ Outcome(ok)
  BY <1>1, SlotFacts DEF SlotEnd
<1>4. /\ queue' \in [Dests -> Seq(Packets)] /\ \A n \in Dests : Len(queue'[n]) <= QueueCap
      /\ tries' \in [Packets -> 0 .. Retries + 1]
      /\ ring' \in Seq(Sent) /\ (ring # <<>> => ring' # <<>>)
  <2>1. CASE slot = RxSlot
    BY <1>1, <1>3, <2>1 DEF Regular, TypeOK
  <2>2. CASE slot # RxSlot
    BY <1>3, <2>2, OutcomeFacts
  <2> QED BY <2>1, <2>2
<1>5. PICK w \in [Dests -> 0 .. MaxWindow] :
        \/ Advance(w) /\ assoc' = assoc
        \/ assoc = "in" /\ assoc' = "leaving" /\ window' = w /\ current' = current
  <2>1. PICK w \in (IF slot = RxSlot THEN {window} ELSE Windows(ok)) :
          \/ Advance(w) /\ assoc' = assoc
          \/ assoc = "in" /\ assoc' = "leaving" /\ window' = w /\ current' = current
    BY DEF SlotEnd
  <2>2. w \in [Dests -> 0 .. MaxWindow]
    <3>1. window \in [Dests -> 0 .. MaxWindow]
      BY <1>1 DEF TypeOK
    <3> QED BY <1>3, <3>1, WindowsFacts
  <2> QED BY <2>1, <2>2
<1>6. /\ window' \in [Dests -> 0 .. MaxWindow] /\ current' \in Timeslots \cup {None}
      /\ current' # None => links[current'] # None
      /\ assoc' \in {"in", "leaving", "out"} /\ (assoc = "out" => assoc' = "out")
  <2>1. CASE Advance(w) /\ assoc' = assoc
    BY <1>1, <2>1, AdvanceFacts DEF TypeOK
  <2>2. CASE assoc = "in" /\ assoc' = "leaving" /\ window' = w /\ current' = current
    BY <1>1, <2>2 DEF TypeOK, Regular, CurrentInSchedule
  <2> QED BY <1>5, <2>1, <2>2
<1>7. TypeOK'
  <2>1. slot' \in Slots
    BY <1>2 DEF Slots
  <2> QED BY <1>1, <1>2, <1>4, <1>6, <2>1 DEF TypeOK
<1>8. RingHasRoom' /\ CurrentInSchedule'
  BY <1>2, <1>6, SlotFacts, <1>1 DEF RingHasRoom, CurrentInSchedule
<1>9. TodoOrder'
  BY <1>1, <1>2, <1>4, <1>6 DEF TodoOrder
<1> QED BY <1>2, <1>3, <1>4, <1>7, <1>8, <1>9, <1>1, SlotFacts DEF Regular, SlotEnd

LEMMA RegularAtStart ==
  ASSUME Init PROVE Regular
<1>1. TypeOK
  <2>1. count \in [Dests -> 0 .. CountMod - 1] /\ window \in [Dests -> 0 .. MaxWindow]
    BY TschQueueAssumption DEF Init
  <2>2. tries \in [Packets -> 0 .. Retries + 1] /\ queue \in [Dests -> Seq(Packets)]
    BY TschQueueAssumption DEF Init
  <2>3. links \in [Timeslots -> Links \cup {None}] /\ current \in Timeslots \cup {None}
    BY TschQueueAssumption DEF Init, Links
  <2>4. slot \in Slots /\ lock \in {"free", "wanted", "held"} /\ todo \in Seq(Ops)
        /\ parent \in Unicast \cup {None} /\ assoc \in {"in", "leaving", "out"}
        /\ pool \subseteq Packets /\ ring \in Seq(Sent) /\ Bcast \in nbrs /\ nbrs \subseteq Dests
    BY DEF Init, Slots, Dests
  <2> QED BY <2>1, <2>2, <2>3, <2>4 DEF TypeOK
<1>2. \A n \in Dests : Len(queue[n]) <= QueueCap
  BY TschQueueAssumption DEF Init
<1>3. TodoOrder
  BY DEF Init, TodoOrder
<1>4. RingHasRoom
  BY <1>1, SlotFacts DEF Init, RingHasRoom
<1>5. CurrentInSchedule
  BY TschQueueAssumption DEF Init, CurrentInSchedule, Links
<1> QED BY <1>1, <1>2, <1>3, <1>4, <1>5 DEF Regular

LEMMA RegularKept ==
  ASSUME Regular, [Next]_vars PROVE Regular'
<1>1. CASE UNCHANGED vars
  <2>1. lock' = lock /\ todo' = todo /\ assoc' = assoc /\ ring' = ring
        /\ UNCHANGED <<frames, others, current, slot, parent>>
    BY <1>1 DEF vars, frames
  <2>2. todo' \in Seq(Ops) /\ TodoOrder' /\ assoc' \in {"in", "leaving", "out"}
        /\ lock' \in {"free", "wanted", "held"}
    BY <2>1 DEF Regular, TypeOK, TodoOrder
  <2> QED BY <2>1, <2>2, TodoStep
<1>2. CASE Operation
  <2> USE Regular
  <2>1. CASE WantLock \/ TakeLock
    BY <2>1, LockRegular
  <2>2. CASE Add
    BY <2>2, AddRegular
  <2>3. CASE Put
    BY <2>3, PutRegular
  <2>4. CASE CountLink
    BY <2>4, CountLinkRegular
  <2>5. CASE RemoveLink
    BY <2>5, RemoveLinkRegular
  <2>6. CASE AddLink
    BY <2>6, AddLinkRegular
  <2>7. CASE DropUnused
    BY <2>7, DropUnusedRegular
  <2>8. CASE Remove
    BY <2>8, RemoveRegular
  <2>9. CASE Free
    BY <2>9, FreeRegular
  <2>10. CASE Get
    BY <2>10, GetRegular
  <2>11. CASE Flush
    BY <2>11, FlushRegular
  <2>12. CASE Forget
    BY <2>12, ForgetRegular
  <2>13. CASE Join
    BY <2>13, JoinRegular
  <2> QED BY <1>2, <2>1, <2>2, <2>3, <2>4, <2>5, <2>6, <2>7, <2>8, <2>9, <2>10, <2>11, <2>12, <2>13
          DEF Operation
<1>3. CASE Call
  BY <1>3, CallRegular
<1>4. CASE Report
  BY <1>4, ReportRegular
<1>5. CASE EbLeave
  BY <1>5, EbLeaveRegular
<1>6. CASE Reset
  BY <1>6, ResetRegular
<1>7. ASSUME NEW n \in Unicast, Associate(n) PROVE Regular'
  BY <1>7, AssociateRegular
<1>8. ASSUME NEW n \in Dests, SlotTx(n) PROVE Regular'
  BY <1>8, SlotTxRegular
<1>9. CASE SlotRx
  BY <1>9, SlotRxRegular
<1>10. CASE SlotSkip
  BY <1>10, SlotSkipRegular
<1>11. ASSUME NEW ok \in BOOLEAN, SlotEnd(ok) PROVE Regular'
  BY <1>11, SlotEndRegular
<1> QED BY <1>1, <1>2, <1>3, <1>4, <1>5, <1>6, <1>7, <1>8, <1>9, <1>10, <1>11 DEF Next

THEOREM AlwaysRegular == Spec => []Regular
<1>1. Init => Regular
  BY RegularAtStart
<1>2. Regular /\ [Next]_vars => Regular'
  BY RegularKept
<1> QED BY <1>1, <1>2, PTL DEF Spec

(* Every variable keeps its type, for neighbours, timeslots and packets    *)
(* of any number: no index of a queue, of the ring or of the schedule is   *)
(* out of its bounds, and tx_links_count wraps only at its own width.      *)
THEOREM TypeCorrect == Spec => []TypeOK
<1>1. Regular => TypeOK
  BY DEF Regular
<1> QED BY <1>1, AlwaysRegular, PTL

(* The room tsch_tx_slot looks for when it begins is there when it ends,   *)
(* whatever the process context does to the ring in between.               *)
THEOREM RoomToReport == Spec => []RingHasRoom
<1>1. Regular => RingHasRoom
  BY DEF Regular
<1> QED BY <1>1, AlwaysRegular, PTL

(* current_link never points to a link that tsch_schedule_remove_link has  *)
(* given back to link_memb, for any schedule and any order of calls.       *)
THEOREM LinkKeptExists == Spec => []CurrentInSchedule
<1>1. Regular => CurrentInSchedule
  BY DEF Regular
<1> QED BY <1>1, AlwaysRegular, PTL
-----------------------------------------------------------------------------
(* What the steps do to the places of the packets.                         *)

LEMMA PutLast ==
  ASSUME NEW q \in [Dests -> Seq(Packets)], NEW n \in Dests, NEW p \in Packets, Apart(q),
         p \notin Queued(q), NEW t, t = [q EXCEPT ![n] = Append(q[n], p)]
  PROVE  Apart(t) /\ Queued(t) = Queued(q) \cup {p}
<1>1. PICK s \in Seq(Packets), l \in Nat : s = q[n] /\ l = Len(s)
  BY LenProperties
<1>2. PICK u : u = Append(s, p)
  OBVIOUS
<1>3. /\ DOMAIN s = 1 .. l /\ DOMAIN u = 1 .. l + 1 /\ u[l + 1] = p
      /\ \A i \in 1 .. l : u[i] = s[i]
  BY <1>1, <1>2, Appended, LenProperties
<1>4. /\ t[n] = u /\ \A m \in Dests : m # n => t[m] = q[m]
  BY <1>1, <1>2
<1>5. \A m \in Dests : \A i \in DOMAIN t[m] :
        \/ i \in DOMAIN q[m] /\ t[m][i] = q[m][i]
        \/ m = n /\ i = l + 1 /\ t[m][i] = p
  <2> SUFFICES ASSUME NEW m \in Dests, NEW i \in DOMAIN t[m]
               PROVE  \/ i \in DOMAIN q[m] /\ t[m][i] = q[m][i]
                      \/ m = n /\ i = l + 1 /\ t[m][i] = p
    OBVIOUS
  <2>1. CASE m = n
    BY <1>1, <1>3, <1>4, <2>1
  <2>2. CASE m # n
    BY <1>4, <2>2
  <2> QED BY <2>1, <2>2
<1>6. \A m \in Dests : \A i \in DOMAIN q[m] : i \in DOMAIN t[m] /\ t[m][i] = q[m][i]
  <2> SUFFICES ASSUME NEW m \in Dests, NEW i \in DOMAIN q[m]
               PROVE  i \in DOMAIN t[m] /\ t[m][i] = q[m][i]
    OBVIOUS
  <2>1. CASE m = n
    BY <1>1, <1>3, <1>4, <2>1
  <2>2. CASE m # n
    BY <1>4, <2>2
  <2> QED BY <2>1, <2>2
<1>7. \A m \in Dests : \A i \in DOMAIN q[m] : q[m][i] # p
  BY DEF Queued
<1>8. Apart(t)
  <2> SUFFICES ASSUME NEW m \in Dests, NEW k \in Dests, NEW i \in DOMAIN t[m], NEW j \in DOMAIN t[k],
                      t[m][i] = t[k][j]
               PROVE  m = k /\ i = j
    BY DEF Apart
  <2>1. CASE i \in DOMAIN q[m] /\ t[m][i] = q[m][i] /\ j \in DOMAIN q[k] /\ t[k][j] = q[k][j]
    BY <2>1 DEF Apart
  <2> QED BY <1>5, <1>7, <2>1
<1>9. Queued(t) = Queued(q) \cup {p}
  <2>1. l + 1 \in DOMAIN t[n] /\ t[n][l + 1] = p
    BY <1>3, <1>4
  <2>2. \A x \in Queued(t) : x \in Queued(q) \cup {p}
    BY <1>5 DEF Queued
  <2>3. \A x \in Queued(q) : x \in Queued(t)
    BY <1>6 DEF Queued
  <2>4. p \in Queued(t)
    BY <2>1 DEF Queued
  <2> QED BY <2>2, <2>3, <2>4
<1> QED BY <1>8, <1>9

LEMMA FrontTaken ==
  ASSUME NEW q \in [Dests -> Seq(Packets)], NEW n \in Dests, q[n] # <<>>, Apart(q),
         NEW t, t = [q EXCEPT ![n] = Tail(q[n])]
  PROVE  /\ Apart(t) /\ Queued(t) = Queued(q) \ {Head(q[n])} /\ Head(q[n]) \in Queued(q)
         /\ Head(q[n]) \in Packets
<1>1. PICK s, l, h, u : /\ s \in Seq(Packets) /\ l \in Nat
                        /\ s = q[n] /\ l = Len(s) /\ h = Head(s) /\ u = Tail(s)
  BY LenProperties
<1>2. /\ DOMAIN s = 1 .. l /\ DOMAIN u = 1 .. l - 1 /\ h = s[1] /\ 1 \in 1 .. l /\ h \in Packets
      /\ \A i \in 1 .. l - 1 : u[i] = s[i + 1]
  BY <1>1, HeadTaken, LenProperties
<1>3. t[n] = u /\ \A m \in Dests : m # n => t[m] = q[m]
  BY <1>1
<1>4. \A m \in Dests : \A i \in DOMAIN t[m] :
        \/ m # n /\ i \in DOMAIN q[m] /\ t[m][i] = q[m][i]
        \/ m = n /\ i \in Nat /\ i >= 1 /\ i + 1 \in DOMAIN q[m] /\ t[m][i] = q[m][i + 1]
  <2> SUFFICES ASSUME NEW m \in Dests, NEW i \in DOMAIN t[m]
               PROVE  \/ m # n /\ i \in DOMAIN q[m] /\ t[m][i] = q[m][i]
                      \/ m = n /\ i \in Nat /\ i >= 1 /\ i + 1 \in DOMAIN q[m] /\ t[m][i] = q[m][i + 1]
    OBVIOUS
  <2>1. CASE m = n
    <3>1. i \in 1 .. l - 1
      BY <1>2, <1>3, <2>1
    <3>2. i \in Nat /\ i >= 1 /\ i + 1 \in 1 .. l
      BY <1>1, <3>1
    <3> QED BY <1>1, <1>2, <1>3, <2>1, <3>1, <3>2
  <2>2. CASE m # n
    BY <1>3, <2>2
  <2> QED BY <2>1, <2>2
<1>5. \A m \in Dests : \A j \in DOMAIN q[m] :
        (m = n /\ j = 1) \/ \E i \in DOMAIN t[m] : t[m][i] = q[m][j]
  <2> SUFFICES ASSUME NEW m \in Dests, NEW j \in DOMAIN q[m], ~ (m = n /\ j = 1)
               PROVE  \E i \in DOMAIN t[m] : t[m][i] = q[m][j]
    OBVIOUS
  <2>1. CASE m = n
    <3>1. j \in 1 .. l /\ j # 1
      BY <1>1, <1>2, <2>1
    <3>2. j - 1 \in 1 .. l - 1 /\ j - 1 + 1 = j
      BY <1>1, <3>1
    <3> QED BY <1>1, <1>2, <1>3, <2>1, <3>2
  <2>2. CASE m # n
    BY <1>3, <2>2
  <2> QED BY <2>1, <2>2
<1>6. 1 \in DOMAIN q[n] /\ q[n][1] = h
  BY <1>1, <1>2
<1>7. \A m \in Dests : \A i \in DOMAIN t[m] : t[m][i] # h
  <2> SUFFICES ASSUME NEW m \in Dests, NEW i \in DOMAIN t[m], t[m][i] = h PROVE FALSE
    OBVIOUS
  <2>1. CASE m # n
    BY <1>4, <1>6, <2>1 DEF Apart
  <2>2. CASE m = n
    <3>1. i \in Nat /\ i >= 1 /\ i + 1 \in DOMAIN q[n] /\ q[n][i + 1] = h
      BY <1>4, <2>2
    <3>2. i + 1 = 1
      BY <1>6, <3>1 DEF Apart
    <3> QED BY <3>1, <3>2
  <2> QED BY <2>1, <2>2
<1>8. Apart(t)
  <2> SUFFICES ASSUME NEW m \in Dests, NEW k \in Dests, NEW i \in DOMAIN t[m], NEW j \in DOMAIN t[k],
                      t[m][i] = t[k][j]
               PROVE  m = k /\ i = j
    BY DEF Apart
  <2>1. CASE m # n \/ k # n
    BY <1>4, <2>1 DEF Apart
  <2>2. CASE m = n /\ k = n
    <3>1. /\ i \in Nat /\ j \in Nat /\ i + 1 \in DOMAIN q[n] /\ j + 1 \in DOMAIN q[n]
          /\ q[n][i + 1] = q[n][j + 1]
      BY <1>4, <2>2
    <3>2. i + 1 = j + 1
      BY <3>1 DEF Apart
    <3> QED BY <2>2, <3>1, <3>2
  <2> QED BY <2>1, <2>2
<1>9. Queued(t) = Queued(q) \ {h} /\ h \in Queued(q)
  <2>1. \A x \in Queued(t) : x \in Queued(q) /\ x # h
    BY <1>4, <1>7 DEF Queued
  <2>2. \A x \in Queued(q) : x # h => x \in Queued(t)
    <3> SUFFICES ASSUME NEW x \in Queued(q), x # h PROVE x \in Queued(t)
      OBVIOUS
    <3>1. PICK m \in Dests : \E j \in DOMAIN q[m] : q[m][j] = x
      BY DEF Queued
    <3>2. PICK j \in DOMAIN q[m] : q[m][j] = x
      BY <3>1
    <3>3. \E i \in DOMAIN t[m] : t[m][i] = x
      BY <1>5, <1>6, <3>2
    <3> QED BY <3>3 DEF Queued
  <2>3. h \in Queued(q)
    BY <1>2, <1>6 DEF Queued
  <2> QED BY <2>1, <2>2, <2>3
<1> QED BY <1>1, <1>2, <1>8, <1>9

(* The places of the ring that hold a packet, by what is left to do.       *)
LEMMA RingPlaces ==
  /\ Coming("get") /\ ~Coming("free") => InRing = DOMAIN ring \ {1}
  /\ ~ (Coming("get") /\ ~Coming("free")) => InRing = DOMAIN ring
BY DEF InRing, FreedInRing

LEMMA PlacedNext ==
  Placed' <=> /\ Apart(queue') /\ RingApart(ring', InRing')
              /\ Partition(queue', ToReport(ring', InRing'), pool')
BY DEF Placed, Apart, RingApart, Partition, ToReport, Queued

(* Whether the first of the ring is freed stays, and so do the packets.    *)
LEMMA StaysPlaced ==
  ASSUME Placed, UNCHANGED <<queue, pool, ring>>,
         (Coming("get") /\ ~Coming("free"))' <=> (Coming("get") /\ ~Coming("free"))
  PROVE  Placed'
<1>1. queue' = queue /\ pool' = pool /\ ring' = ring
  OBVIOUS
<1>2. InRing' = InRing
  BY <1>1 DEF InRing, FreedInRing
<1> QED BY <1>1, <1>2, PlacedNext DEF Placed

LEMMA StaysPlacedWithCalls ==
  ASSUME Placed, UNCHANGED <<queue, pool, ring>>, SameComing
  PROVE  Placed'
BY StaysPlaced DEF SameComing

(* The frame of the slot under way stays where it is.                      *)
LEMMA StaysInSlot ==
  ASSUME SlotFrame, queue' = queue, slot' = slot, assoc' # "in" => assoc # "in" \/ slot = NoSlot
  PROVE  SlotFrame'
BY DEF SlotFrame

LEMMA PutKept ==
  ASSUME IInv, Put PROVE SlotFrame' /\ Placed'
<1>1. Regular /\ TypeOK /\ todo # <<>> /\ Head(todo).op = "put" /\ SameComing
  BY PutRegular DEF IInv, Regular, Put, Begin
<1>2. PICK n \in Dests : n = Head(todo).n
  BY <1>1, TypeFacts, HeadTaken, OpFacts
<1>3. /\ ring' = ring /\ slot' = slot /\ assoc' = assoc
      /\ \/ pool' = pool /\ queue' = queue
         \/ \E p \in pool : /\ pool' = pool \ {p}
                            /\ queue' = [queue EXCEPT ![n] = Append(queue[n], p)]
  BY <1>2 DEF Put, others
<1>4. CASE pool' = pool /\ queue' = queue
  BY <1>1, <1>3, <1>4, StaysPlacedWithCalls, StaysInSlot DEF IInv
<1>5. ASSUME NEW p \in pool, pool' = pool \ {p}, queue' = [queue EXCEPT ![n] = Append(queue[n], p)]
      PROVE  SlotFrame' /\ Placed'
  <2>1. queue \in [Dests -> Seq(Packets)] /\ p \in Packets
    BY <1>1 DEF TypeOK
  <2>2. PICK q \in [Dests -> Seq(Packets)] : q = queue
    BY <2>1
  <2>11. PICK t : t = queue'
    OBVIOUS
  <2>3. Apart(q) /\ p \notin Queued(q) /\ t = [q EXCEPT ![n] = Append(q[n], p)]
    BY <1>5, <2>2, <2>11 DEF IInv, Placed, Partition
  <2>4. Apart(t) /\ Queued(t) = Queued(q) \cup {p}
    BY <2>1, <2>3, PutLast
  <2>5. PICK T : T = ToReport(ring, InRing)
    OBVIOUS
  <2>6. Partition(q, T, pool) /\ RingApart(ring, InRing)
    BY <2>2, <2>5 DEF IInv, Placed
  <2>7. Partition(t, T, pool \ {p})
    BY <2>4, <2>6 DEF Partition
  <2>8. InRing' = InRing
    BY <1>1, <1>3 DEF InRing, FreedInRing, SameComing
  <2>9. Placed'
    <3>1. ToReport(ring', InRing') = T /\ RingApart(ring', InRing')
      BY <1>3, <2>5, <2>6, <2>8
    <3>2. Apart(queue') /\ Partition(queue', T, pool')
      BY <1>5, <2>4, <2>7, <2>11
    <3> QED BY <3>1, <3>2, PlacedNext
  <2>10. SlotFrame'
    <3>1. ASSUME NEW m \in Dests, queue[m] # <<>>
          PROVE  queue'[m] # <<>> /\ Head(queue'[m]) = Head(queue[m])
      <4>1. CASE m # n
        BY <1>5, <2>1, <3>1, <4>1
      <4>2. CASE m = n
        <5>1. PICK s, u : s \in Seq(Packets) /\ s = queue[n] /\ u = Append(s, p)
          BY <2>1
        <5>2. queue'[m] = u /\ s # <<>>
          BY <1>5, <2>1, <3>1, <4>2, <5>1
        <5>3. u # <<>> /\ u[1] = s[1] /\ Head(s) = s[1] /\ Head(u) = u[1]
          BY <2>1, <5>1, <5>2, Appended, HeadTaken, LenProperties, EmptySeq
        <5> QED BY <4>2, <5>1, <5>2, <5>3
      <4> QED BY <4>1, <4>2
    <3> QED BY <1>1, <1>3, <3>1, SlotFacts DEF IInv, SlotFrame
  <2> QED BY <2>9, <2>10
<1> QED BY <1>3, <1>4, <1>5

LEMMA FlushKept ==
  ASSUME IInv, Flush PROVE SlotFrame' /\ Placed'
<1>1. Regular /\ TypeOK /\ TodoOrder /\ todo # <<>> /\ Head(todo).op = "flush" /\ SameComing
  BY FlushRegular DEF IInv, Regular, Flush, Begin
<1>2. /\ ring' = ring /\ slot' = slot /\ assoc' = assoc
      /\ \/ pool' = pool /\ queue' = queue
         \/ \E n \in nbrs : /\ queue[n] # <<>> /\ pool' = pool \cup {Head(queue[n])}
                            /\ queue' = [queue EXCEPT ![n] = Tail(queue[n])]
  BY DEF Flush, others
<1>3. SlotFrame'
  <2>1. assoc = "out"
    <3>1. 1 \in DOMAIN todo /\ todo[1].op = "flush"
      BY <1>1, TypeFacts, HeadTaken
    <3> QED BY <1>1, <3>1 DEF TodoOrder
  <2> QED BY <1>1, <1>2, <2>1, SlotFacts DEF IInv, SlotFrame
<1>4. CASE pool' = pool /\ queue' = queue
  BY <1>1, <1>2, <1>3, <1>4, StaysPlacedWithCalls DEF IInv
<1>5. ASSUME NEW n \in nbrs, queue[n] # <<>>, pool' = pool \cup {Head(queue[n])},
             queue' = [queue EXCEPT ![n] = Tail(queue[n])]
      PROVE  Placed'
  <2>1. queue \in [Dests -> Seq(Packets)] /\ n \in Dests
    BY <1>1 DEF TypeOK
  <2>2. PICK q, t, h : q \in [Dests -> Seq(Packets)] /\ q = queue /\ t = queue' /\ h = Head(q[n])
    BY <2>1
  <2>3. Apart(q) /\ q[n] # <<>> /\ t = [q EXCEPT ![n] = Tail(q[n])] /\ pool' = pool \cup {h}
    BY <1>5, <2>2 DEF IInv, Placed
  <2>4. Apart(t) /\ Queued(t) = Queued(q) \ {h} /\ h \in Queued(q)
    BY <2>1, <2>2, <2>3, FrontTaken
  <2>5. PICK T : T = ToReport(ring, InRing)
    OBVIOUS
  <2>6. Partition(q, T, pool) /\ RingApart(ring, InRing)
    BY <2>2, <2>5 DEF IInv, Placed
  <2>7. Partition(t, T, pool \cup {h})
    BY <2>4, <2>6 DEF Partition
  <2>8. InRing' = InRing
    BY <1>1, <1>2 DEF InRing, FreedInRing, SameComing
  <2>9. ToReport(ring', InRing') = T /\ RingApart(ring', InRing')
    BY <1>2, <2>5, <2>6, <2>8
  <2>10. Apart(queue') /\ Partition(queue', T, pool')
    BY <2>2, <2>3, <2>4, <2>7
  <2> QED BY <2>9, <2>10, PlacedNext
<1> QED BY <1>2, <1>3, <1>4, <1>5

LEMMA FreeKept ==
  ASSUME IInv, Free PROVE SlotFrame' /\ Placed'
<1>1. /\ TypeOK /\ ring # <<>> /\ Coming("free") /\ Coming("get")' /\ ~Coming("free")'
      /\ queue' = queue /\ ring' = ring /\ slot' = slot /\ assoc' = assoc
      /\ pool' = pool \cup {Head(ring).pkt}
  BY FreeFacts DEF IInv, Regular, Free, others
<1>2. PICK r \in Seq(Sent), l \in Nat, h \in Packets :
        /\ r = ring /\ DOMAIN r = 1 .. l /\ 1 \in 1 .. l /\ h = r[1].pkt /\ pool' = pool \cup {h}
  <2>1. /\ ring \in Seq(Sent) /\ Len(ring) \in Nat /\ DOMAIN ring = 1 .. Len(ring)
        /\ Head(ring) = ring[1] /\ 1 \in DOMAIN ring
        /\ ring[1].pkt \in Packets
    BY <1>1, TypeFacts, HeadTaken
  <2> QED BY <1>1, <2>1
<1>3. InRing = 1 .. l
  BY <1>1, <1>2 DEF InRing, FreedInRing
<1>4. InRing' = 1 .. l \ {1}
  BY <1>1, <1>2 DEF InRing, FreedInRing
<1>5. RingApart(r, 1 .. l) /\ Apart(queue) /\ Partition(queue, ToReport(r, 1 .. l), pool)
  BY <1>2, <1>3 DEF IInv, Placed
<1>6. RingApart(r, 1 .. l \ {1})
  BY <1>5 DEF RingApart
<1>7. ToReport(r, 1 .. l \ {1}) = ToReport(r, 1 .. l) \ {h} /\ h \in ToReport(r, 1 .. l)
  BY <1>2, <1>5 DEF ToReport, RingApart
<1>8. Partition(queue, ToReport(r, 1 .. l \ {1}), pool \cup {h})
  BY <1>5, <1>7 DEF Partition
<1>9. Placed'
  BY <1>1, <1>2, <1>4, <1>5, <1>6, <1>8, PlacedNext
<1> QED BY <1>1, <1>9, StaysInSlot DEF IInv

LEMMA GetKept ==
  ASSUME IInv, Get PROVE SlotFrame' /\ Placed'
<1>1. /\ TypeOK /\ ring # <<>> /\ Coming("get") /\ ~Coming("free") /\ ~Coming("get")'
      /\ queue' = queue /\ pool' = pool /\ slot' = slot /\ assoc' = assoc /\ ring' = Tail(ring)
  BY GetFacts DEF IInv, Regular, Get, others
<1>2. PICK r \in Seq(Sent), l \in Nat : r = ring /\ l = Len(ring)
  BY <1>1, TypeFacts
<1>3. PICK u : u = Tail(r)
  OBVIOUS
<1>4. /\ DOMAIN r = 1 .. l /\ DOMAIN u = 1 .. l - 1
      /\ \A i \in 1 .. l - 1 : u[i] = r[i + 1]
  BY <1>1, <1>2, <1>3, HeadTaken, LenProperties
<1>5. InRing = 1 .. l \ {1} /\ ring' = u
  BY <1>1, <1>2, <1>3, <1>4 DEF InRing, FreedInRing
<1>6. InRing' = 1 .. l - 1
  BY <1>1, <1>4, <1>5 DEF InRing, FreedInRing
<1>7. RingApart(r, 1 .. l \ {1}) /\ Apart(queue) /\ Partition(queue, ToReport(r, 1 .. l \ {1}), pool)
  BY <1>2, <1>5 DEF IInv, Placed
<1>8. \A i \in 1 .. l - 1 : i + 1 \in 1 .. l \ {1}
  OBVIOUS
<1>9. RingApart(u, 1 .. l - 1)
  <2> SUFFICES ASSUME NEW i \in 1 .. l - 1, NEW j \in 1 .. l - 1, u[i].pkt = u[j].pkt
               PROVE  i = j
    BY DEF RingApart
  <2>1. r[i + 1].pkt = r[j + 1].pkt
    BY <1>4
  <2>2. i + 1 = j + 1
    BY <1>7, <1>8, <2>1 DEF RingApart
  <2> QED BY <2>2
<1>10. ToReport(u, 1 .. l - 1) = ToReport(r, 1 .. l \ {1})
  <2>1. \A x \in ToReport(u, 1 .. l - 1) : x \in ToReport(r, 1 .. l \ {1})
    BY <1>4, <1>8 DEF ToReport
  <2>2. ASSUME NEW x \in ToReport(r, 1 .. l \ {1}) PROVE x \in ToReport(u, 1 .. l - 1)
    <3>1. PICK j \in 1 .. l \ {1} : r[j].pkt = x
      BY DEF ToReport
    <3>2. j - 1 \in 1 .. l - 1 /\ j - 1 + 1 = j
      OBVIOUS
    <3>3. u[j - 1].pkt = x
      BY <1>4, <3>1, <3>2
    <3> QED BY <3>2, <3>3 DEF ToReport
  <2> QED BY <2>1, <2>2
<1>11. Placed'
  BY <1>1, <1>5, <1>6, <1>7, <1>9, <1>10, PlacedNext
<1> QED BY <1>1, <1>11, StaysInSlot DEF IInv

(* The frame transmitted for the last time goes from its queue to the end  *)
(* of the ring.                                                            *)
LEMMA SlotEndKept ==
  ASSUME IInv, NEW ok \in BOOLEAN, SlotEnd(ok) PROVE SlotFrame' /\ Placed'
<1>1. /\ Regular /\ TypeOK /\ TodoOrder /\ slot' = NoSlot /\ pool' = pool /\ todo' = todo
      /\ (slot.kind = "tx" /\ Outcome(ok)) \/ (queue' = queue /\ ring' = ring)
  BY SlotEndRegular DEF IInv, Regular
<1>2. SlotFrame'
  BY <1>1, SlotFacts DEF SlotFrame, NoSlot
<1>3. SameComing
  BY <1>1 DEF SameComing, Coming
<1>4. CASE queue' = queue /\ ring' = ring
  BY <1>1, <1>2, <1>3, <1>4, StaysPlacedWithCalls DEF IInv
<1>5. CASE slot.kind = "tx" /\ Outcome(ok)
  <2>1. queue \in [Dests -> Seq(Packets)] /\ ring \in Seq(Sent) /\ slot.to \in Dests
    BY <1>1, <1>5, SlotFacts DEF TypeOK
  <2>2. PICK q \in [Dests -> Seq(Packets)], r \in Seq(Sent), n \in Dests, l \in Nat :
          q = queue /\ r = ring /\ n = slot.to /\ l = Len(r)
    BY <2>1, LenProperties
  <2>3. q[n] # <<>> /\ slot.pkt = Head(q[n]) /\ Apart(q)
    BY <1>5, <2>2 DEF IInv, SlotFrame, Placed
  <2>4. PICK t, h : t = [q EXCEPT ![n] = Tail(q[n])] /\ h = Head(q[n])
    OBVIOUS
  <2>5. Apart(t) /\ Queued(t) = Queued(q) \ {h} /\ h \in Queued(q) /\ h \in Packets
    BY <2>3, <2>4, FrontTaken
  <2>6. CASE ~Over(ok)
    <3>1. queue' = queue /\ ring' = ring
      BY <1>5, <2>1, <2>6 DEF Outcome
    <3> QED BY <1>4, <3>1
  <2>7. CASE Over(ok)
    <3>1. PICK e \in Sent : e = [pkt |-> h, to |-> n]
      BY <2>5 DEF Sent
    <3>2. PICK u : u = Append(r, e)
      OBVIOUS
    <3>3. queue' = t /\ ring' = u
      BY <1>5, <2>2, <2>3, <2>4, <2>7, <3>1, <3>2 DEF Outcome, Rest
    <3>4. /\ DOMAIN r = 1 .. l /\ DOMAIN u = 1 .. l + 1 /\ u[l + 1] = e
          /\ \A i \in 1 .. l : u[i] = r[i]
      BY <2>2, <3>2, Appended, LenProperties
    <3>5. PICK R, T : R = InRing /\ T = ToReport(r, R)
      OBVIOUS
    <3>6. R \subseteq 1 .. l
      BY <2>2, <3>4, <3>5 DEF InRing
    <3>7. InRing' = R \cup {l + 1}
      <4>1. Coming("get") => l # 0
        <5>1. Coming("get") => ring # <<>>
          BY <1>1 DEF TodoOrder, Coming
        <5> QED BY <2>1, <2>2, <5>1, EmptySeq
      <4>2. DOMAIN ring = 1 .. l /\ DOMAIN ring' = 1 .. l + 1
        BY <2>2, <3>3, <3>4
      <4>3. CASE Coming("get") /\ ~Coming("free")
        <5>1. Coming("get")' /\ ~Coming("free")'
          BY <1>3, <4>3 DEF SameComing
        <5>2. InRing = 1 .. l \ {1} /\ InRing' = 1 .. l + 1 \ {1}
          BY <4>2, <4>3, <5>1 DEF InRing, FreedInRing
        <5>3. l + 1 # 1
          BY <4>1, <4>3
        <5> QED BY <3>5, <5>2, <5>3
      <4>4. CASE ~ (Coming("get") /\ ~Coming("free"))
        <5>1. ~ (Coming("get")' /\ ~Coming("free")')
          BY <1>3, <4>4 DEF SameComing
        <5>2. InRing = 1 .. l /\ InRing' = 1 .. l + 1
          BY <4>2, <4>4, <5>1 DEF InRing, FreedInRing
        <5> QED BY <3>5, <5>2
      <4> QED BY <4>3, <4>4
    <3>8. RingApart(r, R) /\ Partition(q, T, pool)
      BY <2>2, <3>5 DEF IInv, Placed
    <3>9. h \notin T
      BY <2>5, <3>8 DEF Partition
    <3>10. \A i \in R : u[i] = r[i] /\ r[i].pkt # h
      BY <2>5, <3>4, <3>5, <3>6, <3>9 DEF ToReport
    <3>11. u[l + 1].pkt = h
      BY <3>1, <3>4
    <3>12. RingApart(u, R \cup {l + 1})
      BY <3>8, <3>10, <3>11 DEF RingApart
    <3>13. ToReport(u, R \cup {l + 1}) = T \cup {h}
      BY <2>5, <3>5, <3>10, <3>11 DEF ToReport
    <3>14. Partition(t, T \cup {h}, pool)
      BY <2>5, <3>8 DEF Partition
    <3>15. Placed'
      BY <1>1, <2>5, <3>3, <3>7, <3>12, <3>13, <3>14, PlacedNext
    <3> QED BY <1>2, <3>15
  <2> QED BY <2>6, <2>7
<1> QED BY <1>1, <1>4, <1>5
-----------------------------------------------------------------------------
(* A beacon that makes the node leave during a slot to send (MidSlot) is   *)
(* what the rest is not proved for: the slot then ends after its queue was *)
(* flushed.                                                                *)

LEMMA PlacedAtStart ==
  ASSUME Init PROVE IInv
<1>1. SlotFrame
  BY DEF Init, SlotFrame, NoSlot
<1>2. Queued(queue) = {}
  BY DEF Init, Queued
<1>3. InRing = {} /\ Apart(queue)
  BY DEF Init, InRing, Apart
<1>4. ToReport(ring, InRing) = {} /\ RingApart(ring, InRing)
  BY <1>3 DEF ToReport, RingApart
<1>5. pool = Packets
  BY DEF Init
<1> QED BY <1>1, <1>2, <1>3, <1>4, <1>5, RegularAtStart DEF IInv, Placed, Partition

(* The steps that leave queues, ring and pool alone.                       *)
LEMMA OthersKept ==
  ASSUME IInv,
         \/ UNCHANGED vars \/ WantLock \/ TakeLock \/ Add \/ CountLink \/ RemoveLink \/ AddLink
         \/ DropUnused \/ Remove \/ Forget \/ SlotSkip
  PROVE  SlotFrame' /\ Placed'
<1>1. Regular /\ SlotFrame /\ Placed
  BY DEF IInv
<1>2. SUFFICES SameComing /\ UNCHANGED <<queue, pool, ring, slot, assoc>>
  BY <1>1, StaysPlacedWithCalls, StaysInSlot
<1>3. CASE UNCHANGED vars
  BY <1>3 DEF vars, frames, SameComing, Coming
<1>4. CASE WantLock \/ TakeLock
  BY <1>1, <1>4, LockRegular DEF frames
<1>5. CASE Add
  BY <1>1, <1>5, AddRegular DEF Add
<1>6. CASE CountLink
  BY <1>1, <1>6, CountLinkRegular DEF CountLink, frames
<1>7. CASE RemoveLink
  BY <1>1, <1>7, RemoveLinkRegular DEF RemoveLink, frames
<1>8. CASE AddLink
  BY <1>1, <1>8, AddLinkRegular DEF AddLink, frames
<1>9. CASE DropUnused
  BY <1>1, <1>9, DropUnusedRegular DEF DropUnused, frames
<1>10. CASE Remove
  BY <1>1, <1>10, RemoveRegular DEF Remove, frames
<1>11. CASE Forget
  BY <1>1, <1>11, ForgetRegular DEF Forget, frames
<1>12. CASE SlotSkip
  BY <1>1, <1>12, SlotSkipRegular DEF SameComing, Coming
<1> QED BY <1>3, <1>4, <1>5, <1>6, <1>7, <1>8, <1>9, <1>10, <1>11, <1>12

(* The calls that begin or end.                                            *)
LEMMA CallsKept ==
  ASSUME ~MidSlot, IInv,
         \/ Call \/ Report \/ EbLeave \/ Reset \/ Join
         \/ \E n \in Unicast : Associate(n)
  PROVE  SlotFrame' /\ Placed'
<1>1. Regular /\ SlotFrame /\ Placed
  BY DEF IInv
<1>2. /\ UNCHANGED <<queue, pool, ring, slot>>
      /\ assoc' # "in" => assoc # "in" \/ slot = NoSlot
  BY DEF Call, Report, EbLeave, Reset, Join, Associate, frames
<1>3. ~ (Coming("get") /\ ~Coming("free")) /\ ~ (Coming("get") /\ ~Coming("free"))'
  <2>1. CASE Join
    BY <1>1, <2>1, JoinRegular, NothingLeftToDo
  <2>2. CASE ~Join
    <3>1. todo = <<>>
      BY <2>2 DEF Call, Report, EbLeave, Reset, Associate
    <3>2. ~Coming("get") /\ ~Coming("free")
      BY <3>1, NoneComing
    <3>3. ~ (Coming("get")' /\ ~Coming("free")')
      <4>1. CASE EbLeave
        BY <3>1, <4>1, NothingLeftToDo DEF EbLeave
      <4> QED BY <1>1, <2>2, <4>1, CallRegular, ReportRegular, ResetRegular, AssociateRegular
    <3> QED BY <3>2, <3>3
  <2> QED BY <2>1, <2>2
<1> QED BY <1>1, <1>2, <1>3, StaysPlaced, StaysInSlot

LEMMA PlacedKept ==
  ASSUME ~MidSlot, IInv, [Next]_vars PROVE IInv'
<1>1. Regular'
  BY RegularKept DEF IInv
<1>2. SUFFICES SlotFrame' /\ Placed'
  BY <1>1 DEF IInv
<1>3. CASE \/ UNCHANGED vars \/ WantLock \/ TakeLock \/ Add \/ CountLink \/ RemoveLink \/ AddLink
           \/ DropUnused \/ Remove \/ Forget \/ SlotSkip
  BY <1>3, OthersKept
<1>4. CASE \/ Call \/ Report \/ EbLeave \/ Reset \/ Join
           \/ \E n \in Unicast : Associate(n)
  BY <1>4, CallsKept
<1>5. CASE Put
  BY <1>5, PutKept
<1>6. CASE Flush
  BY <1>6, FlushKept
<1>7. CASE Free
  BY <1>7, FreeKept
<1>8. CASE Get
  BY <1>8, GetKept
<1>9. ASSUME NEW ok \in BOOLEAN, SlotEnd(ok) PROVE SlotFrame' /\ Placed'
  BY <1>9, SlotEndKept
<1>10. ASSUME NEW n \in Dests, SlotTx(n) PROVE SlotFrame' /\ Placed'
  <2>1. /\ queue[n] # <<>> /\ slot' = TxSlot(Head(queue[n]), n) /\ assoc = "in"
        /\ UNCHANGED <<queue, pool, ring, todo, assoc>>
    BY <1>10, SlotTxRegular DEF IInv, frames
  <2>2. SlotFrame'
    BY <2>1 DEF SlotFrame, TxSlot
  <2>3. SameComing
    BY <2>1 DEF SameComing, Coming
  <2> QED BY <2>1, <2>2, <2>3, StaysPlacedWithCalls DEF IInv
<1>11. CASE SlotRx
  <2>1. slot' = RxSlot /\ assoc = "in" /\ UNCHANGED <<queue, pool, ring, todo, assoc>>
    BY <1>11, SlotRxRegular DEF IInv, frames
  <2>2. SlotFrame'
    BY <2>1 DEF SlotFrame, RxSlot, NoSlot
  <2>3. SameComing
    BY <2>1 DEF SameComing, Coming
  <2> QED BY <2>1, <2>2, <2>3, StaysPlacedWithCalls DEF IInv
<1> QED BY <1>3, <1>4, <1>5, <1>6, <1>7, <1>8, <1>9, <1>10, <1>11 DEF Next, Operation

(* A packet that is in one place is counted once.                          *)
LEMMA CountedOnce ==
  ASSUME IInv PROVE Accounted
<1> SUFFICES ASSUME NEW p \in Packets
             PROVE  LET queued == {x \in Dests \X (1..QueueCap) :
                                     x[2] \in DOMAIN queue[x[1]] /\ queue[x[1]][x[2]] = p}
                        inRing == {i \in DOMAIN ring : ring[i].pkt = p /\ ~FreedInRing(i)}
                    IN Cardinality(queued) + Cardinality(inRing) + (IF p \in pool THEN 1 ELSE 0) = 1
  BY DEF Accounted
<1> DEFINE queued == {x \in Dests \X (1..QueueCap) :
                        x[2] \in DOMAIN queue[x[1]] /\ queue[x[1]][x[2]] = p}
           inRing == {i \in DOMAIN ring : ring[i].pkt = p /\ ~FreedInRing(i)}
<1>1. TypeOK /\ Placed /\ \A n \in Dests : Len(queue[n]) <= QueueCap
  BY DEF IInv, Regular
<1>2. PICK T : T = ToReport(ring, InRing) /\ Partition(queue, T, pool)
  BY <1>1 DEF Placed
<1>3. p \notin Queued(queue) => queued = {}
  BY DEF Queued
<1>4. p \in Queued(queue) => \E x : queued = {x}
  <2> SUFFICES ASSUME p \in Queued(queue) PROVE \E x : queued = {x}
    OBVIOUS
  <2>1. PICK n \in Dests : \E i \in DOMAIN queue[n] : queue[n][i] = p
    BY DEF Queued
  <2>2. PICK i \in DOMAIN queue[n] : queue[n][i] = p
    BY <2>1
  <2>3. i \in 1 .. QueueCap
    <3>1. DOMAIN queue[n] = 1 .. Len(queue[n]) /\ Len(queue[n]) \in Nat /\ Len(queue[n]) <= QueueCap
      BY <1>1, TypeFacts
    <3> QED BY <3>1, TschQueueAssumption
  <2>4. <<n, i>> \in queued
    BY <2>2, <2>3
  <2>5. ASSUME NEW x \in queued PROVE x = <<n, i>>
    <3>1. x[1] \in Dests /\ x[2] \in DOMAIN queue[x[1]] /\ queue[x[1]][x[2]] = p /\ x = <<x[1], x[2]>>
      OBVIOUS
    <3>2. x[1] = n /\ x[2] = i
      BY <1>1, <2>2, <3>1 DEF Placed, Apart
    <3> QED BY <3>1, <3>2
  <2> QED BY <2>4, <2>5
<1>5. p \notin T => inRing = {}
  BY <1>2 DEF ToReport, InRing
<1>6. p \in T => \E x : inRing = {x}
  <2> SUFFICES ASSUME p \in T PROVE \E x : inRing = {x}
    OBVIOUS
  <2>1. PICK i \in InRing : ring[i].pkt = p
    BY <1>2 DEF ToReport
  <2>2. i \in inRing /\ \A j \in inRing : j \in InRing /\ ring[j].pkt = p
    BY <2>1 DEF InRing
  <2>3. \A j \in inRing : j = i
    BY <1>1, <2>1, <2>2 DEF Placed, RingApart
  <2> QED BY <2>2, <2>3
<1> HIDE DEF queued, inRing
<1>7. Cardinality(queued) = IF p \in Queued(queue) THEN 1 ELSE 0
  BY <1>3, <1>4, FS_EmptySet, FS_Singleton
<1>8. Cardinality(inRing) = IF p \in T THEN 1 ELSE 0
  BY <1>5, <1>6, FS_EmptySet, FS_Singleton
<1>9. Cardinality(queued) + Cardinality(inRing) + (IF p \in pool THEN 1 ELSE 0) = 1
  <2>1. \/ p \in Queued(queue) /\ p \notin T /\ p \notin pool
        \/ p \notin Queued(queue) /\ p \in T /\ p \notin pool
        \/ p \notin Queued(queue) /\ p \notin T /\ p \in pool
    BY <1>2 DEF Partition
  <2> QED BY <1>7, <1>8, <2>1
<1> QED BY <1>9 DEF queued, inRing

THEOREM Invariant ==
  ASSUME ~MidSlot PROVE Spec => []IInv
<1>1. Init => IInv
  BY PlacedAtStart
<1>2. IInv /\ [Next]_vars => IInv'
  BY PlacedKept
<1> QED BY <1>1, <1>2, PTL DEF Spec

(* No packet is lost to packet_memb and none is freed twice or while a     *)
(* queue or dequeued_ringbuf still points to it, for any number of         *)
(* packets, neighbours and calls, in any interleaving of the slots with    *)
(* the process context, as long as no beacon makes the node leave during a *)
(* slot.                                                                   *)
THEOREM EachInOnePlace ==
  ASSUME ~MidSlot PROVE Spec => []Accounted
<1>1. IInv => Accounted
  BY CountedOnce
<1> QED BY <1>1, Invariant, PTL
-----------------------------------------------------------------------------
(* The packets to report for one destination, entry by entry of the ring.  *)
Steps(f, n, s) ==
  /\ f \in [0 .. Len(s) -> Seq(Packets)]
  /\ f[0] = <<>> /\ f[Len(s)] = Reports(n, s)
  /\ \A i \in 1 .. Len(s) : f[i] = IF s[i].to = n THEN Append(f[i - 1], s[i].pkt) ELSE f[i - 1]

LEMMA ReportsSteps ==
  ASSUME NEW n, NEW s \in Seq(Sent)
  PROVE  \E f : Steps(f, n, s)
<1>1. PICK l \in Nat : l = Len(s) /\ \A i \in 1 .. l : s[i].pkt \in Packets
  <2>1. Len(s) \in Nat /\ \A i \in 1 .. Len(s) : s[i] \in Sent
    BY LenProperties
  <2> QED BY <2>1 DEF Sent
<1> DEFINE Next1(v, i) == IF s[i].to = n THEN Append(v, s[i].pkt) ELSE v
           step == [p \in Seq(Packets) \X (1 .. l) |-> Next1(p[1], p[2])]
<1>2. \A v \in Seq(Packets), i \in 1 .. l : Next1(v, i) \in Seq(Packets)
  BY <1>1
<1>3. \A v \in Seq(Packets), i \in 1 .. l : step[<<v, i>>] = Next1(v, i)
  <2> HIDE DEF Next1
  <2> QED OBVIOUS
<1>4. step \in [Seq(Packets) \X (1 .. l) -> Seq(Packets)]
  <2> HIDE DEF Next1
  <2> QED BY <1>2
<1>5. PICK f : Follows(f, Seq(Packets), l, <<>>, step)
  <2> HIDE DEF step
  <2>1. <<>> \in Seq(Packets)
    OBVIOUS
  <2> QED BY <1>1, <1>4, <2>1, Recursion
<1> DEFINE Defines(g) ==
             g = [i \in 0 .. Len(s) |->
                    IF i = 0 THEN <<>>
                    ELSE IF s[i].to = n THEN Append(g[i - 1], s[i].pkt) ELSE g[i - 1]]
           upto == CHOOSE g : Defines(g)
<1>6. Defines(f)
  <2> HIDE DEF step
  <2>1. /\ f \in [0 .. l -> Seq(Packets)] /\ f[0] = <<>>
        /\ \A i \in 1 .. l : f[i] = step[<<f[i - 1], i>>]
    BY <1>5 DEF Follows
  <2>2. ASSUME NEW i \in 1 .. l PROVE f[i] = Next1(f[i - 1], i)
    <3> HIDE DEF Next1
    <3>1. f[i - 1] \in Seq(Packets)
      BY <1>1, <2>1
    <3> QED BY <3>1, <1>3, <2>1
  <2>3. \A i \in 0 .. l : i # 0 => i \in 1 .. l
    BY <1>1
  <2> QED BY <1>1, <2>1, <2>2, <2>3
<1>7. Defines(upto)
  <2> HIDE DEF Defines
  <2> QED BY <1>6
<1>8. upto[Len(s)] = Reports(n, s)
  BY DEF Reports
<1> HIDE DEF upto
<1>9. upto[0] = <<>> /\ \A i \in 1 .. l : upto[i] = Next1(upto[i - 1], i)
  <2>1. 0 \in 0 .. l /\ \A i \in 1 .. l : i \in 0 .. l /\ i # 0
    BY <1>1
  <2> QED BY <1>1, <1>7, <2>1
<1>10. DOMAIN upto = 0 .. l
  BY <1>1, <1>7
<1> DEFINE Typed == {i \in Nat : i <= l => upto[i] \in Seq(Packets)}
<1>11. Nat \subseteq Typed
  <2>1. 0 \in Typed
    <3>1. <<>> \in Seq(Packets)
      OBVIOUS
    <3> QED BY <1>9, <3>1
  <2>2. ASSUME NEW i \in Nat, i \in Typed PROVE i + 1 \in Typed
    <3> SUFFICES ASSUME i + 1 <= l PROVE upto[i + 1] \in Seq(Packets)
      OBVIOUS
    <3>1. i + 1 \in 1 .. l /\ upto[i] \in Seq(Packets) /\ i + 1 - 1 = i
      BY <1>1, <2>2
    <3>2. upto[i + 1] = Next1(upto[i], i + 1)
      BY <1>9, <3>1
    <3> HIDE DEF Next1
    <3> QED BY <1>2, <3>1, <3>2
  <2> HIDE DEF Typed
  <2> QED BY <2>1, <2>2, Induction
<1>12. \A i \in 0 .. l : upto[i] \in Seq(Packets)
  BY <1>1, <1>11
<1>13. upto \in [0 .. l -> Seq(Packets)]
  <2> HIDE DEF Defines
  <2>1. upto = [i \in 0 .. l |-> upto[i]]
    BY <1>1, <1>7 DEF Defines
  <2> QED BY <1>12, <2>1
<1> QED BY <1>1, <1>8, <1>9, <1>13 DEF Steps

(* One entry more.                                                         *)
LEMMA StepAt ==
  ASSUME NEW f, NEW n, NEW s \in Seq(Sent), Steps(f, n, s), NEW i \in Nat, i + 1 <= Len(s)
  PROVE  /\ f[i] \in Seq(Packets)
         /\ s[i + 1].to = n => f[i + 1] = Append(f[i], s[i + 1].pkt)
         /\ s[i + 1].to # n => f[i + 1] = f[i]
<1>1. i \in 0 .. Len(s) /\ i + 1 \in 1 .. Len(s) /\ i + 1 - 1 = i
  BY LenProperties
<1>2. f[i] \in Seq(Packets)
  BY <1>1 DEF Steps
<1>3. PICK k : k = i + 1 /\ k \in 1 .. Len(s) /\ k - 1 = i
  BY <1>1
<1>4. f[k] = IF s[k].to = n THEN Append(f[k - 1], s[k].pkt) ELSE f[k - 1]
  BY <1>3 DEF Steps
<1> QED BY <1>2, <1>3, <1>4

LEMMA ReportsType ==
  ASSUME NEW n, NEW s \in Seq(Sent)
  PROVE  Reports(n, s) \in Seq(Packets)
<1>1. PICK f : Steps(f, n, s)
  BY ReportsSteps
<1>2. Len(s) \in 0 .. Len(s)
  BY LenProperties
<1> QED BY <1>1, <1>2 DEF Steps

LEMMA NoReports == \A n : Reports(n, <<>>) = <<>>
<1> SUFFICES ASSUME NEW n PROVE Reports(n, <<>>) = <<>>
  OBVIOUS
<1>1. <<>> \in Seq(Sent) /\ Len(<<>>) = 0
  OBVIOUS
<1>2. PICK f : Steps(f, n, <<>>)
  BY <1>1, ReportsSteps
<1> QED BY <1>1, <1>2 DEF Steps

(* One more entry.                                                         *)
LEMMA ReportsAppended ==
  ASSUME NEW n, NEW s \in Seq(Sent), NEW e \in Sent
  PROVE  Reports(n, Append(s, e)) =
           IF e.to = n THEN Append(Reports(n, s), e.pkt) ELSE Reports(n, s)
<1>1. PICK t, l : t = Append(s, e) /\ l = Len(s)
  OBVIOUS
<1>2. /\ l \in Nat /\ t \in Seq(Sent) /\ Len(t) = l + 1
      /\ t[l + 1] = e /\ \A i \in 1 .. l : t[i] = s[i]
  BY <1>1, Appended, LenProperties
<1>3. PICK f : Steps(f, n, s)
  BY ReportsSteps
<1>4. PICK g : Steps(g, n, t)
  BY <1>2, ReportsSteps
<1> DEFINE Same == {i \in Nat : i <= l => g[i] = f[i]}
<1>5. Nat \subseteq Same
  <2>1. 0 \in Same
    BY <1>3, <1>4 DEF Steps
  <2>2. ASSUME NEW i \in Nat, i \in Same PROVE i + 1 \in Same
    <3> SUFFICES ASSUME i + 1 <= l PROVE g[i + 1] = f[i + 1]
      OBVIOUS
    <3>1. i + 1 <= l /\ i + 1 <= l + 1 /\ i + 1 \in 1 .. l /\ g[i] = f[i]
      BY <1>2, <2>2
    <3>2. i + 1 <= Len(s) /\ i + 1 <= Len(t)
      BY <1>1, <1>2, <3>1
    <3>3. /\ s[i + 1].to = n => f[i + 1] = Append(f[i], s[i + 1].pkt)
          /\ s[i + 1].to # n => f[i + 1] = f[i]
      BY <1>3, <3>2, StepAt, Zenon
    <3>4. /\ t[i + 1].to = n => g[i + 1] = Append(g[i], t[i + 1].pkt)
          /\ t[i + 1].to # n => g[i + 1] = g[i]
      BY <1>2, <1>4, <3>2, StepAt, Zenon
    <3> QED BY <1>2, <3>1, <3>3, <3>4
  <2> HIDE DEF Same
  <2> QED BY <2>1, <2>2, Induction
<1>6. g[l] = Reports(n, s)
  BY <1>1, <1>2, <1>3, <1>5 DEF Steps
<1>7. g[l + 1] = IF e.to = n THEN Append(g[l], e.pkt) ELSE g[l]
  <2>1. l + 1 <= Len(t)
    BY <1>2
  <2>2. /\ t[l + 1].to = n => g[l + 1] = Append(g[l], t[l + 1].pkt)
        /\ t[l + 1].to # n => g[l + 1] = g[l]
    BY <1>2, <1>4, <2>1, StepAt, Zenon
  <2> QED BY <1>2, <2>2
<1>8. g[l + 1] = Reports(n, t)
  BY <1>2, <1>4 DEF Steps
<1> QED BY <1>1, <1>6, <1>7, <1>8

(* The first entry.                                                        *)
LEMMA ReportsFirst ==
  ASSUME NEW n, NEW s \in Seq(Sent), s # <<>>
  PROVE  /\ Head(s).to = n => Reports(n, s) = <<Head(s).pkt>> \o Reports(n, Tail(s))
         /\ Head(s).to # n => Reports(n, s) = Reports(n, Tail(s))
<1>1. PICK t, l, a : t = Tail(s) /\ l = Len(t) /\ a = s[1].pkt
  OBVIOUS
<1>2. /\ l \in Nat /\ t \in Seq(Sent) /\ Len(s) = l + 1 /\ Head(s) = s[1] /\ a \in Packets
      /\ \A i \in 1 .. l : t[i] = s[i + 1] /\ t[i].pkt \in Packets
  <2>1. /\ t \in Seq(Sent) /\ Len(t) = Len(s) - 1 /\ Head(s) = s[1] /\ Head(s) \in Sent
        /\ DOMAIN t = 1 .. Len(s) - 1 /\ \A i \in DOMAIN t : t[i] = s[i + 1]
    BY <1>1, HeadTaken
  <2>2. Len(s) \in Nat /\ Len(t) \in Nat /\ DOMAIN t = 1 .. Len(t) /\ \A i \in DOMAIN t : t[i] \in Sent
    BY <2>1, Places
  <2>3. Len(s) = l + 1 /\ \A i \in 1 .. l : t[i] = s[i + 1] /\ t[i] \in Sent
    BY <1>1, <2>1, <2>2
  <2> QED BY <1>1, <2>1, <2>2, <2>3 DEF Sent
<1>3. PICK f : Steps(f, n, s)
  BY ReportsSteps
<1>4. PICK g : Steps(g, n, t)
  BY <1>2, ReportsSteps
<1>5. PICK before \in Seq(Packets) : before = IF s[1].to = n THEN <<a>> ELSE <<>>
  <2>1. <<a>> \in Seq(Packets) /\ <<>> \in Seq(Packets)
    BY <1>2
  <2> QED BY <2>1, Zenon
<1> DEFINE Same == {i \in Nat : i <= l => f[i + 1] = before \o g[i]}
<1>6. Nat \subseteq Same
  <2>1. 0 \in Same
    <3>1. f[0] = <<>> /\ 1 \in 1 .. Len(s) /\ 1 - 1 = 0
      BY <1>2, <1>3 DEF Steps
    <3>2. f[1] = IF s[1].to = n THEN Append(<<>>, a) ELSE <<>>
      BY <1>1, <1>3, <3>1 DEF Steps
    <3>3. f[1] = before
      BY <1>5, <3>2
    <3>4. g[0] = <<>> /\ before \o <<>> = before
      BY <1>4, ConcatEmptySeq DEF Steps
    <3> QED BY <3>3, <3>4
  <2>2. ASSUME NEW i \in Nat, i \in Same PROVE i + 1 \in Same
    <3> SUFFICES ASSUME i + 1 <= l PROVE f[i + 2] = before \o g[i + 1]
      OBVIOUS
    <3>1. PICK k \in Nat : k = i + 1
      OBVIOUS
    <3>2. /\ k \in 1 .. l /\ i + 2 = k + 1 /\ k + 1 <= Len(s) /\ i + 1 <= Len(t)
          /\ f[k] = before \o g[i]
      BY <1>1, <1>2, <2>2, <3>1
    <3>3. t[k] = s[k + 1] /\ t[k].pkt \in Packets
      BY <1>2, <3>2
    <3>4. /\ s[k + 1].to = n => f[k + 1] = Append(f[k], s[k + 1].pkt)
          /\ s[k + 1].to # n => f[k + 1] = f[k]
      <4>1. k + 1 <= Len(s)
        BY <3>2
      <4> QED BY <1>3, <4>1, StepAt
    <3>5. /\ g[i] \in Seq(Packets)
          /\ t[i + 1].to = n => g[i + 1] = Append(g[i], t[i + 1].pkt)
          /\ t[i + 1].to # n => g[i + 1] = g[i]
      <4>1. i + 1 <= Len(t) /\ t \in Seq(Sent)
        BY <1>2, <3>2
      <4> QED BY <1>4, <4>1, StepAt
    <3>6. PICK x \in Seq(Packets), e \in Packets : x = g[i] /\ e = t[k].pkt
      BY <3>3, <3>5
    <3>7. before \o Append(x, e) = Append(before \o x, e)
      BY ConcatAppended
    <3> QED BY <3>1, <3>2, <3>3, <3>4, <3>5, <3>6, <3>7
  <2> HIDE DEF Same
  <2> QED BY <2>1, <2>2, Induction
<1>7. f[l + 1] = before \o g[l]
  BY <1>2, <1>6
<1>8. f[l + 1] = Reports(n, s) /\ g[l] = Reports(n, t)
  BY <1>1, <1>2, <1>3, <1>4 DEF Steps
<1>9. <<>> \o Reports(n, t) = Reports(n, t)
  BY <1>2, ReportsType, ConcatEmptySeq
<1> QED BY <1>1, <1>2, <1>5, <1>7, <1>8, <1>9

(* What is to be reported for a destination is in an entry of the ring.    *)
LEMMA ReportsFrom ==
  ASSUME NEW n, NEW s \in Seq(Sent), NEW j \in DOMAIN Reports(n, s)
  PROVE  \E i \in DOMAIN s : Reports(n, s)[j] = s[i].pkt
<1>1. PICK l \in Nat : l = Len(s) /\ DOMAIN s = 1 .. l /\ \A i \in 1 .. l : s[i].pkt \in Packets
  <2>1. Len(s) \in Nat /\ DOMAIN s = 1 .. Len(s) /\ \A i \in DOMAIN s : s[i] \in Sent
    BY Places
  <2> QED BY <2>1 DEF Sent
<1>2. PICK f : Steps(f, n, s)
  BY ReportsSteps
<1> DEFINE From(x) == \A k \in DOMAIN x : \E i \in 1 .. l : x[k] = s[i].pkt
           All == {i \in Nat : i <= l => From(f[i])}
<1>3. Nat \subseteq All
  <2>1. 0 \in All
    BY <1>2 DEF Steps
  <2>2. ASSUME NEW i \in Nat, i \in All PROVE i + 1 \in All
    <3> SUFFICES ASSUME i + 1 <= l PROVE From(f[i + 1])
      OBVIOUS
    <3>1. From(f[i]) /\ i + 1 \in 1 .. l /\ i + 1 <= Len(s)
      BY <1>1, <2>2
    <3>2. PICK x \in Seq(Packets), e \in Packets : x = f[i] /\ e = s[i + 1].pkt
      <4>1. f[i] \in Seq(Packets) /\ s[i + 1].pkt \in Packets
        BY <1>1, <1>2, <3>1, StepAt
      <4> QED BY <4>1
    <3>3. f[i + 1] = Append(x, e) \/ f[i + 1] = x
      BY <1>2, <3>1, <3>2, StepAt
    <3>4. From(Append(x, e))
      <4> SUFFICES ASSUME NEW k \in DOMAIN Append(x, e) PROVE \E m \in 1 .. l : Append(x, e)[k] = s[m].pkt
        OBVIOUS
      <4>1. (k \in DOMAIN x /\ Append(x, e)[k] = x[k]) \/ Append(x, e)[k] = e
        <5>1. Len(x) \in Nat /\ DOMAIN x = 1 .. Len(x) /\ DOMAIN Append(x, e) = 1 .. Len(x) + 1
          BY Appended, Places
        <5>2. CASE k = Len(x) + 1
          BY <5>2, Appended
        <5>3. CASE k # Len(x) + 1
          <6>1. k \in DOMAIN x
            BY <5>1, <5>3
          <6> QED BY <6>1, Appended
        <5> QED BY <5>2, <5>3
      <4> QED BY <3>1, <3>2, <4>1
    <3> QED BY <3>1, <3>2, <3>3, <3>4
  <2> HIDE DEF All
  <2> QED BY <2>1, <2>2, Induction
<1>4. From(f[l])
  BY <1>1, <1>3
<1>5. f[l] = Reports(n, s)
  BY <1>1, <1>2 DEF Steps
<1> QED BY <1>1, <1>4, <1>5
-----------------------------------------------------------------------------
(* Each step is one of MacContract or leaves what is pending as it is.     *)

(* A node out of its network has reported all it had sent.                 *)
Emptied == assoc = "out" => ring = <<>>

LEMMA EmptiedKept ==
  ASSUME IInv, Emptied, [Next]_vars PROVE Emptied'
<1>1. Regular /\ SlotFrame
  BY DEF IInv
<1>2. CASE Get
  <2>1. ring # <<>> /\ assoc' = assoc
    BY <1>1, <1>2, GetFacts DEF Get
  <2> QED BY <2>1 DEF Emptied
<1>3. ASSUME NEW ok \in BOOLEAN, SlotEnd(ok) PROVE Emptied'
  <2>1. assoc = "in" /\ assoc' # "out"
    BY <1>1, <1>3 DEF SlotEnd, SlotFrame
  <2> QED BY <2>1 DEF Emptied
<1>4. CASE UNCHANGED vars
  BY <1>4 DEF vars, frames, Emptied
<1>5. CASE WantLock \/ TakeLock \/ Add \/ Put \/ CountLink \/ RemoveLink \/ AddLink
           \/ DropUnused \/ Remove \/ Free
  <2>1. ring' = ring /\ assoc' = assoc
    BY <1>5 DEF WantLock, TakeLock, Add, Put, CountLink, RemoveLink, AddLink, DropUnused, Remove, Free,
                frames
  <2> QED BY <2>1 DEF Emptied
<1>6. CASE Flush \/ Forget \/ Join \/ Call \/ Report \/ EbLeave
  <2>1. ring' = ring /\ (assoc' = assoc \/ assoc' # "out")
    BY <1>6 DEF Flush, Forget, Join, Call, Report, EbLeave, frames
  <2> QED BY <2>1 DEF Emptied
<1>7. CASE Reset
  BY <1>7 DEF Reset, frames, Emptied
<1>8. ASSUME NEW n \in Unicast, Associate(n) PROVE Emptied'
  BY <1>8 DEF Associate, frames, Emptied
<1>9. ASSUME NEW n \in Dests, SlotTx(n) PROVE Emptied'
  BY <1>9 DEF SlotTx, frames, Emptied
<1>10. CASE SlotRx \/ SlotSkip
  <2>1. ring' = ring /\ assoc' = assoc
    BY <1>10 DEF SlotRx, SlotSkip, frames
  <2> QED BY <2>1 DEF Emptied
<1> QED BY <1>2, <1>3, <1>4, <1>5, <1>6, <1>7, <1>8, <1>9, <1>10 DEF Next, Operation

(* The ring but for the entry reported now.                                *)
LEMMA UnreportedFacts ==
  ASSUME Regular
  PROVE  /\ Unreported \in Seq(Sent)
         /\ \A i \in DOMAIN Unreported : \E j \in InRing : Unreported[i] = ring[j]
<1>1. TypeOK /\ TodoOrder
  BY DEF Regular
<1>2. PICK r \in Seq(Sent), l \in Nat : r = ring /\ l = Len(ring) /\ DOMAIN r = 1 .. l
  BY <1>1, TypeFacts
<1>3. Coming("get") => r # <<>>
  BY <1>1, <1>2 DEF TodoOrder, Coming
<1>4. CASE Coming("get")
  <2>1. PICK u : u = Tail(r)
    OBVIOUS
  <2>2. /\ u \in Seq(Sent) /\ DOMAIN u = 1 .. l - 1
        /\ \A i \in DOMAIN u : i + 1 \in DOMAIN r /\ u[i] = r[i + 1]
    BY <1>2, <1>3, <1>4, <2>1, HeadTaken
  <2>3. Unreported = u
    BY <1>2, <1>4, <2>1 DEF Unreported
  <2>4. ASSUME NEW i \in DOMAIN u PROVE \E j \in InRing : u[i] = ring[j]
    <3>1. i + 1 \in DOMAIN ring /\ i + 1 # 1 /\ u[i] = ring[i + 1]
      BY <1>2, <2>2
    <3>2. i + 1 \in InRing
      BY <3>1 DEF InRing, FreedInRing
    <3> QED BY <3>1, <3>2
  <2> QED BY <2>2, <2>3, <2>4
<1>5. CASE ~Coming("get")
  <2>1. Unreported = ring /\ InRing = DOMAIN ring
    BY <1>5 DEF Unreported, InRing, FreedInRing
  <2> QED BY <1>2, <2>1
<1> QED BY <1>4, <1>5

LEMMA PendingSame ==
  ASSUME queue' = queue, Unreported' = Unreported PROVE Pending' = Pending
BY DEF Pending

LEMMA RingSame ==
  ASSUME ring' = ring, Coming("get")' <=> Coming("get") PROVE Unreported' = Unreported
BY DEF Unreported

(* The steps that MacContract does not see.                                *)
LEMMA FreeThenGet ==
  ASSUME Regular, Coming("free") PROVE Coming("get")
<1>1. PICK i \in DOMAIN todo : todo[i].op = "free"
  BY DEF Coming
<1>2. i = Len(todo) - 2 /\ todo[Len(todo)].op = "get"
  BY <1>1 DEF Regular, TodoOrder
<1>3. Len(todo) \in DOMAIN todo
  BY <1>1, <1>2, TypeFacts DEF Regular
<1> QED BY <1>2, <1>3 DEF Coming

LEMMA PendingUnseen ==
  ASSUME IInv,
         \/ UNCHANGED vars \/ WantLock \/ TakeLock \/ Add \/ CountLink \/ RemoveLink \/ AddLink
         \/ DropUnused \/ Remove \/ Forget \/ SlotSkip \/ SlotRx
         \/ Free \/ Get \/ Call \/ EbLeave \/ Reset \/ Join
         \/ \E n \in Unicast : Associate(n)
         \/ \E n \in Dests : SlotTx(n)
  PROVE  Pending' = Pending
<1>1. Regular
  BY DEF IInv
<1>2. CASE \/ UNCHANGED vars \/ WantLock \/ TakeLock \/ Add \/ CountLink \/ RemoveLink \/ AddLink
           \/ DropUnused \/ Remove \/ Forget \/ SlotSkip
  <2>1. SameComing /\ UNCHANGED <<queue, ring>>
    <3>3. CASE UNCHANGED vars
      BY <3>3 DEF vars, frames, SameComing, Coming
    <3>4. CASE WantLock \/ TakeLock
      BY <1>1, <3>4, LockRegular DEF frames
    <3>5. CASE Add
      BY <1>1, <3>5, AddRegular DEF Add
    <3>6. CASE CountLink
      BY <1>1, <3>6, CountLinkRegular DEF CountLink, frames
    <3>7. CASE RemoveLink
      BY <1>1, <3>7, RemoveLinkRegular DEF RemoveLink, frames
    <3>8. CASE AddLink
      BY <1>1, <3>8, AddLinkRegular DEF AddLink, frames
    <3>9. CASE DropUnused
      BY <1>1, <3>9, DropUnusedRegular DEF DropUnused, frames
    <3>10. CASE Remove
      BY <1>1, <3>10, RemoveRegular DEF Remove, frames
    <3>11. CASE Forget
      BY <1>1, <3>11, ForgetRegular DEF Forget, frames
    <3>12. CASE SlotSkip
      BY <1>1, <3>12, SlotSkipRegular DEF SameComing, Coming
    <3> QED BY <1>2, <3>3, <3>4, <3>5, <3>6, <3>7, <3>8, <3>9, <3>10, <3>11, <3>12
  <2> QED BY <2>1, RingSame, PendingSame DEF SameComing
<1>3. CASE SlotRx \/ \E n \in Dests : SlotTx(n)
  <2>1. UNCHANGED <<queue, ring, todo>>
    BY <1>1, <1>3, SlotRxRegular, SlotTxRegular DEF frames
  <2>2. Coming("get")' <=> Coming("get")
    BY <2>1 DEF Coming
  <2> QED BY <2>1, <2>2, RingSame, PendingSame
<1>4. CASE Free
  <2>1. Coming("get") /\ Coming("get")' /\ queue' = queue /\ ring' = ring
    BY <1>1, <1>4, FreeFacts, FreeThenGet DEF Free
  <2> QED BY <2>1, RingSame, PendingSame
<1>5. CASE Get
  <2>1. Coming("get") /\ ~Coming("get")' /\ queue' = queue /\ ring' = Tail(ring)
    BY <1>1, <1>5, GetFacts DEF Get
  <2>2. Unreported' = Unreported
    BY <2>1 DEF Unreported
  <2> QED BY <2>1, <2>2, PendingSame
<1>6. CASE Call \/ EbLeave \/ Reset \/ Join \/ \E n \in Unicast : Associate(n)
  <2>1. ring' = ring /\ queue' = queue
    BY <1>6 DEF Call, EbLeave, Reset, Join, Associate, frames
  <2>2. ~Coming("get") /\ ~Coming("get")'
    <3>1. CASE Join
      BY <1>1, <3>1, JoinRegular, NothingLeftToDo
    <3>2. CASE ~Join
      <4>1. todo = <<>>
        BY <1>6, <3>2 DEF Call, EbLeave, Reset, Associate
      <4>2. ~Coming("get")
        BY <4>1, NoneComing
      <4>3. CASE EbLeave
        BY <4>1, <4>2, <4>3, NothingLeftToDo DEF EbLeave
      <4> QED BY <1>1, <1>6, <3>2, <4>2, <4>3, CallRegular, ResetRegular, AssociateRegular
    <3> QED BY <3>1, <3>2
  <2> QED BY <2>1, <2>2, RingSame, PendingSame
<1> QED BY <1>2, <1>3, <1>4, <1>5, <1>6
LEMMA ReportStep ==
  ASSUME IInv, Report PROVE \E d \in Dests : Mac!Report(d)
<1>1. Regular /\ Regular' /\ TypeOK /\ todo = <<>> /\ ring # <<>> /\ ring' = ring /\ queue' = queue
  BY ReportRegular DEF IInv, Regular, Report, frames
<1>2. ~Coming("get") /\ Coming("get")'
  <2>1. ~Coming("get") /\ Coming("free")'
    BY <1>1, NoneComing, ReportRegular DEF Report
  <2>2. (Regular /\ Coming("free") => Coming("get"))'
    BY FreeThenGet, PTL
  <2> QED BY <1>1, <2>1, <2>2
<1>3. PICK r \in Seq(Sent) : r = ring /\ r # <<>>
  BY <1>1, TypeFacts
<1>4. PICK u \in Seq(Sent), e \in Sent : u = Tail(r) /\ e = Head(r)
  BY <1>3, HeadTaken
<1>5. Unreported = r /\ Unreported' = u
  BY <1>1, <1>2, <1>3, <1>4 DEF Unreported
<1>6. PICK d \in Dests, p \in Packets : d = e.to /\ p = e.pkt
  BY DEF Sent
<1>7. ASSUME NEW n \in Dests, n # d PROVE Reports(n, r) = Reports(n, u)
  BY <1>3, <1>4, <1>6, <1>7, ReportsFirst
<1>8. PICK x \in Seq(Packets), y \in Seq(Packets), q \in Seq(Packets) :
        x = Reports(d, r) /\ y = Reports(d, u) /\ q = queue[d]
  BY <1>1, ReportsType, TypeFacts
<1>9. x = <<p>> \o y
  BY <1>3, <1>4, <1>6, <1>8, ReportsFirst
<1>10. x # <<>> /\ Tail(x) = y
  BY <1>9, OneBefore
<1>11. x \o q # <<>> /\ Tail(x \o q) = y \o q
  BY <1>10, FirstOfConcat
<1>12. Pending = [n \in Dests |-> Reports(n, r) \o queue[n]]
  BY <1>5 DEF Pending
<1>13. Pending' = [n \in Dests |-> Reports(n, u) \o queue[n]]
  BY <1>1, <1>5 DEF Pending
<1>14. Pending[d] # <<>> /\ Pending' = [Pending EXCEPT ![d] = Tail(Pending[d])]
  <2>1. Pending[d] = x \o q
    BY <1>8, <1>12
  <2> QED BY <1>7, <1>8, <1>11, <1>12, <1>13, <2>1
<1> QED BY <1>14 DEF Mac!Report

(* A queue is flushed once the ring is empty, so that what leaves it is    *)
(* what was taken first.                                                   *)
LEMMA FlushStep ==
  ASSUME IInv, Emptied, Flush PROVE Pending' = Pending \/ \E d \in Dests : Mac!Report(d)
<1>1. Regular /\ TypeOK /\ TodoOrder /\ todo # <<>> /\ Head(todo).op = "flush" /\ SameComing
  BY FlushRegular DEF IInv, Regular, Flush, Begin
<1>2. ring = <<>> /\ ~Coming("get")
  <2>1. assoc = "out"
    <3>1. 1 \in DOMAIN todo /\ todo[1].op = "flush"
      BY <1>1, TypeFacts, HeadTaken
    <3> QED BY <1>1, <3>1 DEF TodoOrder
  <2>2. ring = <<>>
    BY <2>1 DEF Emptied
  <2> QED BY <1>1, <2>2 DEF TodoOrder, Coming
<1>3. ring' = ring /\ Unreported' = Unreported /\ Unreported = <<>>
  BY <1>1, <1>2 DEF Flush, others, SameComing, Unreported
<1>4. \/ queue' = queue
      \/ \E n \in nbrs : queue[n] # <<>> /\ queue' = [queue EXCEPT ![n] = Tail(queue[n])]
  BY DEF Flush
<1>5. CASE queue' = queue
  BY <1>3, <1>5, PendingSame
<1>6. ASSUME NEW d \in nbrs, queue[d] # <<>>, queue' = [queue EXCEPT ![d] = Tail(queue[d])]
      PROVE  \E n \in Dests : Mac!Report(n)
  <2>1. queue \in [Dests -> Seq(Packets)] /\ d \in Dests
    BY <1>1 DEF TypeOK
  <2>2. \A n \in Dests, q \in Seq(Packets) : Reports(n, <<>>) \o q = q
    BY NoReports, ConcatEmptySeq
  <2>3. Pending = queue
    <3>1. \A n \in Dests : Reports(n, <<>>) \o queue[n] = queue[n]
      BY <2>1, <2>2
    <3> QED BY <1>3, <2>1, <3>1 DEF Pending
  <2>4. Pending' = queue'
    <3>1. PICK t \in [Dests -> Seq(Packets)] : t = queue'
      BY <1>6, <2>1, HeadTailProperties
    <3>2. \A n \in Dests : Reports(n, <<>>) \o t[n] = t[n]
      BY <2>2
    <3>3. Pending' = [n \in Dests |-> Reports(n, <<>>) \o t[n]]
      BY <1>3, <3>1 DEF Pending
    <3> QED BY <3>1, <3>2, <3>3
  <2> QED BY <1>6, <2>1, <2>3, <2>4 DEF Mac!Report
<1> QED BY <1>4, <1>5, <1>6

(* A packet is put into a queue from the pool: it is pending nowhere.      *)
LEMMA PutStep ==
  ASSUME IInv, Put
  PROVE  Pending' = Pending \/ \E d \in Dests : \E p \in Packets : Mac!Take(d, p)
<1>1. Regular /\ TypeOK /\ todo # <<>> /\ Head(todo).op = "put" /\ SameComing
  BY PutRegular DEF IInv, Regular, Put, Begin
<1>2. PICK d \in Dests : d = Head(todo).n
  BY <1>1, TypeFacts, HeadTaken, OpFacts
<1>3. /\ ring' = ring
      /\ \/ queue' = queue
         \/ \E p \in pool : queue' = [queue EXCEPT ![d] = Append(queue[d], p)]
  BY <1>2 DEF Put, others
<1>4. Unreported' = Unreported
  BY <1>1, <1>3, RingSame DEF SameComing
<1>5. CASE queue' = queue
  BY <1>4, <1>5, PendingSame
<1>6. ASSUME NEW p \in pool, queue' = [queue EXCEPT ![d] = Append(queue[d], p)]
      PROVE  \E n \in Dests : \E m \in Packets : Mac!Take(n, m)
  <2>1. queue \in [Dests -> Seq(Packets)] /\ p \in Packets
    BY <1>1 DEF TypeOK
  <2>2. PICK u \in Seq(Sent) : u = Unreported /\ \A i \in DOMAIN u : \E j \in InRing : u[i] = ring[j]
    BY <1>1, UnreportedFacts
  <2>3. Pending = [n \in Dests |-> Reports(n, u) \o queue[n]]
    BY <2>2 DEF Pending
  <2>4. Pending' = [n \in Dests |-> Reports(n, u) \o queue'[n]]
    BY <1>4, <2>2 DEF Pending
  <2>5. Reports(d, u) \o Append(queue[d], p) = Append(Reports(d, u) \o queue[d], p)
    BY <2>1, ReportsType, ConcatAppended
  <2>6. Pending' = [Pending EXCEPT ![d] = Append(Pending[d], p)]
    BY <1>6, <2>1, <2>3, <2>4, <2>5
  <2>7. p \notin Queued(queue) /\ p \notin ToReport(ring, InRing)
    BY DEF IInv, Placed, Partition
  <2>8. ASSUME NEW n \in Dests, NEW i \in DOMAIN Pending[n] PROVE Pending[n][i] # p
    <3>1. PICK x \in Seq(Packets), y \in Seq(Packets) : x = Reports(n, u) /\ y = queue[n]
      BY <2>1, ReportsType
    <3>2. Pending[n] = x \o y
      BY <2>3, <3>1
    <3>3. \/ \E k \in DOMAIN x : Pending[n][i] = x[k]
          \/ \E k \in DOMAIN y : Pending[n][i] = y[k]
      <4>1. PICK a \in Nat, b \in Nat : a = Len(x) /\ b = Len(y)
        BY LenProperties
      <4>2. /\ DOMAIN x = 1 .. a /\ DOMAIN y = 1 .. b /\ DOMAIN (x \o y) = 1 .. a + b
            /\ \A k \in 1 .. a + b : (x \o y)[k] = IF k <= a THEN x[k] ELSE y[k - a]
        BY <4>1, ConcatProperties, LenProperties
      <4>3. i \in 1 .. a + b
        BY <3>2, <4>2
      <4>4. Pending[n][i] = IF i <= a THEN x[i] ELSE y[i - a]
        BY <3>2, <4>2, <4>3
      <4>5. CASE i <= a
        <5>1. i \in DOMAIN x /\ Pending[n][i] = x[i]
          BY <4>2, <4>3, <4>4, <4>5
        <5> QED BY <5>1
      <4>6. CASE ~ (i <= a)
        <5>1. i - a \in DOMAIN y /\ Pending[n][i] = y[i - a]
          BY <4>2, <4>3, <4>4, <4>6
        <5> QED BY <5>1
      <4> QED BY <4>5, <4>6
    <3>4. ASSUME NEW k \in DOMAIN x PROVE x[k] # p
      <4>1. PICK j \in DOMAIN u : x[k] = u[j].pkt
        BY <3>1, <3>4, ReportsFrom
      <4>2. PICK m \in InRing : u[j] = ring[m]
        BY <2>2
      <4> QED BY <2>1, <2>7, <4>1, <4>2 DEF ToReport
    <3>5. ASSUME NEW k \in DOMAIN y PROVE y[k] # p
      BY <2>1, <2>7, <3>1 DEF Queued
    <3> QED BY <3>3, <3>4, <3>5
  <2> QED BY <2>1, <2>6, <2>8 DEF Mac!Take, Mac!Taken
<1> QED BY <1>3, <1>5, <1>6

(* What the slot moves from a queue to the end of the ring stays pending.  *)
LEMMA SlotEndStep ==
  ASSUME IInv, NEW ok \in BOOLEAN, SlotEnd(ok) PROVE Pending' = Pending
<1>1. /\ Regular /\ TypeOK /\ TodoOrder /\ todo' = todo
      /\ (slot.kind = "tx" /\ Outcome(ok)) \/ (queue' = queue /\ ring' = ring)
  BY SlotEndRegular DEF IInv, Regular
<1>2. Coming("get")' <=> Coming("get")
  BY <1>1 DEF Coming
<1>3. CASE queue' = queue /\ ring' = ring
  BY <1>2, <1>3, RingSame, PendingSame
<1>4. CASE slot.kind = "tx" /\ Outcome(ok)
  <2>1. queue \in [Dests -> Seq(Packets)] /\ ring \in Seq(Sent) /\ slot.to \in Dests
    BY <1>1, <1>4, SlotFacts DEF TypeOK
  <2>2. PICK d \in Dests, q \in Seq(Packets) :
          d = slot.to /\ q = queue[d] /\ q # <<>> /\ slot.pkt = Head(q)
    BY <1>4, <2>1 DEF IInv, SlotFrame
  <2>3. CASE ~Over(ok)
    <3>1. queue' = queue /\ ring' = ring
      BY <1>4, <2>1, <2>3 DEF Outcome
    <3> QED BY <1>3, <3>1
  <2>4. CASE Over(ok)
    <3>1. PICK h \in Packets, v \in Seq(Packets) : h = Head(q) /\ v = Tail(q)
      BY <2>2, HeadTailProperties
    <3>2. PICK e \in Sent : e = [pkt |-> h, to |-> d]
      BY DEF Sent
    <3>3. queue' = [queue EXCEPT ![d] = v] /\ ring' = Append(ring, e)
      BY <1>4, <2>2, <2>4, <3>1, <3>2 DEF Outcome, Rest
    <3>4. PICK u \in Seq(Sent) : u = Unreported
      BY <1>1, UnreportedFacts
    <3>5. Unreported' = Append(u, e)
      <4>1. CASE Coming("get")
        <5>1. ring # <<>>
          BY <1>1, <4>1 DEF TodoOrder, Coming
        <5>2. Tail(Append(ring, e)) = Append(Tail(ring), e)
          BY <2>1, <5>1, HeadTailAppend
        <5> QED BY <1>2, <3>3, <3>4, <4>1, <5>2 DEF Unreported
      <4>2. CASE ~Coming("get")
        BY <1>2, <3>3, <3>4, <4>2 DEF Unreported
      <4> QED BY <4>1, <4>2
    <3>6. ASSUME NEW n \in Dests
          PROVE  Reports(n, Append(u, e)) \o queue'[n] = Reports(n, u) \o queue[n]
      <4>1. PICK x \in Seq(Packets) : x = Reports(n, u)
        BY ReportsType
      <4>2. CASE n = d
        <5>1. Reports(n, Append(u, e)) = Append(x, h)
          BY <3>2, <4>1, <4>2, ReportsAppended
        <5>2. Append(x, h) \o v = x \o q
          BY <2>2, <3>1, FirstMoved
        <5>3. queue'[n] = v
          BY <2>1, <3>3, <4>2
        <5> QED BY <2>2, <4>1, <4>2, <5>1, <5>2, <5>3
      <4>3. CASE n # d
        <5>1. Reports(n, Append(u, e)) = x
          BY <3>2, <4>1, <4>3, ReportsAppended
        <5>2. queue'[n] = queue[n]
          BY <2>1, <3>3, <4>3
        <5> QED BY <4>1, <5>1, <5>2
      <4> QED BY <4>2, <4>3
    <3> QED BY <3>4, <3>5, <3>6 DEF Pending
  <2> QED BY <2>3, <2>4
<1> QED BY <1>1, <1>3, <1>4

(* The MAC implements MacContract: the callback of a frame comes once, and *)
(* the callbacks of the frames to one destination come in the order in     *)
(* which tsch_queue_add_packet took them, whatever was lost, repeated or   *)
(* given up, and when the node leaves. Not proved for a beacon that makes  *)
(* the node leave during a slot to send.                                   *)
THEOREM ImplementsMac ==
  ASSUME ~MidSlot PROVE Spec => ReportedOnceInOrder
<1>1. Init => Mac!Init /\ Emptied
  <2> SUFFICES ASSUME Init PROVE Mac!Init /\ Emptied
    OBVIOUS
  <2>1. ring = <<>> /\ todo = <<>> /\ queue = [n \in Dests |-> <<>>]
    BY DEF Init
  <2>2. Unreported = <<>>
    BY <2>1, NoneComing DEF Unreported
  <2>3. \A n \in Dests : Reports(n, <<>>) = <<>>
    BY NoReports
  <2>4. <<>> \o <<>> = <<>>
    OBVIOUS
  <2>5. Pending = [n \in Dests |-> <<>>]
    BY <2>1, <2>2, <2>3, <2>4 DEF Pending
  <2> QED BY <2>1, <2>5 DEF Mac!Init, Emptied
<1>2. IInv /\ Emptied /\ [Next]_vars => Emptied'
  BY EmptiedKept
<1>3. IInv /\ Emptied /\ [Next]_vars => [Mac!Next]_Pending
  <2> SUFFICES ASSUME IInv, Emptied, [Next]_vars PROVE Mac!Next \/ Pending' = Pending
    OBVIOUS
  <2>1. CASE \/ UNCHANGED vars \/ WantLock \/ TakeLock \/ Add \/ CountLink \/ RemoveLink \/ AddLink
             \/ DropUnused \/ Remove \/ Forget \/ SlotSkip \/ SlotRx
             \/ Free \/ Get \/ Call \/ EbLeave \/ Reset \/ Join
             \/ \E n \in Unicast : Associate(n)
             \/ \E n \in Dests : SlotTx(n)
    BY <2>1, PendingUnseen
  <2>2. CASE Report
    BY <2>2, ReportStep DEF Mac!Next
  <2>3. CASE Flush
    BY <2>3, FlushStep DEF Mac!Next
  <2>4. CASE Put
    BY <2>4, PutStep DEF Mac!Next
  <2>5. ASSUME NEW ok \in BOOLEAN, SlotEnd(ok) PROVE Pending' = Pending
    BY <2>5, SlotEndStep
  <2> QED BY <2>1, <2>2, <2>3, <2>4, <2>5 DEF Next, Operation
<1> QED BY <1>1, <1>2, <1>3, Invariant, PTL DEF Spec, ReportedOnceInOrder, Mac!Spec
-----------------------------------------------------------------------------
(* How many links there are to a neighbour. The counting of one more or    *)
(* one less is the first thing left to do, or the second after the entry   *)
(* of its neighbour was asked for.                                         *)

Due(n, up) == \E i \in DOMAIN todo : todo[i].op = "count" /\ todo[i].n = n /\ todo[i].up = up

(* A neighbour about to go has no link, and a link to be added finds its   *)
(* timeslot empty.                                                         *)
Cleared(i) ==
  \/ links[todo[i].t] = None
  \/ \E j \in 1 .. i - 1 : todo[j].op = "unlink" /\ todo[j].t = todo[i].t
CountFirst ==
  \A i \in DOMAIN todo :
    /\ todo[i].op = "count" => \/ i = 1 /\ todo[1].n \in nbrs
                               \/ i = 2 /\ todo[1].op = "add" /\ todo[1].n = todo[2].n
    /\ todo[i].op = "remove" => i = 1 /\ todo[1].n \in nbrs /\ count[todo[1].n] = 0
    /\ todo[i].op = "link" => Cleared(i) /\ \A j \in DOMAIN todo : todo[j].op = "link" => i = j

TallyOf(n) ==
  /\ n \in nbrs =>
       /\ Due(n, TRUE) => count[n] + 1 = Cardinality(TxLinks(n)) /\ ~Due(n, FALSE)
       /\ Due(n, FALSE) => count[n] = Cardinality(TxLinks(n)) + 1
       /\ ~Due(n, TRUE) /\ ~Due(n, FALSE) => count[n] = Cardinality(TxLinks(n))
  /\ n \notin nbrs =>
       /\ ~Due(n, FALSE)
       /\ Due(n, TRUE) => Cardinality(TxLinks(n)) = 1
       /\ ~Due(n, TRUE) => TxLinks(n) = {}
Tally == \A n \in Dests : TallyOf(n)

CountInv == Regular /\ CountFirst /\ Tally

(* neighbor_memb has an entry for every neighbour, and tx_links_count room *)
(* for every timeslot.                                                     *)
RoomToCount ==
  /\ IsFiniteSet(Dests) /\ Cardinality(Dests) <= NbrMax
  /\ Cardinality(Timeslots) < CountMod

(* An operation gives way to others: only they count, and what was left to *)
(* do after it is in its order.                                            *)
LEMMA CountNext ==
  ASSUME TypeOK, CountFirst, todo # <<>>, Head(todo).op # "add",
         NEW ops \in Seq(Ops), Then(ops),
         \A i \in DOMAIN ops :
           /\ ops[i].op = "count" => i = 2 /\ ops[1].op = "add" /\ ops[1].n = ops[2].n
           /\ ops[i].op = "remove" => i = 1 /\ ops[1].n \in nbrs' /\ count'[ops[1].n] = 0
           /\ ops[i].op # "link",
         \/ Head(todo).op = "link"
         \/ \A t \in Timeslots : links[t] = None \/ (Head(todo).op = "unlink" /\ Head(todo).t = t) => links'[t] = None
  PROVE  /\ CountFirst'
         /\ \A n, up : Due(n, up)' <=> \E i \in DOMAIN ops : ops[i].op = "count" /\ ops[i].n = n /\ ops[i].up = up
<1>1. PICK k \in Nat, l \in Nat :
        /\ k = Len(ops) /\ l >= 1 /\ DOMAIN ops = 1 .. k
        /\ DOMAIN todo = 1 .. l /\ DOMAIN todo' = 1 .. k + l - 1 /\ Head(todo) = todo[1]
        /\ todo[1] \in Ops /\ todo' \in Seq(Ops)
        /\ \A i \in 1 .. k : todo'[i] = ops[i]
        /\ \A i \in 2 .. l : k + i - 1 \in DOMAIN todo' /\ todo'[k + i - 1] = todo[i]
        /\ \A j \in DOMAIN todo' : j \in 1 .. k \/ \E i \in 2 .. l : j = k + i - 1
  BY ThenPlaces
<1>2. \A i \in 2 .. l : i \in DOMAIN todo /\ todo[i].op \notin {"count", "remove"}
  <2> SUFFICES ASSUME NEW i \in 2 .. l PROVE i \in DOMAIN todo /\ todo[i].op \notin {"count", "remove"}
    OBVIOUS
  <2>1. i \in DOMAIN todo /\ i # 1
    BY <1>1
  <2> QED BY <1>1, <2>1 DEF CountFirst
<1>3. \A i \in 1 .. k : i \in DOMAIN todo'
  BY <1>1
<1>4. ASSUME NEW n, NEW up
      PROVE  Due(n, up)' <=> \E i \in DOMAIN ops : ops[i].op = "count" /\ ops[i].n = n /\ ops[i].up = up
  <2>1. ASSUME NEW i \in DOMAIN ops, ops[i].op = "count", ops[i].n = n, ops[i].up = up PROVE Due(n, up)'
    <3>1. i \in DOMAIN todo' /\ todo'[i] = ops[i]
      BY <1>1, <1>3
    <3> QED BY <2>1, <3>1 DEF Due
  <2>2. ASSUME NEW j \in DOMAIN todo', todo'[j].op = "count", todo'[j].n = n, todo'[j].up = up
        PROVE  \E i \in DOMAIN ops : ops[i].op = "count" /\ ops[i].n = n /\ ops[i].up = up
    <3>3. ASSUME NEW i \in 2 .. l, j = k + i - 1 PROVE FALSE
      <4>1. todo'[j] = todo[i]
        BY <1>1, <3>3
      <4> QED BY <1>2, <2>2, <4>1
    <3>1. j \in 1 .. k
      BY <1>1, <3>3
    <3>2. todo'[j] = ops[j]
      BY <1>1, <3>1
    <3> QED BY <1>1, <2>2, <3>1, <3>2
  <2> QED BY <2>1, <2>2 DEF Due
<1>5. ASSUME NEW i \in 2 .. l, todo[i].op = "link"
      PROVE  Cleared(k + i - 1)' /\ todo'[k + i - 1] = todo[i] /\ Head(todo).op # "link"
  <2>1. i \in DOMAIN todo /\ 1 \in DOMAIN todo /\ i # 1 /\ todo'[k + i - 1] = todo[i]
    BY <1>1
  <2>2. /\ links[todo[i].t] = None \/ \E j \in 1 .. i - 1 : todo[j].op = "unlink" /\ todo[j].t = todo[i].t
        /\ Head(todo).op # "link"
    BY <1>1, <1>5, <2>1 DEF CountFirst, Cleared
  <2>3. todo[i].t \in Timeslots
    BY <1>5, <2>1, TypeFacts, OpFacts
  <2>4. CASE links[todo[i].t] = None
    BY <2>1, <2>2, <2>3, <2>4 DEF Cleared
  <2>5. ASSUME NEW j \in 1 .. i - 1, todo[j].op = "unlink", todo[j].t = todo[i].t PROVE Cleared(k + i - 1)'
    <3>1. CASE j = 1
      <4>1. links'[todo[i].t] = None
        BY <1>1, <2>2, <2>3, <2>5, <3>1
      <4> QED BY <2>1, <4>1 DEF Cleared
    <3>2. CASE j # 1
      <4>1. j \in 2 .. l /\ k + j - 1 \in 1 .. k + i - 1 - 1
        BY <3>2
      <4>2. todo'[k + j - 1] = todo[j]
        BY <1>1, <4>1
      <4> QED BY <2>1, <2>5, <4>1, <4>2 DEF Cleared
    <3> QED BY <3>1, <3>2
  <2> QED BY <2>1, <2>2, <2>4, <2>5
<1>6. ASSUME NEW j \in DOMAIN todo'
      PROVE  /\ todo'[j].op = "count" => \/ j = 1 /\ todo'[1].n \in nbrs'
                                         \/ j = 2 /\ todo'[1].op = "add" /\ todo'[1].n = todo'[2].n
             /\ todo'[j].op = "remove" => j = 1 /\ todo'[1].n \in nbrs' /\ count'[todo'[1].n] = 0
             /\ todo'[j].op = "link" =>
                  Cleared(j)' /\ \A m \in DOMAIN todo' : todo'[m].op = "link" => j = m
  <2>1. CASE j \in 1 .. k
    <3>1. todo'[j] = ops[j] /\ ops[j].op # "link" /\ j \in DOMAIN ops
      BY <1>1, <2>1
    <3>2. ops[j].op = "count" => j = 2 /\ todo'[1] = ops[1] /\ todo'[2] = ops[2]
      BY <1>1, <2>1, <3>1
    <3>3. ops[j].op = "remove" => j = 1 /\ todo'[1] = ops[1]
      BY <1>1, <2>1, <3>1
    <3> QED BY <3>1, <3>2, <3>3
  <2>2. ASSUME NEW i \in 2 .. l, j = k + i - 1, todo[i].op = "link"
        PROVE  \A m \in DOMAIN todo' : todo'[m].op = "link" => j = m
    <3> SUFFICES ASSUME NEW m \in DOMAIN todo', todo'[m].op = "link" PROVE j = m
      OBVIOUS
    <3>1. m \notin 1 .. k
      BY <1>1
    <3>2. PICK h \in 2 .. l : m = k + h - 1
      BY <1>1, <3>1
    <3>3. todo[h].op = "link" /\ h \in DOMAIN todo /\ i \in DOMAIN todo
      BY <1>1, <3>2
    <3>4. h = i
      BY <2>2, <3>3 DEF CountFirst
    <3> QED BY <2>2, <3>2, <3>4
  <2>3. ASSUME NEW i \in 2 .. l, j = k + i - 1
        PROVE  /\ todo'[j].op \notin {"count", "remove"}
               /\ todo'[j].op = "link" =>
                    Cleared(j)' /\ \A m \in DOMAIN todo' : todo'[m].op = "link" => j = m
    BY <1>1, <1>2, <1>5, <2>2, <2>3
  <2> QED BY <1>1, <2>1, <2>3
<1> QED BY <1>4, <1>6 DEF CountFirst
LEMMA NotDue ==
  ASSUME CountFirst, todo # <<>> => Head(todo).op \notin {"add", "count"}, TypeOK
  PROVE  \A n, up : ~Due(n, up)
<1> SUFFICES ASSUME NEW i \in DOMAIN todo, todo[i].op = "count" PROVE FALSE
  BY DEF Due
<1>1. todo # <<>> /\ Head(todo) = todo[1]
  BY TypeFacts, HeadTaken
<1> QED BY <1>1 DEF CountFirst

(* Links, neighbours and counts stay, and nothing is to be counted.        *)
LEMMA TallySame ==
  ASSUME Tally, UNCHANGED <<nbrs, count, links>>, \A n, up : Due(n, up)' <=> Due(n, up)
  PROVE  Tally'
<1>1. \A n : TxLinks(n)' = TxLinks(n)
  BY DEF TxLinks, Has
<1> QED BY <1>1 DEF Tally, TallyOf

LEMMA CountStays ==
  ASSUME CountInv, UNCHANGED <<todo, nbrs, count, links>>
  PROVE  CountFirst' /\ Tally'
<1>1. todo' = todo /\ nbrs' = nbrs /\ count' = count /\ links' = links
  OBVIOUS
<1>2. CountFirst'
  BY <1>1 DEF CountInv, CountFirst, Cleared
<1>3. \A n, up : Due(n, up)' <=> Due(n, up)
  BY <1>1 DEF Due
<1> QED BY <1>1, <1>2, <1>3, TallySame DEF CountInv

NothingToCount(ops) ==
  \A i \in DOMAIN ops :
    /\ ops[i].op \notin {"count", "link"}
    /\ ops[i].op = "remove" => i = 1 /\ ops[1].n \in nbrs /\ count[ops[1].n] = 0

LEMMA CountStep ==
  ASSUME CountInv, todo # <<>>, Head(todo).op \notin {"add", "count", "link", "unlink"},
         NEW ops \in Seq(Ops), Then(ops),
         NothingToCount(ops), UNCHANGED <<nbrs, count, links>>
  PROVE  CountFirst' /\ Tally'
<1>1. TypeOK /\ CountFirst /\ Tally
  BY DEF CountInv, Regular
<1>2. nbrs' = nbrs /\ count' = count /\ links' = links
  OBVIOUS
<1>3. CountFirst' /\ \A n, up : ~Due(n, up)'
  BY <1>1, <1>2, CountNext DEF NothingToCount
<1>4. \A n, up : ~Due(n, up)
  BY <1>1, NotDue
<1> QED BY <1>1, <1>3, <1>4, TallySame

LEMMA NothingThen ==
  ASSUME CountInv, todo # <<>>, Head(todo).op \notin {"add", "count", "link", "unlink"},
         Then(<<>>), UNCHANGED <<nbrs, count, links>>
  PROVE  CountFirst' /\ Tally'
<1>1. PICK ops \in Seq(Ops) : ops = <<>> /\ DOMAIN ops = {}
  <2>1. <<>> \in Seq(Ops) /\ DOMAIN <<>> = {}
    OBVIOUS
  <2> QED BY <2>1, Zenon
<1>2. Then(ops) /\ NothingToCount(ops)
  BY <1>1 DEF NothingToCount
<1> QED BY <1>2, CountStep

LEMMA DropCount ==
  ASSUME CountInv, DropUnused PROVE CountFirst' /\ Tally'
<1>1. TypeOK /\ todo # <<>> /\ Head(todo).op = "drop" /\ UNCHANGED <<nbrs, count, links>>
  BY DEF CountInv, Regular, DropUnused, Begin, others
<1>2. PICK left \in SUBSET Unicast : left = Head(todo).left
  BY <1>1, TypeFacts, HeadTaken, OpFacts
<1>3. CASE Then(<<>>)
  BY <1>1, <1>3, NothingThen
<1>4. ASSUME NEW n \in left,
             Then(IF Unused(n) THEN <<[op |-> "remove", n |-> n], [op |-> "drop", left |-> left \ {n}]>>
                  ELSE <<[op |-> "drop", left |-> left \ {n}]>>)
      PROVE  CountFirst' /\ Tally'
  <2>1. PICK a \in Ops, b \in Ops : a = [op |-> "remove", n |-> n] /\ b = [op |-> "drop", left |-> left \ {n}]
    BY OpsBuilt DEF PlainOps
  <2>2. CASE Unused(n)
    <3>1. PICK ops \in Seq(Ops) : ops = <<a, b>> /\ DOMAIN ops = {1, 2} /\ ops[1] = a /\ ops[2] = b
      <4>1. <<a, b>> \in Seq(Ops) /\ DOMAIN <<a, b>> = {1, 2} /\ <<a, b>>[1] = a /\ <<a, b>>[2] = b
        OBVIOUS
      <4> QED BY <4>1, Zenon
    <3>2. Then(ops)
      BY <1>4, <2>1, <2>2, <3>1
    <3>3. n \in nbrs /\ count[n] = 0
      BY <2>2 DEF Unused
    <3>4. NothingToCount(ops)
      BY <2>1, <3>1, <3>3 DEF NothingToCount
    <3>5. Head(todo).op \notin {"add", "count", "link", "unlink"}
      BY <1>1
    <3> QED BY <1>1, <3>2, <3>4, <3>5, CountStep
  <2>3. CASE ~Unused(n)
    <3>1. PICK ops \in Seq(Ops) : ops = <<b>> /\ DOMAIN ops = {1} /\ ops[1] = b
      <4>1. <<b>> \in Seq(Ops) /\ DOMAIN <<b>> = {1} /\ <<b>>[1] = b
        OBVIOUS
      <4> QED BY <4>1, Zenon
    <3>2. Then(ops)
      BY <1>4, <2>1, <2>3, <3>1
    <3>3. NothingToCount(ops)
      BY <2>1, <3>1 DEF NothingToCount
    <3>4. Head(todo).op \notin {"add", "count", "link", "unlink"}
      BY <1>1
    <3> QED BY <1>1, <3>2, <3>3, <3>4, CountStep
  <2> QED BY <2>2, <2>3
<1> QED BY <1>2, <1>3, <1>4 DEF DropUnused

(* The neighbour that goes is one without a link.                          *)
LEMMA RemoveCount ==
  ASSUME CountInv, Remove PROVE CountFirst' /\ Tally'
<1>1. /\ TypeOK /\ CountFirst /\ Tally /\ todo # <<>> /\ Head(todo).op = "remove" /\ Then(<<>>)
      /\ count' = count /\ links' = links /\ nbrs' = nbrs \ {Head(todo).n}
  BY DEF CountInv, Regular, Remove, Begin
<1>2. PICK n \in Dests : n = Head(todo).n
  BY <1>1, TypeFacts, HeadTaken, OpFacts DEF Dests
<1>3. n \in nbrs /\ count[n] = 0
  BY <1>1, <1>2, TypeFacts, HeadTaken DEF CountFirst
<1>4. PICK ops \in Seq(Ops) : ops = <<>> /\ DOMAIN ops = {}
  <2>1. <<>> \in Seq(Ops) /\ DOMAIN <<>> = {}
    OBVIOUS
  <2> QED BY <2>1, Zenon
<1>5. CountFirst' /\ \A m, up : ~Due(m, up)'
  <2>1. Then(ops) /\ \A i \in DOMAIN ops : FALSE
    BY <1>1, <1>4
  <2> QED BY <1>1, <2>1, CountNext
<1>6. \A m, up : ~Due(m, up)
  BY <1>1, NotDue
<1>7. \A m : TxLinks(m)' = TxLinks(m)
  BY <1>1 DEF TxLinks, Has
<1>8. TxLinks(n) = {}
  <2>1. Cardinality(TxLinks(n)) = 0 /\ IsFiniteSet(TxLinks(n))
    BY <1>1, <1>3, <1>6, FS_Subset, TschQueueAssumption DEF Tally, TallyOf, TxLinks
  <2> QED BY <2>1, FS_EmptySet
<1> QED BY <1>1, <1>2, <1>5, <1>6, <1>7, <1>8 DEF Tally, TallyOf

(* With an entry for every neighbour, the one asked for is there.          *)
LEMMA AddCount ==
  ASSUME RoomToCount, CountInv, Add PROVE CountFirst' /\ Tally'
<1>1. /\ TypeOK /\ CountFirst /\ Tally /\ todo # <<>> /\ Head(todo).op = "add" /\ Then(<<>>)
      /\ links' = links
  BY DEF CountInv, Regular, Add, Begin
<1>2. PICK n \in Dests : n = Head(todo).n
  BY <1>1, TypeFacts, HeadTaken, OpFacts
<1>3. nbrs \subseteq Dests /\ count \in [Dests -> 0 .. CountMod - 1]
  BY <1>1 DEF TypeOK
<1>4. \/ n \in nbrs /\ nbrs' = nbrs /\ count' = count
      \/ n \notin nbrs /\ nbrs' = nbrs \cup {n} /\ count' = [count EXCEPT ![n] = 0]
  <2>1. ASSUME n \notin nbrs PROVE Cardinality(nbrs) # NbrMax
    <3>1. nbrs # Dests
      BY <2>1
    <3>2. Cardinality(nbrs) < Cardinality(Dests) /\ Cardinality(Dests) \in Nat /\ Cardinality(nbrs) \in Nat
      BY <1>3, <3>1, FS_Subset, FS_CardinalityType DEF RoomToCount
    <3> QED BY <3>2, TschQueueAssumption DEF RoomToCount
  <2> QED BY <1>2, <2>1 DEF Add
<1>5. PICK ops \in Seq(Ops) : ops = <<>> /\ Len(ops) = 0
  <2>1. <<>> \in Seq(Ops) /\ Len(<<>>) = 0
    OBVIOUS
  <2> QED BY <2>1, Zenon
<1>6. PICK k \in Nat, l \in Nat :
        /\ k = Len(ops) /\ l >= 1 /\ DOMAIN ops = 1 .. k
        /\ DOMAIN todo = 1 .. l /\ DOMAIN todo' = 1 .. k + l - 1 /\ Head(todo) = todo[1]
        /\ todo[1] \in Ops /\ todo' \in Seq(Ops)
        /\ \A i \in 1 .. k : todo'[i] = ops[i]
        /\ \A i \in 2 .. l : k + i - 1 \in DOMAIN todo' /\ todo'[k + i - 1] = todo[i]
        /\ \A j \in DOMAIN todo' : j \in 1 .. k \/ \E i \in 2 .. l : j = k + i - 1
  <2>1. Then(ops)
    BY <1>1, <1>5
  <2> QED BY <1>1, <2>1, ThenPlaces
<1>7. /\ DOMAIN todo = 1 .. l /\ Head(todo) = todo[1]
      /\ \A i \in 2 .. l : i - 1 \in DOMAIN todo' /\ todo'[i - 1] = todo[i]
      /\ \A j \in DOMAIN todo' : j + 1 \in 2 .. l /\ todo'[j] = todo[j + 1]
  <2>1. k = 0
    BY <1>5, <1>6
  <2>2. DOMAIN todo' = 1 .. l - 1
    BY <1>6, <2>1
  <2>3. \A i \in 2 .. l : i - 1 \in DOMAIN todo' /\ todo'[i - 1] = todo[i]
    BY <1>6, <2>1
  <2>4. ASSUME NEW j \in DOMAIN todo' PROVE j + 1 \in 2 .. l /\ todo'[j] = todo[j + 1]
    <3>1. PICK i \in 2 .. l : i = j + 1
      BY <2>2
    <3>2. i - 1 = j
      BY <2>2, <3>1
    <3>3. todo'[i - 1] = todo[i]
      BY <2>3
    <3> QED BY <3>1, <3>2, <3>3
  <2> QED BY <1>6, <2>3, <2>4
<1>8. \A m, up : Due(m, up)' <=> Due(m, up)
  <2>1. todo[1].op = "add"
    BY <1>1, <1>7
  <2>2. ASSUME NEW i \in DOMAIN todo, todo[i].op = "count" PROVE \E j \in DOMAIN todo' : todo'[j] = todo[i]
    <3>1. i \in 2 .. l
      BY <1>7, <2>1, <2>2
    <3> QED BY <1>7, <3>1
  <2>3. ASSUME NEW j \in DOMAIN todo' PROVE \E i \in DOMAIN todo : todo[i] = todo'[j]
    <3>1. j + 1 \in 2 .. l /\ j + 1 \in 1 .. l
      BY <1>7
    <3> QED BY <1>7, <3>1
  <2> QED BY <2>2, <2>3 DEF Due
<1>9. CountFirst'
  <2> SUFFICES ASSUME NEW j \in DOMAIN todo'
               PROVE  /\ todo'[j].op = "count" => \/ j = 1 /\ todo'[1].n \in nbrs'
                                                  \/ j = 2 /\ todo'[1].op = "add" /\ todo'[1].n = todo'[2].n
                      /\ todo'[j].op # "remove"
                      /\ todo'[j].op = "link" =>
                           Cleared(j)' /\ \A m \in DOMAIN todo' : todo'[m].op = "link" => j = m
    BY DEF CountFirst
  <2>1. PICK i \in 2 .. l : i = j + 1 /\ i \in DOMAIN todo /\ todo'[j] = todo[i] /\ j \in Int
    <3>1. j \in Int
      BY <1>6
    <3>2. j + 1 \in 2 .. l /\ j + 1 \in DOMAIN todo
      BY <1>7
    <3> QED BY <1>7, <3>1, <3>2
  <2>2. todo[i].op = "count" => j = 1 /\ todo'[1].n \in nbrs'
    <3>1. todo[i].op = "count" => i = 2 /\ todo[1].n = todo[2].n
      BY <2>1 DEF CountFirst, CountInv
    <3>2. n \in nbrs'
      BY <1>4
    <3> QED BY <1>2, <1>7, <2>1, <3>1, <3>2
  <2>3. todo[i].op # "remove"
    BY <2>1 DEF CountFirst, CountInv
  <2>4. ASSUME todo[i].op = "link" PROVE Cleared(j)'
    <3>1. links[todo[i].t] = None \/ \E h \in 1 .. i - 1 : todo[h].op = "unlink" /\ todo[h].t = todo[i].t
      BY <2>1, <2>4 DEF CountFirst, CountInv, Cleared
    <3>2. CASE links[todo[i].t] = None
      BY <1>1, <2>1, <3>2 DEF Cleared
    <3>3. ASSUME NEW h \in 1 .. i - 1, todo[h].op = "unlink", todo[h].t = todo[i].t PROVE Cleared(j)'
      <4>1. h # 1
        BY <1>1, <1>7, <3>3
      <4>2. h \in 2 .. l /\ h - 1 \in 1 .. j - 1
        BY <2>1, <4>1
      <4>3. todo'[h - 1] = todo[h]
        BY <1>7, <4>2
      <4> QED BY <2>1, <3>3, <4>2, <4>3 DEF Cleared
    <3> QED BY <3>1, <3>2, <3>3
  <2>5. ASSUME todo[i].op = "link", NEW m \in DOMAIN todo', todo'[m].op = "link" PROVE j = m
    <3>1. PICK h \in 2 .. l : h = m + 1 /\ todo'[m] = todo[m + 1] /\ m \in Int
      <4>1. m \in Int
        BY <1>6
      <4> QED BY <1>7, <4>1
    <3>2. h \in DOMAIN todo /\ todo[h].op = "link"
      BY <1>7, <2>5, <3>1
    <3>3. i = h
      BY <1>1, <2>1, <2>5, <3>2 DEF CountFirst
    <3> QED BY <2>1, <3>1, <3>3
  <2> QED BY <2>1, <2>2, <2>3, <2>4, <2>5
<1>10. \A m : TxLinks(m)' = TxLinks(m)
  BY <1>1 DEF TxLinks, Has
<1>11. CASE nbrs' = nbrs /\ count' = count
  BY <1>1, <1>8, <1>9, <1>11, TallySame
<1>12. CASE n \notin nbrs /\ nbrs' = nbrs \cup {n} /\ count' = [count EXCEPT ![n] = 0]
  <2>1. count'[n] = 0 /\ \A m \in Dests : m # n => count'[m] = count[m]
    BY <1>3, <1>12
  <2>2. Cardinality({}) = 0
    BY FS_EmptySet
  <2>3. ASSUME NEW m \in Dests PROVE TallyOf(m)'
    <3>1. /\ Due(m, TRUE)' <=> Due(m, TRUE)
          /\ Due(m, FALSE)' <=> Due(m, FALSE)
          /\ TxLinks(m)' = TxLinks(m)
      BY <1>8, <1>10
    <3>2. CASE m = n
      <4>1. /\ m \notin nbrs /\ m \in nbrs' /\ count'[m] = 0
            /\ ~Due(m, FALSE)
            /\ Due(m, TRUE) => Cardinality(TxLinks(m)) = 1
            /\ ~Due(m, TRUE) => TxLinks(m) = {}
        BY <1>1, <1>12, <2>1, <3>2 DEF Tally, TallyOf
      <4>2. CASE Due(m, TRUE)
        <5>1. Cardinality(TxLinks(m)') = 1 /\ Due(m, TRUE)' /\ ~Due(m, FALSE)'
          BY <3>1, <4>1, <4>2
        <5>2. m \in nbrs' /\ count'[m] + 1 = Cardinality(TxLinks(m)')
          BY <4>1, <5>1
        <5> QED BY <5>1, <5>2 DEF TallyOf
      <4>3. CASE ~Due(m, TRUE)
        <5>1. Cardinality(TxLinks(m)') = 0
          BY <2>2, <3>1, <4>1, <4>3
        <5> QED BY <3>1, <4>1, <4>3, <5>1 DEF TallyOf
      <4> QED BY <4>2, <4>3
    <3>3. CASE m # n
      <4>1. count'[m] = count[m] /\ (m \in nbrs' <=> m \in nbrs)
        BY <1>12, <2>1, <3>3
      <4>2. TallyOf(m)
        BY <1>1 DEF Tally
      <4> QED BY <3>1, <4>1, <4>2 DEF TallyOf
    <3> QED BY <3>2, <3>3
  <2>4. Tally'
    BY <2>3 DEF Tally, TallyOf
  <2> QED BY <1>9, <2>4
<1> QED BY <1>4, <1>11, <1>12

(* The links to a neighbour are some of the timeslots.                     *)
LEMMA LinkNumber ==
  \A n : /\ IsFiniteSet(TxLinks(n)) /\ Cardinality(TxLinks(n)) \in Nat
         /\ Cardinality(TxLinks(n)) <= Cardinality(Timeslots) /\ Cardinality(Timeslots) \in Nat
<1> SUFFICES ASSUME NEW n
             PROVE  /\ IsFiniteSet(TxLinks(n)) /\ Cardinality(TxLinks(n)) \in Nat
                    /\ Cardinality(TxLinks(n)) <= Cardinality(Timeslots) /\ Cardinality(Timeslots) \in Nat
  OBVIOUS
<1>1. TxLinks(n) \subseteq Timeslots /\ IsFiniteSet(Timeslots)
  BY TschQueueAssumption DEF TxLinks
<1>2. PICK s : s = TxLinks(n)
  OBVIOUS
<1>3. IsFiniteSet(s) /\ Cardinality(s) <= Cardinality(Timeslots)
  BY <1>1, <1>2, FS_Subset
<1> QED BY <1>1, <1>2, <1>3, FS_CardinalityType

LEMMA NothingDue ==
  ASSUME Tally, \A n, up : ~Due(n, up)
  PROVE  \A n \in Dests : /\ n \in nbrs => count[n] = Cardinality(TxLinks(n))
                          /\ n \notin nbrs => TxLinks(n) = {}
BY DEF Tally, TallyOf

(* The counting is done: the count has room, and is as many as there are.  *)
LEMMA CountLinkCount ==
  ASSUME RoomToCount, CountInv, CountLink PROVE CountFirst' /\ Tally'
<1>1. /\ TypeOK /\ CountFirst /\ Tally /\ todo # <<>> /\ Head(todo).op = "count" /\ Then(<<>>)
      /\ links' = links /\ nbrs' = nbrs
  BY DEF CountInv, Regular, CountLink, Begin
<1>2. PICK n \in Dests, up \in BOOLEAN : n = Head(todo).n /\ up = Head(todo).up
  BY <1>1, TypeFacts, HeadTaken, OpFacts
<1>3. 1 \in DOMAIN todo /\ Head(todo) = todo[1]
  BY <1>1, TypeFacts, HeadTaken
<1>4. n \in nbrs /\ \A m, b : Due(m, b) <=> m = n /\ b = up
  <2>1. \A i \in DOMAIN todo : todo[i].op = "count" => i = 1
    BY <1>1, <1>3 DEF CountFirst
  <2>2. todo[1].n \in nbrs
    BY <1>1, <1>3 DEF CountFirst
  <2> QED BY <1>1, <1>2, <1>3, <2>1, <2>2 DEF Due
<1>5. PICK ops \in Seq(Ops) : ops = <<>> /\ DOMAIN ops = {}
  <2>1. <<>> \in Seq(Ops) /\ DOMAIN <<>> = {}
    OBVIOUS
  <2> QED BY <2>1, Zenon
<1>6. CountFirst' /\ \A m, b : ~Due(m, b)'
  <2>1. Then(ops) /\ \A i \in DOMAIN ops : FALSE
    BY <1>1, <1>5
  <2> QED BY <1>1, <2>1, CountNext
<1>7. PICK k \in Nat, c \in Nat : k = Cardinality(TxLinks(n)) /\ k <= Cardinality(Timeslots) /\ c = count[n] /\ c < CountMod
  <2>1. count[n] \in Nat /\ count[n] < CountMod
    BY <1>1, TschQueueAssumption DEF TypeOK
  <2> QED BY <2>1, LinkNumber
<1>8. CountMod \in Nat \ {0} /\ k < CountMod
  BY <1>7, LinkNumber, TschQueueAssumption DEF RoomToCount
<1>9. PICK step \in Nat : step = (IF Head(todo).up THEN 1 ELSE CountMod - 1) /\ step = (IF up THEN 1 ELSE CountMod - 1)
  BY <1>2, <1>8
<1>10. (c + step) % CountMod = k
  <2>1. CASE up
    <3>1. c + 1 = k
      BY <1>1, <1>4, <1>7, <2>1 DEF Tally, TallyOf
    <3>2. c + step = k /\ k \in 0 .. CountMod - 1
      BY <1>8, <1>9, <2>1, <3>1
    <3> QED BY <1>8, <3>2, SmallRemainder
  <2>2. CASE ~up
    <3>1. c = k + 1
      BY <1>1, <1>2, <1>4, <1>7, <2>2 DEF Tally, TallyOf
    <3>2. c + step = 1 * CountMod + k /\ k \in 0 .. CountMod - 1 /\ c + step \in Int
      BY <1>8, <1>9, <2>2, <3>1
    <3> QED BY <1>8, <3>2, Remainder
  <2> QED BY <1>2, <2>1, <2>2
<1>11. /\ count'[n] = k
       /\ \A m \in Dests : m # n => count'[m] = count[m]
  <2>1. count' = [count EXCEPT ![n] = (count[n] + step) % CountMod]
    BY <1>2, <1>4, <1>9 DEF CountLink
  <2>2. count \in [Dests -> 0 .. CountMod - 1]
    BY <1>1 DEF TypeOK
  <2> QED BY <1>7, <1>10, <2>1, <2>2
<1>12. \A m : TxLinks(m)' = TxLinks(m)
  BY <1>1 DEF TxLinks, Has
<1>13. ASSUME NEW m \in Dests PROVE TallyOf(m)'
  <2>1. CASE m = n
    BY <1>1, <1>4, <1>6, <1>7, <1>11, <1>12, <2>1 DEF TallyOf
  <2>2. CASE m # n
    <3>1. ~Due(m, TRUE) /\ ~Due(m, FALSE)
      BY <1>4, <2>2
    <3>2. (m \in nbrs => count[m] = Cardinality(TxLinks(m))) /\ (m \notin nbrs => TxLinks(m) = {})
      BY <1>1, <3>1 DEF Tally, TallyOf
    <3> QED BY <1>1, <1>6, <1>11, <1>12, <2>2, <3>2 DEF TallyOf
  <2> QED BY <2>1, <2>2
<1> QED BY <1>6, <1>13 DEF Tally, TallyOf

(* A link more or less: its neighbour is to be counted, no other.          *)
LinksKept ==
  \/ Head(todo).op = "link"
  \/ \A t \in Timeslots : links[t] = None \/ (Head(todo).op = "unlink" /\ Head(todo).t = t) => links'[t] = None

LEMMA RecountNext ==
  ASSUME TypeOK, CountFirst, todo # <<>>, Head(todo).op \in {"link", "unlink"}, LinksKept,
         NEW n \in Dests, NEW up \in BOOLEAN, Then(Recount(n, up))
  PROVE  CountFirst' /\ \A m, b : Due(m, b)' <=> m = n /\ b = up
<1>1. PICK x \in Ops, y \in Ops : x = [op |-> "add", n |-> n] /\ y = [op |-> "count", n |-> n, up |-> up]
  BY OpsBuilt DEF PlainOps
<1>2. PICK ops \in Seq(Ops) : ops = <<x, y>> /\ DOMAIN ops = {1, 2} /\ ops[1] = x /\ ops[2] = y
  <2>1. <<x, y>> \in Seq(Ops) /\ DOMAIN <<x, y>> = {1, 2} /\ <<x, y>>[1] = x /\ <<x, y>>[2] = y
    OBVIOUS
  <2> QED BY <2>1, Zenon
<1>3. Then(ops)
  BY <1>1, <1>2 DEF Recount
<1>4. \A i \in DOMAIN ops :
        /\ ops[i].op = "count" => i = 2 /\ ops[1].op = "add" /\ ops[1].n = ops[2].n
        /\ ops[i].op = "remove" => i = 1 /\ ops[1].n \in nbrs' /\ count'[ops[1].n] = 0
        /\ ops[i].op # "link"
  BY <1>1, <1>2
<1>5. Head(todo).op # "add"
  OBVIOUS
<1>6. /\ CountFirst'
      /\ \A m, b : Due(m, b)' <=> \E i \in DOMAIN ops : ops[i].op = "count" /\ ops[i].n = m /\ ops[i].up = b
  BY <1>3, <1>4, <1>5, CountNext DEF LinksKept
<1>7. \A m, b : (\E i \in DOMAIN ops : ops[i].op = "count" /\ ops[i].n = m /\ ops[i].up = b) <=> m = n /\ b = up
  BY <1>1, <1>2
<1> QED BY <1>6, <1>7

LEMMA NoRecountNext ==
  ASSUME TypeOK, CountFirst, todo # <<>>, Head(todo).op \in {"link", "unlink"}, LinksKept, Then(<<>>)
  PROVE  CountFirst' /\ \A m, b : ~Due(m, b)'
<1>1. PICK ops \in Seq(Ops) : ops = <<>> /\ DOMAIN ops = {}
  <2>1. <<>> \in Seq(Ops) /\ DOMAIN <<>> = {}
    OBVIOUS
  <2> QED BY <2>1, Zenon
<1>2. Then(ops) /\ \A i \in DOMAIN ops : FALSE
  BY <1>1
<1>3. Head(todo).op # "add"
  OBVIOUS
<1> QED BY <1>2, <1>3, CountNext DEF LinksKept

LEMMA RemoveLinkCount ==
  ASSUME CountInv, RemoveLink PROVE CountFirst' /\ Tally'
<1>1. /\ TypeOK /\ CountFirst /\ Tally /\ todo # <<>> /\ Head(todo).op = "unlink"
      /\ count' = count /\ nbrs' = nbrs
  BY DEF CountInv, Regular, RemoveLink, Begin
<1>2. PICK t \in Timeslots : t = Head(todo).t
  BY <1>1, TypeFacts, HeadTaken, OpFacts
<1>3. /\ links' = [links EXCEPT ![t] = None] /\ links \in [Timeslots -> Links \cup {None}]
      /\ Then(IF Has(t, "TX") THEN Recount(links[t].addr, FALSE) ELSE <<>>)
  BY <1>1, <1>2 DEF RemoveLink, TypeOK
<1>4. Head(todo).op \in {"link", "unlink"} /\ LinksKept
  BY <1>1, <1>2, <1>3 DEF LinksKept
<1>5. \A m \in Dests : /\ m \in nbrs => count[m] = Cardinality(TxLinks(m))
                       /\ m \notin nbrs => TxLinks(m) = {}
  BY <1>1, NotDue, NothingDue
<1>6. \A m : TxLinks(m)' = TxLinks(m) \ {t}
  BY <1>3 DEF TxLinks, Has
<1>7. CASE Has(t, "TX")
  <2>1. PICK n \in Dests : n = links[t].addr
    BY <1>3, <1>7 DEF Has, Links, SharedLink, Link, Dests
  <2>2. CountFirst' /\ \A m, b : Due(m, b)' <=> m = n /\ b = FALSE
    <3>1. Then(Recount(n, FALSE))
      BY <1>3, <1>7, <2>1
    <3> QED BY <1>1, <1>4, <3>1, RecountNext
  <2>3. t \in TxLinks(n) /\ \A m : m # n => t \notin TxLinks(m)
    BY <1>7, <2>1 DEF TxLinks
  <2>4. PICK s : s = TxLinks(n) /\ IsFiniteSet(s) /\ t \in s /\ Cardinality(s) \in Nat
    BY <2>3, LinkNumber
  <2>5. Cardinality(s) = Cardinality(s \ {t}) + 1
    <3>1. Cardinality(s \ {t}) = Cardinality(s) - 1
      BY <2>4, FS_RemoveElement
    <3> QED BY <2>4, <3>1
  <2>6. ASSUME NEW m \in Dests PROVE TallyOf(m)'
    <3>1. CASE m = n
      <4>1. TxLinks(m)' = s \ {t} /\ Due(m, FALSE)' /\ ~Due(m, TRUE)'
        BY <1>6, <2>2, <2>4, <3>1
      <4>2. m \in nbrs' /\ count'[m] = Cardinality(s)
        BY <1>1, <1>5, <2>3, <2>4, <3>1
      <4>3. count'[m] = Cardinality(TxLinks(m)') + 1
        BY <2>5, <4>1, <4>2
      <4> QED BY <4>1, <4>2, <4>3 DEF TallyOf
    <3>2. CASE m # n
      <4>1. TxLinks(m)' = TxLinks(m) /\ ~Due(m, FALSE)' /\ ~Due(m, TRUE)'
        BY <1>6, <2>2, <2>3, <3>2
      <4> QED BY <1>1, <1>5, <4>1 DEF TallyOf
    <3> QED BY <3>1, <3>2
  <2> QED BY <2>2, <2>6 DEF Tally, TallyOf
<1>8. CASE ~Has(t, "TX")
  <2>1. Then(<<>>)
    BY <1>3, <1>8
  <2>2. CountFirst' /\ \A m, b : ~Due(m, b)'
    BY <1>1, <1>4, <2>1, NoRecountNext
  <2>3. \A m : TxLinks(m)' = TxLinks(m)
    BY <1>6, <1>8 DEF TxLinks
  <2>4. \A m \in Dests : TallyOf(m)'
    BY <1>1, <1>5, <2>2, <2>3 DEF TallyOf
  <2> QED BY <2>2, <2>4 DEF Tally, TallyOf
<1> QED BY <1>7, <1>8

LEMMA AddLinkCount ==
  ASSUME CountInv, AddLink PROVE CountFirst' /\ Tally'
<1>1. /\ TypeOK /\ CountFirst /\ Tally /\ todo # <<>> /\ Head(todo).op = "link"
      /\ count' = count /\ nbrs' = nbrs
  BY DEF CountInv, Regular, AddLink, Begin
<1>2. PICK t \in Timeslots, l \in Links : t = Head(todo).t /\ l = Head(todo).l
  BY <1>1, TypeFacts, HeadTaken, OpFacts
<1>3. /\ links \in [Timeslots -> Links \cup {None}]
      /\ \/ links' = links /\ Then(<<>>)
         \/ /\ links' = [links EXCEPT ![t] = l]
            /\ Then(IF "TX" \in l.options THEN Recount(l.addr, TRUE) ELSE <<>>)
  BY <1>1, <1>2 DEF AddLink, TypeOK
<1>4. Head(todo).op \in {"link", "unlink"} /\ LinksKept
  BY <1>1 DEF LinksKept
<1>5. \A m \in Dests : /\ m \in nbrs => count[m] = Cardinality(TxLinks(m))
                       /\ m \notin nbrs => TxLinks(m) = {}
  BY <1>1, NotDue, NothingDue
<1>6. links[t] = None /\ t # None /\ l # None
  <2>1. 1 \in DOMAIN todo /\ Head(todo) = todo[1]
    BY <1>1, TypeFacts, HeadTaken
  <2>2. Cleared(1)
    BY <1>1, <2>1 DEF CountFirst
  <2> QED BY <1>2, <2>1, <2>2, TschQueueAssumption DEF Cleared
<1>7. ASSUME Then(<<>>), \A m : TxLinks(m)' = TxLinks(m)
      PROVE  CountFirst' /\ Tally'
  <2>1. CountFirst' /\ \A m, b : ~Due(m, b)'
    BY <1>1, <1>4, <1>7, NoRecountNext
  <2>2. \A m \in Dests : TallyOf(m)'
    BY <1>1, <1>5, <1>7, <2>1 DEF TallyOf
  <2> QED BY <2>1, <2>2 DEF Tally, TallyOf
<1>8. CASE links' = links /\ Then(<<>>)
  <2>1. \A m : TxLinks(m)' = TxLinks(m)
    BY <1>8 DEF TxLinks, Has
  <2> QED BY <1>7, <1>8, <2>1
<1>9. CASE /\ links' = [links EXCEPT ![t] = l] /\ "TX" \notin l.options
           /\ Then(IF "TX" \in l.options THEN Recount(l.addr, TRUE) ELSE <<>>)
  <2>1. \A m : TxLinks(m)' = TxLinks(m)
    BY <1>3, <1>6, <1>9 DEF TxLinks, Has
  <2> QED BY <1>7, <1>9, <2>1
<1>10. CASE /\ links' = [links EXCEPT ![t] = l] /\ "TX" \in l.options
            /\ Then(IF "TX" \in l.options THEN Recount(l.addr, TRUE) ELSE <<>>)
  <2>1. PICK n \in Dests : n = l.addr
    BY DEF Links, SharedLink, Link, Dests
  <2>2. CountFirst' /\ \A m, b : Due(m, b)' <=> m = n /\ b = TRUE
    <3>1. Then(Recount(n, TRUE))
      BY <1>10, <2>1
    <3> QED BY <1>1, <1>4, <3>1, RecountNext
  <2>3. /\ TxLinks(n)' = TxLinks(n) \cup {t} /\ t \notin TxLinks(n)
        /\ \A m : m # n => TxLinks(m)' = TxLinks(m)
    BY <1>3, <1>6, <1>10, <2>1 DEF TxLinks, Has
  <2>4. PICK s : s = TxLinks(n) /\ IsFiniteSet(s) /\ t \notin s /\ Cardinality(s) \in Nat
    BY <2>3, LinkNumber
  <2>5. Cardinality(s \cup {t}) = Cardinality(s) + 1
    BY <2>4, FS_AddElement
  <2>6. ASSUME NEW m \in Dests PROVE TallyOf(m)'
    <3>1. CASE m = n
      <4>1. TxLinks(m)' = s \cup {t} /\ ~Due(m, FALSE)' /\ Due(m, TRUE)'
        BY <2>2, <2>3, <2>4, <3>1
      <4>2. /\ m \in nbrs' => count'[m] = Cardinality(s)
            /\ m \notin nbrs' => Cardinality(s) = 0
        <5>1. Cardinality({}) = 0
          BY FS_EmptySet
        <5> QED BY <1>1, <1>5, <2>4, <3>1, <5>1
      <4>3. /\ m \in nbrs' => count'[m] + 1 = Cardinality(TxLinks(m)')
            /\ m \notin nbrs' => Cardinality(TxLinks(m)') = 1
        BY <2>5, <4>1, <4>2
      <4> QED BY <4>1, <4>3 DEF TallyOf
    <3>2. CASE m # n
      <4>1. TxLinks(m)' = TxLinks(m) /\ ~Due(m, FALSE)' /\ ~Due(m, TRUE)'
        BY <2>2, <2>3, <3>2
      <4> QED BY <1>1, <1>5, <4>1 DEF TallyOf
    <3> QED BY <3>1, <3>2
  <2> QED BY <2>2, <2>6 DEF Tally, TallyOf
<1> QED BY <1>3, <1>8, <1>9, <1>10

(* A call begins with nothing to count, and has its timeslot emptied       *)
(* before a link is added to it.                                           *)
CallShape(ops) ==
  \A i \in DOMAIN ops :
    /\ ops[i].op \notin {"count", "remove"}
    /\ ops[i].op = "link" =>
         /\ \E j \in 1 .. i - 1 : ops[j].op = "unlink" /\ ops[j].t = ops[i].t
         /\ \A j \in DOMAIN ops : ops[j].op = "link" => i = j

LEMMA CallCount ==
  ASSUME CountInv, todo = <<>>, CallShape(todo'), UNCHANGED <<nbrs, count, links>>
  PROVE  CountFirst' /\ Tally'
<1>1. CountFirst'
  BY DEF CountFirst, CallShape, Cleared
<1>2. \A n, up : ~Due(n, up) /\ ~Due(n, up)'
  BY DEF Due, CallShape
<1> QED BY <1>1, <1>2, TallySame DEF CountInv

LEMMA CallsShape == \A call \in Calls : CallShape(call)
<1> SUFFICES ASSUME NEW call \in Calls PROVE CallShape(call)
  OBVIOUS
<1>1. CASE call = <<>>
  BY <1>1 DEF CallShape
<1>2. ASSUME NEW n \in Sends, call = <<[op |-> "add", n |-> n], [op |-> "put", n |-> n]>>
      PROVE  CallShape(call)
  <2>1. PICK a, b : a = [op |-> "add", n |-> n] /\ b = [op |-> "put", n |-> n]
    OBVIOUS
  <2>2. DOMAIN call = {1, 2} /\ call[1] = a /\ call[2] = b
    BY <1>2, <2>1
  <2> QED BY <2>1, <2>2 DEF CallShape
<1>3. ASSUME NEW t \in Timeslots, call = <<[op |-> "unlink", t |-> t]>>
      PROVE  CallShape(call)
  <2>1. DOMAIN call = {1} /\ call[1] = [op |-> "unlink", t |-> t]
    BY <1>3
  <2> QED BY <2>1 DEF CallShape
<1>4. ASSUME NEW t \in Timeslots, NEW l \in Links,
             call = <<[op |-> "unlink", t |-> t], [op |-> "link", t |-> t, l |-> l]>>
      PROVE  CallShape(call)
  <2>1. PICK a, b : a = [op |-> "unlink", t |-> t] /\ b = [op |-> "link", t |-> t, l |-> l]
    OBVIOUS
  <2>2. DOMAIN call = {1, 2} /\ call[1] = a /\ call[2] = b
    BY <1>4, <2>1
  <2>3. a.op = "unlink" /\ b.op = "link" /\ a.t = b.t /\ 1 \in 1 .. 2 - 1
    BY <2>1
  <2> QED BY <2>2, <2>3 DEF CallShape
<1>5. \/ call = <<>>
      \/ \E n \in Sends : call = <<[op |-> "add", n |-> n], [op |-> "put", n |-> n]>>
      \/ \E t \in Timeslots : call = <<[op |-> "unlink", t |-> t]>>
      \/ \E t \in Timeslots, l \in Links :
           call = <<[op |-> "unlink", t |-> t], [op |-> "link", t |-> t, l |-> l]>>
  BY DEF Calls
<1> QED BY <1>1, <1>2, <1>3, <1>4, <1>5, Zenon

(* What follows a call adds no link.                                       *)
LEMMA CallThen ==
  ASSUME NEW call \in Seq(Ops), CallShape(call), NEW e \in Seq(Ops),
         \A i \in DOMAIN e : e[i].op \notin {"count", "remove", "link"}
  PROVE  CallShape(call \o e)
<1>1. PICK s : s = call \o e
  OBVIOUS
<1>2. PICK k \in Nat, l \in Nat : k = Len(call) /\ l = Len(e) /\ DOMAIN call = 1 .. k /\ DOMAIN e = 1 .. l
  BY LenProperties
<1>3. /\ DOMAIN s = 1 .. k + l
      /\ \A i \in 1 .. k + l : s[i] = IF i <= k THEN call[i] ELSE e[i - k]
  BY <1>1, <1>2, ConcatProperties, LenProperties
<1>4. \A i \in 1 .. k : i \in DOMAIN s /\ s[i] = call[i]
  BY <1>3
<1>5. ASSUME NEW i \in DOMAIN s, i \notin 1 .. k PROVE s[i].op \notin {"count", "remove", "link"}
  <2>1. i - k \in 1 .. l /\ ~ (i <= k)
    BY <1>3, <1>5
  <2>2. PICK j \in DOMAIN e : j = i - k
    BY <1>2, <2>1
  <2>3. s[i] = e[j]
    BY <1>3, <1>5, <2>1, <2>2
  <2> QED BY <2>3
<1>6. ASSUME NEW i \in DOMAIN s, s[i].op = "link"
      PROVE  /\ \E j \in 1 .. i - 1 : s[j].op = "unlink" /\ s[j].t = s[i].t
             /\ \A j \in DOMAIN s : s[j].op = "link" => i = j
  <2>1. i \in 1 .. k /\ i \in DOMAIN call /\ s[i] = call[i]
    BY <1>2, <1>4, <1>5, <1>6
  <2>2. PICK j \in 1 .. i - 1 : call[j].op = "unlink" /\ call[j].t = call[i].t
    BY <1>6, <2>1 DEF CallShape
  <2>3. j \in 1 .. k /\ s[j] = call[j]
    BY <1>4, <2>1
  <2>4. ASSUME NEW h \in DOMAIN s, s[h].op = "link" PROVE i = h
    <3>1. h \in DOMAIN call /\ s[h] = call[h]
      BY <1>2, <1>4, <1>5, <2>4
    <3> QED BY <1>6, <2>1, <2>4, <3>1 DEF CallShape
  <2> QED BY <2>1, <2>2, <2>3, <2>4
<1>7. \A i \in DOMAIN s : s[i].op \notin {"count", "remove"}
  BY <1>2, <1>4, <1>5 DEF CallShape
<1> QED BY <1>1, <1>6, <1>7 DEF CallShape

LEMMA PlainCalls ==
  ASSUME NEW call \in Calls PROVE call \in Seq(Ops)
<1>1. call \in Seq(PlainOps)
  BY CallFacts
<1>2. \A i \in DOMAIN call : call[i] \in Ops
  BY <1>1, Places DEF PlainOps
<1> QED BY <1>1, <1>2, Widened

LEMMA CallsCount ==
  ASSUME CountInv, Call \/ Report \/ Reset
  PROVE  CountFirst' /\ Tally'
<1>1. todo = <<>> /\ UNCHANGED <<nbrs, count, links>>
  BY DEF Call, Report, Reset, others
<1>2. Drop \in Ops /\ [op |-> "flush"] \in Ops /\ [op |-> "forget"] \in Ops
      /\ [op |-> "free"] \in Ops /\ [op |-> "get"] \in Ops
  BY OpsBuilt DEF Drop, PlainOps
<1>3. CASE Call
  BY <1>1, <1>3, CallsShape, CallCount DEF Call
<1>4. CASE Report
  <2>1. PICK call \in Calls : todo' = call \o <<[op |-> "free"], Drop, [op |-> "get"]>>
    BY <1>4 DEF Report
  <2>2. PICK a \in Ops, c \in Ops : a = [op |-> "free"] /\ c = [op |-> "get"]
    BY <1>2
  <2>3. PICK e \in Seq(Ops) : /\ e = <<a, Drop, c>> /\ DOMAIN e = {1, 2, 3}
                              /\ e[1] = a /\ e[2] = Drop /\ e[3] = c
    <3>1. /\ <<a, Drop, c>> \in Seq(Ops) /\ DOMAIN <<a, Drop, c>> = {1, 2, 3}
          /\ <<a, Drop, c>>[1] = a /\ <<a, Drop, c>>[2] = Drop /\ <<a, Drop, c>>[3] = c
      BY <1>2
    <3> QED BY <3>1, Zenon
  <2>4. \A i \in DOMAIN e : e[i].op \notin {"count", "remove", "link"}
    BY <2>2, <2>3 DEF Drop
  <2>5. CallShape(call \o e)
    BY <2>4, CallsShape, CallThen, PlainCalls
  <2>6. todo' = call \o e
    BY <2>1, <2>2, <2>3
  <2>7. CallShape(todo')
    BY <2>5, <2>6
  <2> QED BY <1>1, <2>7, CallCount
<1>5. CASE Reset
  <2>1. todo' = <<[op |-> "flush"], Drop, [op |-> "forget"]>>
    BY <1>5 DEF Reset
  <2>2. PICK a, c : a = [op |-> "flush"] /\ c = [op |-> "forget"]
    OBVIOUS
  <2>3. DOMAIN todo' = {1, 2, 3} /\ todo'[1] = a /\ todo'[2] = Drop /\ todo'[3] = c
    BY <2>1, <2>2
  <2>4. \A i \in DOMAIN todo' : todo'[i].op \notin {"count", "remove", "link"}
    BY <2>2, <2>3 DEF Drop
  <2>5. CallShape(todo')
    BY <2>4 DEF CallShape
  <2> QED BY <1>1, <2>5, CallCount
<1> QED BY <1>3, <1>4, <1>5

(* Every timeslot is emptied before the shared link is added.              *)
LEMMA AssociateCount ==
  ASSUME CountInv, NEW n \in Unicast, Associate(n)
  PROVE  CountFirst' /\ Tally'
<1>1. PICK k \in Nat : k = Cardinality(Timeslots)
  BY FS_CardinalityType, TschQueueAssumption
<1>2. PICK order \in [1 .. k -> Timeslots] :
        /\ {order[i] : i \in DOMAIN order} = Timeslots
        /\ todo' = [i \in DOMAIN order |-> [op |-> "unlink", t |-> order[i]]]
                     \o <<[op |-> "link", t |-> SharedSlot, l |-> SharedLink],
                          [op |-> "add", n |-> n], [op |-> "join", n |-> n]>>
  BY <1>1 DEF Associate
<1>3. PICK call : call = [i \in 1 .. k |-> [op |-> "unlink", t |-> order[i]]]
  OBVIOUS
<1>4. call \in Seq(Ops) /\ DOMAIN call = 1 .. k
  <2>1. \A i \in 1 .. k : [op |-> "unlink", t |-> order[i]] \in Ops
    BY OpsBuilt DEF PlainOps
  <2> QED BY <1>3, <2>1, IsASeq
<1>5. PICK a \in Ops, b \in Ops, c \in Ops :
        /\ a = [op |-> "link", t |-> SharedSlot, l |-> SharedLink]
        /\ b = [op |-> "add", n |-> n] /\ c = [op |-> "join", n |-> n]
  <2>1. SharedSlot \in Timeslots /\ SharedLink \in Links /\ n \in Dests
    BY TschQueueAssumption DEF Links, Dests
  <2> QED BY <2>1, OpsBuilt DEF PlainOps
<1>6. PICK e \in Seq(Ops) : e = <<a, b, c>> /\ Len(e) = 3 /\ e[1] = a /\ e[2] = b /\ e[3] = c
  <2>1. /\ <<a, b, c>> \in Seq(Ops) /\ Len(<<a, b, c>>) = 3
        /\ <<a, b, c>>[1] = a /\ <<a, b, c>>[2] = b /\ <<a, b, c>>[3] = c
    OBVIOUS
  <2> QED BY <2>1, Zenon
<1>7. todo' = call \o e
  BY <1>2, <1>3, <1>5, <1>6
<1>8. PICK s : s = todo' /\ s = call \o e
  BY <1>7
<1>9. /\ DOMAIN s = 1 .. k + 3
      /\ \A i \in 1 .. k + 3 : s[i] = IF i <= k THEN call[i] ELSE e[i - k]
  <2>1. Len(call) = k /\ call \o e \in Seq(Ops) /\ Len(call \o e) = k + 3
        /\ \A i \in 1 .. Len(call) + Len(e) : (call \o e)[i] = IF i <= Len(call) THEN call[i] ELSE e[i - Len(call)]
    BY <1>4, <1>6, ConcatProperties, LenProperties
  <2> QED BY <1>6, <1>8, <2>1, LenProperties
<1>10. /\ \A i \in 1 .. k : s[i] = [op |-> "unlink", t |-> order[i]]
       /\ s[k + 1] = a /\ s[k + 2] = b /\ s[k + 3] = c
  <2>1. ASSUME NEW i \in 1 .. k PROVE s[i] = [op |-> "unlink", t |-> order[i]]
    <3>1. i \in 1 .. k + 3 /\ i <= k
      OBVIOUS
    <3> QED BY <1>3, <1>9, <3>1
  <2>2. ASSUME NEW i \in 1 .. 3 PROVE s[k + i] = e[i]
    <3>1. k + i \in 1 .. k + 3 /\ ~ (k + i <= k) /\ k + i - k = i
      OBVIOUS
    <3> QED BY <1>9, <3>1
  <2> QED BY <1>6, <2>1, <2>2
<1>11. /\ \A i \in 1 .. k : s[i].op = "unlink" /\ s[i].t = order[i]
       /\ s[k + 1].op = "link" /\ s[k + 1].t = SharedSlot
       /\ s[k + 2].op = "add" /\ s[k + 3].op = "join"
  <2>1. a.op = "link" /\ a.t = SharedSlot /\ b.op = "add" /\ c.op = "join"
    BY <1>5
  <2>2. ASSUME NEW i \in 1 .. k PROVE s[i].op = "unlink" /\ s[i].t = order[i]
    <3>1. PICK t, o : t = order[i] /\ o = [op |-> "unlink", t |-> t] /\ o = s[i]
      BY <1>10
    <3>2. o.op = "unlink" /\ o.t = t
      BY <3>1
    <3> QED BY <3>1, <3>2
  <2> QED BY <1>10, <2>1, <2>2
<1>12. \A i \in DOMAIN s : i \in 1 .. k \/ i = k + 1 \/ i = k + 2 \/ i = k + 3
  BY <1>9
<1>13. PICK j \in 1 .. k : s[j].op = "unlink" /\ s[j].t = s[k + 1].t
  <2>1. PICK i \in 1 .. k : order[i] = SharedSlot
    BY <1>2, TschQueueAssumption
  <2> QED BY <1>11, <2>1
<1>14. CallShape(s)
  <2>1. \A i \in DOMAIN s : /\ s[i].op \notin {"count", "remove"}
                            /\ s[i].op = "link" => i = k + 1
    BY <1>11, <1>12
  <2>2. j \in 1 .. k + 1 - 1
    OBVIOUS
  <2>3. ASSUME NEW i \in DOMAIN s, s[i].op = "link"
        PROVE  /\ \E h \in 1 .. i - 1 : s[h].op = "unlink" /\ s[h].t = s[i].t
               /\ \A h \in DOMAIN s : s[h].op = "link" => i = h
    BY <1>13, <2>1, <2>2, <2>3
  <2> QED BY <2>1, <2>3 DEF CallShape
<1> QED BY <1>8, <1>14, CallCount DEF Associate, others

LEMMA CountsAtStart ==
  ASSUME Init PROVE CountFirst /\ Tally
<1>1. DOMAIN todo = {}
  BY DEF Init
<1>2. CountFirst /\ \A n, up : ~Due(n, up)
  BY <1>1 DEF CountFirst, Due
<1>3. PICK root \in BOOLEAN :
        /\ count = [n \in Dests |-> IF root /\ n = Bcast THEN 1 ELSE 0]
        /\ links = [t \in Timeslots |-> IF root /\ t = SharedSlot THEN SharedLink ELSE None]
        /\ nbrs = {Bcast}
  BY DEF Init
<1>4. /\ SharedSlot \in Timeslots /\ SharedSlot # None /\ SharedLink # None
      /\ "TX" \in SharedLink.options /\ SharedLink.addr = Bcast
  BY TschQueueAssumption DEF Links, SharedLink, Link
<1>5. \A n \in Dests : TxLinks(n) = IF root /\ n = Bcast THEN {SharedSlot} ELSE {}
  BY <1>3, <1>4 DEF TxLinks, Has
<1>6. Cardinality({}) = 0 /\ Cardinality({SharedSlot}) = 1
  BY FS_EmptySet, FS_Singleton
<1>7. \A n \in Dests : TallyOf(n)
  BY <1>2, <1>3, <1>5, <1>6 DEF TallyOf
<1> QED BY <1>2, <1>7 DEF Tally, TallyOf

LEMMA CountsKept ==
  ASSUME RoomToCount, CountInv, [Next]_vars PROVE CountFirst' /\ Tally'
<1>1. ASSUME UNCHANGED <<todo, others>> PROVE CountFirst' /\ Tally'
  BY <1>1, CountStays DEF others
<1>2. ASSUME todo # <<>>, Head(todo).op \notin {"add", "count", "link", "unlink"},
             Then(<<>>), UNCHANGED others
      PROVE  CountFirst' /\ Tally'
  BY <1>2, NothingThen DEF others
<1>3. CASE UNCHANGED vars \/ WantLock \/ TakeLock \/ EbLeave \/ SlotRx \/ SlotSkip
  BY <1>1, <1>3 DEF vars, WantLock, TakeLock, EbLeave, SlotRx, SlotSkip, others
<1>4. ASSUME NEW n \in Dests, SlotTx(n) PROVE CountFirst' /\ Tally'
  BY <1>1, <1>4 DEF SlotTx, others
<1>5. ASSUME NEW ok \in BOOLEAN, SlotEnd(ok) PROVE CountFirst' /\ Tally'
  BY <1>1, <1>5 DEF SlotEnd, others
<1>6. CASE Put
  BY <1>2, <1>6 DEF Put, Begin, others
<1>7. CASE Free
  BY <1>2, <1>7 DEF Free, Begin, others
<1>8. CASE Get
  BY <1>2, <1>8 DEF Get, Begin, others
<1>9. CASE Forget
  BY <1>2, <1>9 DEF Forget, Begin, others
<1>10. CASE Join
  BY <1>2, <1>10 DEF Join, Begin, others
<1>11. CASE Flush
  BY <1>1, <1>2, <1>11 DEF Flush, Begin, others
<1>12. CASE Operation
  BY <1>3, <1>6, <1>7, <1>8, <1>9, <1>10, <1>11, <1>12, AddCount, CountLinkCount, RemoveLinkCount,
     AddLinkCount, DropCount, RemoveCount DEF Operation
<1>13. CASE Call \/ Report \/ Reset
  BY <1>13, CallsCount
<1>14. ASSUME NEW n \in Unicast, Associate(n) PROVE CountFirst' /\ Tally'
  BY <1>14, AssociateCount
<1> QED BY <1>3, <1>4, <1>5, <1>12, <1>13, <1>14 DEF Next

(* "needed to keep neighbor state in sync with link options etc.": with an *)
(* entry for every neighbour and a count that has room for the schedule,   *)
(* whatever the calls, the slots and the leaving of the network in         *)
(* between, tx_links_count is the number of links to transmit to each      *)
(* neighbour between two calls, and no neighbour with such a link is gone. *)
THEOREM CountsEveryLink ==
  ASSUME RoomToCount PROVE Spec => []LinksCounted
<1>1. Init => CountInv
  BY RegularAtStart, CountsAtStart DEF CountInv
<1>2. CountInv /\ [Next]_vars => CountInv'
  BY RegularKept, CountsKept DEF CountInv
<1>3. CountInv => LinksCounted
  <2> SUFFICES ASSUME CountInv, todo = <<>>
               PROVE  \A n \in Dests : IF n \in nbrs THEN count[n] = Cardinality(TxLinks(n)) ELSE TxLinks(n) = {}
    BY DEF LinksCounted
  <2>1. \A n, up : ~Due(n, up)
    BY DEF Due
  <2> QED BY <2>1, NothingDue DEF CountInv
<1> QED BY <1>1, <1>2, <1>3, PTL DEF Spec
=============================================================================
