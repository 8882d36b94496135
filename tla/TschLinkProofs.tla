--------------------------- MODULE TschLinkProofs ---------------------------
(***************************************************************************)
(* Proofs about frames between TSCH neighbours, for any number of          *)
(* receivers, frames, restarts and retransmissions, any size of the queues *)
(* and rings, and any last sequence number.                                *)
(***************************************************************************)
EXTENDS TschLink, CommonLemmas

(* The frames r has or had.                                                *)
Got(r) == {ring[r][i] : i \in DOMAIN ring[r]} \cup {handed[r][i] : i \in DOMAIN handed[r]}

(* Of frames fs, b may follow a in what one receiver gets: a unicast frame *)
(* comes again until the next one to that receiver does, a broadcast never.*)
MayFollow(fs, a, b) ==
  fs[a].to = fs[b].to => IF fs[a].to = Bcast THEN a # b ELSE a <= b

(* A number is determined by how many were given out before.               *)
Numbered ==
  /\ \E k \in Nat : given = k * SeqMax + seqno
  /\ \A id \in DOMAIN frames :
       IF frames[id].to = Bcast THEN frames[id].num = NoNumber
       ELSE frames[id].num # NoNumber /\ \E k \in Nat : frames[id].turn + 1 = k * SeqMax + frames[id].num

Queued ==
  \A d \in Dests :
    /\ \A i \in DOMAIN queue[d] : queue[d][i] \in DOMAIN frames /\ frames[queue[d][i]].to = d
    /\ \A i, j \in DOMAIN queue[d] : i < j => queue[d][i] < queue[d][j]

InTheAir ==
  /\ air # Idle =>
       /\ queue[air.to] # <<>> /\ air.id = Head(queue[air.to])
       /\ Len(dequeued) < DequeuedRoom
  /\ \A r \in air.heard : air.to \in {r, Bcast}
  /\ \A d \in Dests : tries[d] <= Retries \/ (air # Idle /\ d = air.to)

(* What r gets comes in the order it was sent in, up to what is still in   *)
(* the queues; of the broadcasts among it, none is still to be sent.       *)
InOrder(r) ==
  /\ \A id \in Got(r) : id \in DOMAIN frames /\ frames[id].to \in {r, Bcast}
  /\ \A i, j \in DOMAIN handed[r] : i < j => MayFollow(frames, handed[r][i], handed[r][j])
  /\ \A i \in DOMAIN handed[r], j \in DOMAIN ring[r] : MayFollow(frames, handed[r][i], ring[r][j])
  /\ \A i, j \in DOMAIN ring[r] : i < j => MayFollow(frames, ring[r][i], ring[r][j])
  /\ \A id \in Got(r), d \in Dests : \A i \in DOMAIN queue[d] :
       MayFollow(frames, id, queue[d][i]) \/ (air # Idle /\ id = air.id)

(* The number registered is that of the last unicast frame handed up.      *)
Latest(r) ==
  /\ \A i \in DOMAIN handed[r] : frames[handed[r][i]].to = r => last[r] # 0
  /\ last[r] # 0 =>
       \E i \in DOMAIN handed[r] :
         /\ frames[handed[r][i]].to = r /\ frames[handed[r][i]].num = last[r]
         /\ \A j \in DOMAIN handed[r] : frames[handed[r][j]].to = r => handed[r][j] <= handed[r][i]

Kept(id) ==
  LET r == frames[id].to
  IN \/ Has(r, id)
     \/ \E j \in 1 .. id - 1 : frames[j].to = r /\ Contains(handed[r], j) /\ Alike(id, j)

(* What is acknowledged is kept, from the acknowledgement to the report.   *)
AckIsKept ==
  /\ air # Idle /\ air.to \in air.heard => Kept(air.id)
  /\ \A i \in DOMAIN dequeued :
       /\ dequeued[i].id \in DOMAIN frames
       /\ dequeued[i].ret = "ok" /\ frames[dequeued[i].id].to # Bcast => Kept(dequeued[i].id)
  /\ \A id \in DOMAIN frames :
       status[id] = "ok" /\ frames[id].to # Bcast => Kept(id)

IInv ==
  /\ TypeOK
  /\ Numbered
  /\ Queued
  /\ InTheAir
  /\ \A r \in Receivers : InOrder(r) /\ Latest(r) /\ IsInjective(handed[r])
  /\ AckIsKept
-----------------------------------------------------------------------------
(* What the types say of the parts of the state, place by place.           *)
LEMMA TypeFacts ==
  ASSUME TypeOK
  PROVE  /\ Len(frames) \in Nat /\ DOMAIN frames = 1 .. Len(frames) /\ DOMAIN status = DOMAIN frames
         /\ DOMAIN frames \subseteq Ids
         /\ \A id \in DOMAIN frames :
              /\ frames[id].to \in Dests /\ frames[id].turn \in Nat
              /\ frames[id].num \in (1 .. SeqMax) \cup {NoNumber}
         /\ \A d \in Dests : queue[d] \in Seq(Ids) /\ Len(queue[d]) \in Nat /\ DOMAIN queue[d] = 1 .. Len(queue[d])
         /\ \A r \in Receivers :
              /\ ring[r] \in Seq(Ids) /\ Len(ring[r]) \in Nat /\ DOMAIN ring[r] = 1 .. Len(ring[r])
              /\ handed[r] \in Seq(Ids) /\ Len(handed[r]) \in Nat /\ DOMAIN handed[r] = 1 .. Len(handed[r])
         /\ Len(dequeued) \in Nat /\ DOMAIN dequeued = 1 .. Len(dequeued)
<1>1. /\ Len(frames) \in Nat /\ DOMAIN frames = 1 .. Len(frames) /\ DOMAIN status = 1 .. Len(status)
      /\ Len(status) = Len(frames)
  BY Places DEF TypeOK
<1>2. \A id \in DOMAIN frames :
        frames[id] \in [to : Dests, num : (1 .. SeqMax) \cup {NoNumber}, turn : 0 .. MaxFrames,
                       boot : 0 .. MaxRestarts]
  BY Places DEF TypeOK
<1>3. DOMAIN frames \subseteq Ids
  BY <1>1, LinkAssumption DEF TypeOK, Ids
<1>4. \A d \in Dests : queue[d] \in Seq(Ids)
  BY DEF TypeOK
<1>5. \A r \in Receivers : ring[r] \in Seq(Ids) /\ handed[r] \in Seq(Ids)
  BY DEF TypeOK
<1>6. \A T : \A s \in Seq(T) : Len(s) \in Nat /\ DOMAIN s = 1 .. Len(s)
  BY Places
<1>7. Len(dequeued) \in Nat /\ DOMAIN dequeued = 1 .. Len(dequeued)
  BY <1>6 DEF TypeOK
<1> QED BY <1>1, <1>2, <1>3, <1>4, <1>5, <1>6, <1>7

(* The frame in the air is the first of its queue.                         *)
LEMMA AirIsHead ==
  ASSUME TypeOK, Queued, InTheAir, air # Idle
  PROVE  air.id \in DOMAIN frames /\ frames[air.id].to = air.to /\ air.to \in Dests /\ air.heard \subseteq Receivers
<1>1. air.to \in Dests /\ air.heard \subseteq Receivers
  BY DEF TypeOK
<1>2. queue[air.to] \in Seq(Ids) /\ queue[air.to] # <<>> /\ air.id = Head(queue[air.to])
  BY <1>1, TypeFacts DEF InTheAir
<1>3. air.id = queue[air.to][1] /\ 1 \in DOMAIN queue[air.to]
  BY <1>2, HeadTaken
<1> QED BY <1>1, <1>3 DEF Queued

(* What is kept stays kept while nothing handed up is taken back.          *)
LEMMA KeptStays ==
  ASSUME TypeOK, NEW id \in DOMAIN frames, frames[id].to # Bcast, Kept(id),
         \A i \in DOMAIN frames : frames'[i] = frames[i],
         \A r \in Receivers : Has(r, id) => Has(r, id)',
         \A r \in Receivers, j \in Ids : Contains(handed[r], j) => Contains(handed'[r], j)
  PROVE  Kept(id)'
<1> DEFINE r == frames[id].to
<1>1. r \in Receivers /\ r = frames'[id].to
  BY TypeFacts DEF Dests
<1>2. CASE Has(r, id)
  BY <1>1, <1>2 DEF Kept
<1>3. CASE \E j \in 1 .. id - 1 : frames[j].to = r /\ Contains(handed[r], j) /\ Alike(id, j)
  <2>1. PICK j \in 1 .. id - 1 : frames[j].to = r /\ Contains(handed[r], j) /\ Alike(id, j)
    BY <1>3
  <2>2. j \in DOMAIN frames /\ j \in Ids
    BY TypeFacts
  <2>3. frames'[j] = frames[j] /\ frames'[id] = frames[id] /\ Contains(handed'[r], j)
    BY <1>1, <2>1, <2>2
  <2>4. Alike(id, j)'
    BY <2>1, <2>3 DEF Alike
  <2> QED BY <1>1, <2>1, <2>3, <2>4 DEF Kept
<1> QED BY <1>2, <1>3 DEF Kept
-----------------------------------------------------------------------------
(* Nothing is sent yet.                                                    *)
LEMMA InitIInv == Init => IInv
<1> SUFFICES ASSUME Init PROVE IInv
  OBVIOUS
<1> USE LinkAssumption
<1>1. TypeOK
  BY EmptySeq DEF Init, TypeOK, Dests, Idle, Finished
<1>2. Numbered
  <2>1. given = 0 * SeqMax + seqno /\ DOMAIN frames = {}
    BY DEF Init
  <2> QED BY <2>1 DEF Numbered
<1>3. Queued /\ InTheAir
  BY DEF Init, Queued, InTheAir, Idle, Dests
<1>4. ASSUME NEW r \in Receivers PROVE InOrder(r) /\ Latest(r) /\ IsInjective(handed[r])
  <2>1. DOMAIN handed[r] = {} /\ DOMAIN ring[r] = {} /\ last[r] = 0
    BY DEF Init
  <2> QED BY <2>1 DEF InOrder, Got, Latest, IsInjective
<1>5. AckIsKept
  BY DEF Init, AckIsKept
<1> QED BY <1>1, <1>2, <1>3, <1>4, <1>5 DEF IInv
-----------------------------------------------------------------------------
(* A transmission puts the first frame of a queue into rings: no receiver  *)
(* has a later one, and none has it if it is a broadcast, which the slot   *)
(* that sent it would have taken from the queue.                           *)
LEMMA TransmitStep ==
  ASSUME IInv, NEW d \in Dests, Transmit(d)
  PROVE  IInv'
<1>1. TypeOK /\ Numbered /\ Queued /\ InTheAir /\ AckIsKept
  BY DEF IInv
<1>2. /\ air = Idle /\ queue[d] # <<>> /\ Len(dequeued) < DequeuedRoom
      /\ tries' = [tries EXCEPT ![d] = @ + 1]
      /\ UNCHANGED <<seqno, given, boots, frames, status, queue, dequeued, last, handed>>
  BY DEF Transmit
<1>3. PICK id \in Ids : /\ id = Head(queue[d]) /\ id = queue[d][1] /\ 1 \in DOMAIN queue[d]
                        /\ id \in DOMAIN frames /\ frames[id].to = d
  <2>1. queue[d] \in Seq(Ids)
    BY <1>1, TypeFacts
  <2> QED BY <1>1, <1>2, <2>1, HeadTaken DEF Queued
<1>4. PICK heard \in SUBSET Listening(d) :
        /\ air' = [to |-> d, id |-> id, heard |-> heard]
        /\ ring' = [r \in Receivers |-> IF r \in heard THEN Put(r, id) ELSE ring[r]]
  BY <1>3 DEF Transmit
<1>5. heard \subseteq Receivers /\ \A r \in heard : d \in {r, Bcast} /\ Len(ring[r]) < InputRoom
  BY DEF Listening
<1>6. air' # Idle /\ air'.to = d /\ air'.id = id /\ air'.heard = heard
  BY <1>3, <1>4 DEF Idle, Ids
<1>7. \A r \in Receivers : /\ r \notin heard => ring'[r] = ring[r]
                           /\ r \in heard => ring'[r] = Append(ring[r], id)
  BY <1>4, <1>5 DEF Put
<1>8. \A r \in Receivers : ring[r] \in Seq(Ids)
  BY <1>1, TypeFacts
<1>9. ASSUME NEW r \in heard
      PROVE  /\ ring'[r] \in Seq(Ids) /\ Len(ring'[r]) = Len(ring[r]) + 1
             /\ DOMAIN ring'[r] = 1 .. Len(ring[r]) + 1
             /\ \A i \in DOMAIN ring[r] : ring'[r][i] = ring[r][i]
             /\ ring'[r][Len(ring[r]) + 1] = id
  <2>1. ring'[r] = Append(ring[r], id) /\ ring[r] \in Seq(Ids)
    BY <1>5, <1>7, <1>8
  <2> QED BY <2>1, Appended
<1>10. TypeOK'
  <2>1. ring' \in [Receivers -> Seq(Ids)]
    <3>1. \A r \in Receivers : ring'[r] \in Seq(Ids)
      BY <1>7, <1>8, <1>9
    <3> QED BY <1>4, <3>1
  <2>2. \A r \in Receivers : Len(ring'[r]) <= InputRoom
    <3> SUFFICES ASSUME NEW r \in Receivers PROVE Len(ring'[r]) <= InputRoom
      OBVIOUS
    <3>1. CASE r \in heard
      <4>1. Len(ring[r]) \in Nat /\ Len(ring[r]) < InputRoom /\ InputRoom \in Nat
        BY <1>1, <1>5, <3>1, TypeFacts, LinkAssumption
      <4>2. Len(ring'[r]) = Len(ring[r]) + 1
        BY <1>9, <3>1, Zenon
      <4> QED BY <4>1, <4>2
    <3>2. CASE r \notin heard
      BY <1>1, <1>7, <3>2 DEF TypeOK
    <3> QED BY <3>1, <3>2
  <2>3. tries' \in [Dests -> 0 .. Retries + 1]
    <3>1. tries[d] <= Retries
      BY <1>1, <1>2 DEF InTheAir
    <3>2. tries \in [Dests -> 0 .. Retries + 1] /\ Retries \in Nat
      BY <1>1, LinkAssumption DEF TypeOK
    <3>3. tries[d] + 1 \in 0 .. Retries + 1
      BY <3>1, <3>2
    <3> QED BY <1>2, <3>2, <3>3
  <2>4. air' \in [to : Dests, id : {0} \cup Ids, heard : SUBSET Receivers]
    BY <1>3, <1>4, <1>5
  <2> QED BY <1>1, <1>2, <2>1, <2>2, <2>3, <2>4 DEF TypeOK
<1>11. Numbered' /\ Queued'
  BY <1>1, <1>2 DEF Numbered, Queued
<1>12. InTheAir'
  <2>1. \A e \in Dests : e # d => tries'[e] <= Retries
    BY <1>1, <1>2 DEF InTheAir, TypeOK
  <2>2. \A r \in heard : d \in {r, Bcast}
    BY <1>5
  <2>3. id = Head(queue'[d]) /\ queue'[d] # <<>> /\ Len(dequeued') < DequeuedRoom
    BY <1>2, <1>3
  <2> QED BY <1>6, <2>1, <2>2, <2>3 DEF InTheAir
<1>13. \A r \in Receivers : \A x \in Got(r) : MayFollow(frames, x, id)
  <2> SUFFICES ASSUME NEW r \in Receivers, NEW x \in Got(r) PROVE MayFollow(frames, x, id)
    OBVIOUS
  <2>1. InOrder(r)
    BY DEF IInv
  <2> QED BY <1>2, <1>3, <2>1 DEF InOrder
<1>14. ASSUME NEW r \in Receivers PROVE InOrder(r)'
  <2>1. InOrder(r)
    BY DEF IInv
  <2>2. CASE r \notin heard
    <3>1. ring'[r] = ring[r] /\ Got(r)' = Got(r)
      BY <1>2, <1>7, <2>2 DEF Got
    <3> QED BY <1>2, <2>1, <3>1 DEF InOrder
  <2>3. CASE r \in heard
    <3> DEFINE n == Len(ring[r])
    <3>1. /\ n \in Nat /\ DOMAIN ring[r] = 1 .. n /\ DOMAIN ring'[r] = 1 .. n + 1
          /\ \A i \in 1 .. n : ring'[r][i] = ring[r][i]
          /\ ring'[r][n + 1] = id
      <4>1. n \in Nat /\ DOMAIN ring[r] = 1 .. n
        BY <1>1, TypeFacts
      <4>2. /\ DOMAIN ring'[r] = 1 .. Len(ring[r]) + 1
            /\ \A i \in DOMAIN ring[r] : ring'[r][i] = ring[r][i]
            /\ ring'[r][Len(ring[r]) + 1] = id
        BY <1>9, <2>3, Zenon
      <4> QED BY <4>1, <4>2, Zenon
    <3>2. /\ \A x \in Got(r)' : x \in Got(r) \/ x = id
          /\ \A i \in 1 .. n : ring[r][i] \in Got(r)
          /\ \A i \in DOMAIN handed[r] : handed[r][i] \in Got(r)
      <4>1. handed'[r] = handed[r]
        BY <1>2
      <4> QED BY <3>1, <4>1 DEF Got
    <3> HIDE DEF n
    <3>3. \A x \in Got(r)' : x \in DOMAIN frames' /\ frames'[x].to \in {r, Bcast}
      BY <1>2, <1>3, <1>5, <2>1, <2>3, <3>2 DEF InOrder
    <3>4. \A i, j \in DOMAIN handed'[r] : i < j => MayFollow(frames', handed'[r][i], handed'[r][j])
      BY <1>2, <2>1 DEF InOrder
    <3>5. \A i \in DOMAIN handed'[r], j \in DOMAIN ring'[r] : MayFollow(frames', handed'[r][i], ring'[r][j])
      <4> SUFFICES ASSUME NEW i \in DOMAIN handed[r], NEW j \in 1 .. n + 1
                   PROVE  MayFollow(frames, handed[r][i], ring'[r][j])
        BY <1>2, <3>1
      <4>1. CASE j = n + 1
        BY <1>13, <3>1, <3>2, <4>1
      <4>2. CASE j # n + 1
        BY <2>1, <3>1, <4>2 DEF InOrder
      <4> QED BY <4>1, <4>2
    <3>6. \A i, j \in DOMAIN ring'[r] : i < j => MayFollow(frames', ring'[r][i], ring'[r][j])
      <4> SUFFICES ASSUME NEW i \in 1 .. n + 1, NEW j \in 1 .. n + 1, i < j
                   PROVE  MayFollow(frames, ring'[r][i], ring'[r][j])
        BY <1>2, <3>1
      <4>0. i \in 1 .. n
        BY <3>1
      <4>1. CASE j = n + 1
        <5>1. ring'[r][i] = ring[r][i] /\ ring[r][i] \in Got(r) /\ ring'[r][j] = id
          BY <3>1, <3>2, <4>0, <4>1
        <5> QED BY <1>13, <5>1
      <4>2. CASE j # n + 1
        <5>1. j \in 1 .. n
          BY <3>1, <4>2
        <5> QED BY <2>1, <3>1, <4>0, <5>1 DEF InOrder
      <4> QED BY <4>1, <4>2
    <3>7. \A x \in Got(r)', e \in Dests : \A i \in DOMAIN queue'[e] :
             MayFollow(frames', x, queue'[e][i]) \/ (air' # Idle /\ x = air'.id)
      BY <1>2, <1>6, <2>1, <3>2 DEF InOrder
    <3> QED BY <3>3, <3>4, <3>5, <3>6, <3>7 DEF InOrder
  <2> QED BY <2>2, <2>3
<1>15. \A r \in Receivers : Latest(r)' /\ IsInjective(handed'[r])
  BY <1>2 DEF IInv, Latest
<1>16. AckIsKept'
  <2>1. \A i \in DOMAIN frames : frames[i].to # Bcast /\ Kept(i) => Kept(i)'
    <3> SUFFICES ASSUME NEW i \in DOMAIN frames, frames[i].to # Bcast, Kept(i) PROVE Kept(i)'
      OBVIOUS
    <3>1. ASSUME NEW r \in Receivers, Has(r, i) PROVE Has(r, i)'
      <4>1. CASE Contains(handed[r], i)
        BY <1>2, <4>1 DEF Has
      <4>2. CASE Contains(ring[r], i)
        <5>1. r \in heard => Contains(ring'[r], i)
          <6> SUFFICES ASSUME r \in heard PROVE Contains(ring'[r], i)
            OBVIOUS
          <6>1. PICK k \in 1 .. Len(ring[r]) : ring[r][k] = i
            BY <4>2 DEF Contains
          <6>2. k \in DOMAIN ring[r] /\ k \in 1 .. Len(ring[r]) + 1
            BY <1>1, TypeFacts
          <6>3. ring'[r][k] = i /\ k \in 1 .. Len(ring'[r])
            BY <1>9, <6>1, <6>2
          <6> QED BY <6>3 DEF Contains
        <5> QED BY <1>7, <4>2, <5>1 DEF Has
      <4> QED BY <3>1, <4>1, <4>2 DEF Has
    <3> QED BY <1>1, <1>2, <3>1, KeptStays
  <2>2. d \in heard => Kept(id)'
    <3> SUFFICES ASSUME d \in heard PROVE Kept(id)'
      OBVIOUS
    <3>0. d \in Receivers /\ Len(ring[d]) \in Nat
      BY <1>1, <1>5, TypeFacts
    <3>1. ring'[d][Len(ring[d]) + 1] = id /\ Len(ring'[d]) = Len(ring[d]) + 1 /\ Len(ring[d]) \in Nat
      BY <1>9, <3>0, Zenon
    <3>2. Contains(ring'[d], id)
      BY <3>1 DEF Contains
    <3>3. frames'[id].to = d
      BY <1>2, <1>3
    <3>4. Has(d, id)'
      BY <3>2, Zenon DEF Has
    <3> QED BY <3>3, <3>4, Zenon DEF Kept
  <2>3. air'.to \in air'.heard => Kept(air.id)'
    BY <1>6, <2>2, Zenon
  <2>4. /\ \A i \in DOMAIN dequeued : dequeued[i].id \in DOMAIN frames
        /\ \A i \in DOMAIN dequeued :
             dequeued[i].ret = "ok" /\ frames[dequeued[i].id].to # Bcast => Kept(dequeued[i].id)
        /\ \A i \in DOMAIN frames : status[i] = "ok" /\ frames[i].to # Bcast => Kept(i)
    BY <1>1 DEF AckIsKept
  <2> QED BY <1>2, <2>1, <2>3, <2>4 DEF AckIsKept
<1> QED BY <1>10, <1>11, <1>12, <1>14, <1>15, <1>16 DEF IInv

(* The end of a slot takes the frame from its queue, or leaves it there to *)
(* be sent again, which only happens to unicast frames. Either way what is *)
(* queued may follow what was sent.                                        *)
LEMMA SlotEndStep ==
  ASSUME IInv, SlotEnd
  PROVE  IInv'
<1>1. TypeOK /\ Numbered /\ Queued /\ InTheAir /\ AckIsKept
  BY DEF IInv
<1>2. /\ air # Idle /\ air' = Idle
      /\ UNCHANGED <<seqno, given, boots, frames, status, ring, last, handed>>
  BY DEF SlotEnd
<1>3. PICK ret \in Outcomes :
        IF Over(ret)
        THEN /\ queue' = [queue EXCEPT ![air.to] = Tail(@)]
             /\ tries' = [tries EXCEPT ![air.to] = 0]
             /\ dequeued' = Append(dequeued, [id |-> air.id, ret |-> ret])
        ELSE UNCHANGED <<queue, tries, dequeued>>
  BY DEF SlotEnd
<1>4. PICK d \in Dests, id \in Ids :
        /\ air.to = d /\ air.id = id /\ queue[d] # <<>> /\ id = queue[d][1] /\ 1 \in DOMAIN queue[d]
        /\ id \in DOMAIN frames /\ frames[id].to = d /\ queue[d] \in Seq(Ids)
  <2>1. air.to \in Dests /\ queue[air.to] # <<>> /\ air.id = Head(queue[air.to])
    BY <1>1, <1>2 DEF TypeOK, InTheAir
  <2>2. queue[air.to] \in Seq(Ids)
    BY <1>1, <2>1, TypeFacts
  <2>3. /\ Head(queue[air.to]) = queue[air.to][1] /\ 1 \in DOMAIN queue[air.to]
        /\ Head(queue[air.to]) \in Ids
    BY <2>1, <2>2, HeadTaken
  <2> QED BY <1>1, <2>1, <2>2, <2>3 DEF Queued
<1>5. /\ ret \in {"ok", "noack"}
      /\ d = Bcast => ret = "ok"
      /\ ret = "ok" /\ d # Bcast => d \in air.heard
  BY <1>4 DEF Outcomes
<1>6. \A e \in Dests : e # d => tries[e] <= Retries
  BY <1>1, <1>4 DEF InTheAir
<1>7. /\ tries \in [Dests -> 0 .. Retries + 1] /\ Retries \in Nat
      /\ queue \in [Dests -> Seq(Ids)] /\ dequeued \in Seq([id : Ids, ret : {"ok", "noack"}])
      /\ Len(dequeued) \in Nat /\ Len(dequeued) < DequeuedRoom /\ DequeuedRoom \in Nat
      /\ \A e \in Dests : Len(queue[e]) <= QueueCap /\ Len(queue[e]) \in Nat /\ QueueCap \in Nat
  BY <1>1, <1>2, TypeFacts, LinkAssumption DEF TypeOK, InTheAir
<1>8. air' \in [to : Dests, id : {0} \cup Ids, heard : SUBSET Receivers]
  BY <1>2 DEF Idle, Dests
<1>9. \A i \in DOMAIN frames : frames[i].to # Bcast /\ Kept(i) => Kept(i)'
  <2>1. \A r \in Receivers : /\ \A i \in DOMAIN frames : Has(r, i) => Has(r, i)'
                             /\ \A j \in Ids : Contains(handed[r], j) => Contains(handed'[r], j)
    BY <1>2 DEF Has
  <2> QED BY <1>1, <1>2, <2>1, KeptStays
<1>10. \A r \in Receivers : Latest(r)' /\ IsInjective(handed'[r])
  BY <1>2 DEF IInv, Latest
<1>11. Numbered'
  BY <1>1, <1>2 DEF Numbered
<1>12. CASE Over(ret)
  <2> DEFINE entry == [id |-> id, ret |-> ret]
  <2>1. /\ queue' = [queue EXCEPT ![d] = Tail(@)]
        /\ tries' = [tries EXCEPT ![d] = 0]
        /\ dequeued' = Append(dequeued, entry)
    BY <1>3, <1>4, <1>12
  <2>2. /\ Tail(queue[d]) \in Seq(Ids) /\ Len(Tail(queue[d])) = Len(queue[d]) - 1
        /\ DOMAIN Tail(queue[d]) = 1 .. Len(queue[d]) - 1
        /\ \A i \in DOMAIN Tail(queue[d]) : i + 1 \in DOMAIN queue[d] /\ Tail(queue[d])[i] = queue[d][i + 1]
    BY <1>4, HeadTaken
  <2>3. entry \in [id : Ids, ret : {"ok", "noack"}]
    BY <1>5
  <2>4. /\ dequeued' \in Seq([id : Ids, ret : {"ok", "noack"}]) /\ Len(dequeued') = Len(dequeued) + 1
        /\ DOMAIN dequeued' = 1 .. Len(dequeued) + 1
        /\ \A i \in DOMAIN dequeued : dequeued'[i] = dequeued[i]
        /\ dequeued'[Len(dequeued) + 1] = entry
    <3> HIDE DEF entry
    <3> QED BY <1>7, <2>1, <2>3, Appended
  <2>5. queue'[d] = Tail(queue[d]) /\ \A e \in Dests : e # d => queue'[e] = queue[e]
    BY <1>7, <2>1
  <2>6. TypeOK'
    <3>1. queue' \in [Dests -> Seq(Ids)] /\ tries' \in [Dests -> 0 .. Retries + 1]
      BY <1>7, <2>1, <2>2
    <3>2. ASSUME NEW e \in Dests PROVE Len(queue'[e]) <= QueueCap
      <4>1. CASE e = d
        <5>1. Len(queue'[e]) = Len(queue[e]) - 1
          BY <2>2, <2>5, <4>1
        <5> QED BY <1>7, <5>1
      <4>2. CASE e # d
        BY <1>7, <2>5, <4>2
      <4> QED BY <4>1, <4>2
    <3>3. Len(dequeued') <= DequeuedRoom
      BY <1>7, <2>4
    <3> QED BY <1>1, <1>2, <1>8, <2>4, <3>1, <3>2, <3>3 DEF TypeOK
  <2>7. Queued'
    <3> SUFFICES ASSUME NEW e \in Dests
                 PROVE  /\ \A i \in DOMAIN queue'[e] : queue'[e][i] \in DOMAIN frames /\ frames[queue'[e][i]].to = e
                        /\ \A i, j \in DOMAIN queue'[e] : i < j => queue'[e][i] < queue'[e][j]
      BY <1>2 DEF Queued
    <3>1. CASE e # d
      BY <1>1, <2>5, <3>1 DEF Queued
    <3>2. CASE e = d
      <4>1. \A i \in DOMAIN queue'[e] : i \in Nat /\ i + 1 \in DOMAIN queue[e] /\ queue'[e][i] = queue[e][i + 1]
        <5>1. queue'[e] = Tail(queue[d]) /\ queue[e] = queue[d]
          BY <2>5, <3>2
        <5>2. \A i \in DOMAIN Tail(queue[d]) : i \in Nat
          BY <1>7, <2>2
        <5> QED BY <2>2, <5>1, <5>2, Zenon
      <4>2. /\ \A i \in DOMAIN queue[e] : queue[e][i] \in DOMAIN frames /\ frames[queue[e][i]].to = e
            /\ \A i, j \in DOMAIN queue[e] : i < j => queue[e][i] < queue[e][j]
        BY <1>1 DEF Queued
      <4>3. ASSUME NEW i \in DOMAIN queue'[e], NEW j \in DOMAIN queue'[e], i < j
            PROVE  queue'[e][i] < queue'[e][j]
        <5>1. i + 1 < j + 1
          BY <4>1, <4>3
        <5> QED BY <4>1, <4>2, <5>1
      <4> QED BY <4>1, <4>2, <4>3
    <3> QED BY <3>1, <3>2
  <2>8. InTheAir'
    <3>1. \A e \in Dests : tries'[e] <= Retries
      BY <1>6, <1>7, <2>1
    <3> QED BY <1>2, <3>1 DEF InTheAir, Idle
  <2>9. ASSUME NEW r \in Receivers PROVE InOrder(r)'
    <3>1. InOrder(r) /\ Got(r)' = Got(r) /\ ring'[r] = ring[r] /\ handed'[r] = handed[r]
      BY <1>2 DEF IInv, Got
    <3>2. ASSUME NEW x \in Got(r), NEW e \in Dests, NEW i \in DOMAIN queue'[e]
          PROVE  MayFollow(frames, x, queue'[e][i])
      <4>1. PICK j \in DOMAIN queue[e] : queue'[e][i] = queue[e][j] /\ (e = d => j > 1)
        <5>1. CASE e # d
          BY <2>5, <5>1
        <5>2. CASE e = d
          <6>1. i \in DOMAIN Tail(queue[d]) /\ queue'[e][i] = Tail(queue[d])[i]
            BY <2>5, <5>2
          <6>2. i + 1 \in DOMAIN queue[d] /\ Tail(queue[d])[i] = queue[d][i + 1] /\ i + 1 > 1
            BY <1>7, <2>2, <6>1
          <6> QED BY <5>2, <6>1, <6>2
        <5> QED BY <5>1, <5>2
      <4>2. MayFollow(frames, x, queue[e][j]) \/ x = id
        BY <1>4, <3>1 DEF InOrder
      <4>3. frames[queue[e][j]].to = e /\ (e = d => id < queue[e][j])
        BY <1>1, <1>4, <4>1 DEF Queued
      <4>4. id \in Nat /\ queue[e][j] \in Nat
        BY <1>1, <1>4, TypeFacts DEF Queued, Ids
      <4> QED BY <1>4, <4>1, <4>2, <4>3, <4>4 DEF MayFollow
    <3> QED BY <1>2, <3>1, <3>2 DEF InOrder
  <2>10. AckIsKept'
    <3>1. entry.id = id /\ entry.ret = ret
      OBVIOUS
    <3>2. ret = "ok" /\ d # Bcast => Kept(id)
      BY <1>1, <1>2, <1>4, <1>5 DEF AckIsKept
    <3>3. \A i \in DOMAIN dequeued' : i \in DOMAIN dequeued \/ i = Len(dequeued) + 1
      BY <1>1, <2>4, TypeFacts
    <3>4. ASSUME NEW i \in DOMAIN dequeued'
          PROVE  /\ dequeued'[i].id \in DOMAIN frames
                 /\ dequeued'[i].ret = "ok" /\ frames[dequeued'[i].id].to # Bcast => Kept(dequeued'[i].id)
      <4>1. CASE i \in DOMAIN dequeued
        BY <1>1, <2>4, <4>1 DEF AckIsKept
      <4>2. CASE i = Len(dequeued) + 1
        BY <1>4, <2>4, <3>1, <3>2, <4>2
      <4> QED BY <3>3, <4>1, <4>2
    <3>5. ASSUME NEW i \in DOMAIN dequeued', dequeued'[i].ret = "ok", frames[dequeued'[i].id].to # Bcast
          PROVE  Kept(dequeued[i].id)'
      <4>1. PICK j \in DOMAIN frames : j = dequeued'[i].id
        BY <3>4
      <4>2. Kept(j)'
        BY <1>9, <3>4, <3>5, <4>1
      <4> QED BY <4>1, <4>2 DEF Kept, Has, Alike
    <3>6. \A i \in DOMAIN frames : status[i] = "ok" /\ frames[i].to # Bcast => Kept(i)'
      BY <1>1, <1>9 DEF AckIsKept
    <3> QED BY <1>2, <3>4, <3>5, <3>6 DEF AckIsKept, Idle
  <2> QED BY <1>10, <1>11, <2>6, <2>7, <2>8, <2>9, <2>10 DEF IInv
<1>13. CASE ~ Over(ret)
  <2>1. UNCHANGED <<queue, tries, dequeued>>
    BY <1>3, <1>13
  <2>2. d # Bcast /\ tries[d] <= Retries
    BY <1>4, <1>5, <1>7, <1>13 DEF Over
  <2>3. TypeOK'
    BY <1>1, <1>2, <1>8, <2>1 DEF TypeOK
  <2>4. Queued'
    BY <1>1, <1>2, <2>1 DEF Queued
  <2>5. InTheAir'
    BY <1>2, <1>6, <2>1, <2>2 DEF InTheAir, Idle
  <2>6. ASSUME NEW r \in Receivers PROVE InOrder(r)'
    <3>1. InOrder(r) /\ Got(r)' = Got(r) /\ ring'[r] = ring[r] /\ handed'[r] = handed[r]
      BY <1>2 DEF IInv, Got
    <3>2. ASSUME NEW x \in Got(r), NEW e \in Dests, NEW i \in DOMAIN queue[e]
          PROVE  MayFollow(frames, x, queue[e][i])
      <4>1. MayFollow(frames, x, queue[e][i]) \/ x = id
        BY <1>4, <3>1 DEF InOrder
      <4>2. frames[queue[e][i]].to = e /\ (e = d => id <= queue[e][i])
        <5>1. queue[e][1] \in Nat /\ queue[e][i] \in Nat /\ i \in Nat /\ i >= 1
          BY <1>1, TypeFacts DEF Queued, Ids
        <5> QED BY <1>1, <1>4, <5>1 DEF Queued
      <4> QED BY <1>4, <2>2, <4>1, <4>2 DEF MayFollow
    <3> QED BY <1>2, <2>1, <3>1, <3>2 DEF InOrder
  <2>7. AckIsKept'
    <3>1. /\ \A i \in DOMAIN dequeued : dequeued[i].id \in DOMAIN frames
          /\ \A i \in DOMAIN dequeued :
               dequeued[i].ret = "ok" /\ frames[dequeued[i].id].to # Bcast => Kept(dequeued[i].id)
          /\ \A i \in DOMAIN frames : status[i] = "ok" /\ frames[i].to # Bcast => Kept(i)
      BY <1>1 DEF AckIsKept
    <3> QED BY <1>2, <1>9, <2>1, <3>1 DEF AckIsKept, Idle
  <2> QED BY <1>10, <1>11, <2>3, <2>4, <2>5, <2>6, <2>7 DEF IInv
<1> QED BY <1>12, <1>13

(* A report says of a frame what the ring says of it.                      *)
LEMMA ReportStep ==
  ASSUME IInv, Report
  PROVE  IInv'
<1> DEFINE Entries == [id : Ids, ret : {"ok", "noack"}]
<1>1. TypeOK /\ Numbered /\ Queued /\ InTheAir /\ AckIsKept
  BY DEF IInv
<1>2. /\ dequeued # <<>>
      /\ status' = [status EXCEPT ![Head(dequeued).id] = Head(dequeued).ret]
      /\ dequeued' = Tail(dequeued)
      /\ UNCHANGED <<seqno, given, boots, frames, queue, tries, air, ring, last, handed>>
  BY DEF Report, sender
<1>3. dequeued \in Seq(Entries)
  BY <1>1 DEF TypeOK
<1>4. PICK e \in Entries : e = Head(dequeued) /\ e = dequeued[1] /\ 1 \in DOMAIN dequeued
  BY <1>2, <1>3, HeadTaken
<1>5. /\ dequeued' \in Seq(Entries) /\ Len(dequeued') = Len(dequeued) - 1
      /\ DOMAIN dequeued' = 1 .. Len(dequeued) - 1
      /\ \A i \in DOMAIN dequeued' : i + 1 \in DOMAIN dequeued /\ dequeued'[i] = dequeued[i + 1]
  BY <1>2, <1>3, HeadTaken
<1>6. e.id \in DOMAIN frames /\ e.ret \in {"ok", "noack"}
  BY <1>1, <1>4 DEF AckIsKept
<1>7. /\ status' \in Seq(Finished \cup {"queued"}) /\ Len(status') = Len(status)
      /\ \A i \in DOMAIN status : status'[i] = IF i = e.id THEN e.ret ELSE status[i]
  <2>1. status \in Seq(Finished \cup {"queued"}) /\ DOMAIN status = 1 .. Len(status) /\ e.id \in 1 .. Len(status)
    BY <1>1, <1>6, Places, TypeFacts DEF TypeOK
  <2>2. e.ret \in Finished \cup {"queued"}
    BY <1>6 DEF Finished
  <2>3. status' = [status EXCEPT ![e.id] = e.ret]
    BY <1>2, <1>4
  <2> QED BY <2>1, <2>2, <2>3, ExceptSeq
<1>8. TypeOK'
  <2>1. Len(dequeued') <= DequeuedRoom
    <3>1. Len(dequeued) <= DequeuedRoom /\ Len(dequeued) \in Nat /\ DequeuedRoom \in Nat
      BY <1>1, TypeFacts, LinkAssumption DEF TypeOK
    <3> QED BY <1>5, <3>1
  <2> QED BY <1>1, <1>2, <1>5, <1>7, <2>1 DEF TypeOK
<1>9. Numbered' /\ Queued'
  BY <1>1, <1>2 DEF Numbered, Queued
<1>10. InTheAir'
  <2>1. air # Idle => Len(dequeued') < DequeuedRoom
    <3>1. Len(dequeued) \in Nat /\ DequeuedRoom \in Nat
      BY <1>1, TypeFacts, LinkAssumption
    <3> QED BY <1>1, <1>5, <3>1 DEF InTheAir
  <2>2. /\ air # Idle => queue[air.to] # <<>> /\ air.id = Head(queue[air.to])
        /\ \A r \in air.heard : air.to \in {r, Bcast}
        /\ \A d \in Dests : tries[d] <= Retries \/ (air # Idle /\ d = air.to)
    BY <1>1 DEF InTheAir
  <2>3. air' = air /\ queue' = queue /\ tries' = tries
    BY <1>2
  <2> QED BY <2>1, <2>2, <2>3, Zenon DEF InTheAir
<1>11. ASSUME NEW r \in Receivers PROVE InOrder(r)' /\ Latest(r)' /\ IsInjective(handed'[r])
  <2>1. InOrder(r) /\ Latest(r) /\ IsInjective(handed[r])
    BY DEF IInv
  <2>2. Got(r)' = Got(r)
    BY <1>2 DEF Got
  <2> QED BY <1>2, <2>1, <2>2 DEF InOrder, Latest
<1>12. AckIsKept'
  <2>1. \A i : Kept(i)' = Kept(i)
    BY <1>2 DEF Kept, Has, Alike
  <2>2. /\ \A i \in DOMAIN dequeued : dequeued[i].id \in DOMAIN frames
        /\ \A i \in DOMAIN dequeued :
             dequeued[i].ret = "ok" /\ frames[dequeued[i].id].to # Bcast => Kept(dequeued[i].id)
        /\ \A i \in DOMAIN frames : status[i] = "ok" /\ frames[i].to # Bcast => Kept(i)
        /\ air # Idle /\ air.to \in air.heard => Kept(air.id)
    BY <1>1 DEF AckIsKept
  <2>3. ASSUME NEW i \in DOMAIN dequeued'
        PROVE  /\ dequeued'[i].id \in DOMAIN frames
               /\ dequeued'[i].ret = "ok" /\ frames[dequeued'[i].id].to # Bcast => Kept(dequeued'[i].id)
    BY <1>5, <2>2
  <2>4. ASSUME NEW i \in DOMAIN dequeued', dequeued'[i].ret = "ok", frames[dequeued'[i].id].to # Bcast
        PROVE  Kept(dequeued[i].id)'
    <3>1. PICK j \in DOMAIN frames : j = dequeued'[i].id
      BY <2>3
    <3>2. Kept(j)'
      BY <2>1, <2>3, <2>4, <3>1
    <3> QED BY <3>1, <3>2 DEF Kept, Has, Alike
  <2>5. ASSUME NEW i \in DOMAIN frames, status'[i] = "ok", frames[i].to # Bcast PROVE Kept(i)'
    <3>1. CASE i = e.id
      BY <1>1, <1>4, <1>7, <2>1, <2>2, <2>5, <3>1, TypeFacts
    <3>2. CASE i # e.id
      BY <1>1, <1>7, <2>1, <2>2, <2>5, <3>2, TypeFacts
    <3> QED BY <3>1, <3>2
  <2>6. air # Idle /\ air.to \in air.heard => Kept(air.id)'
    BY <1>2, <2>1, <2>2 DEF Kept, Has, Alike
  <2> QED BY <1>2, <2>3, <2>4, <2>5, <2>6 DEF AckIsKept
<1> QED BY <1>8, <1>9, <1>10, <1>11, <1>12 DEF IInv

(* A restart takes nothing from the receivers, and what they know of       *)
(* numbers is theirs.                                                      *)
LEMMA RestartStep ==
  ASSUME IInv, Restart
  PROVE  IInv'
<1>1. TypeOK /\ Numbered /\ Queued /\ InTheAir /\ AckIsKept
  BY DEF IInv
<1>2. /\ boots < MaxRestarts /\ air = Idle /\ boots' = boots + 1 /\ seqno' = 0 /\ given' = 0
      /\ status' = [i \in DOMAIN status |-> IF status[i] = "queued" THEN "lost" ELSE status[i]]
      /\ queue' = [d \in Dests |-> <<>>] /\ tries' = [d \in Dests |-> 0] /\ dequeued' = <<>>
      /\ UNCHANGED <<frames, air, ring, last, handed>>
  BY DEF Restart
<1>3. status' \in Seq(Finished \cup {"queued"}) /\ Len(status') = Len(status) /\ DOMAIN status' = DOMAIN status
  <2> DEFINE n == Len(status)
             Known == Finished \cup {"queued"}
  <2>1. n \in Nat /\ DOMAIN status = 1 .. n /\ \A i \in 1 .. n : status[i] \in Known
    BY <1>1, Places DEF TypeOK
  <2>2. \A i \in 1 .. n : (IF status[i] = "queued" THEN "lost" ELSE status[i]) \in Known
    BY <2>1 DEF Finished
  <2>3. status' \in [1 .. n -> Known]
    <3> HIDE DEF n, Known
    <3> QED BY <1>2, <2>1, <2>2
  <2>4. status' \in Seq(Known)
    <3> HIDE DEF n, Known
    <3> QED BY <2>1, <2>3, SeqDef
  <2> QED BY <2>1, <2>3, <2>4, LenProperties
<1>4. TypeOK'
  <2>1. queue' \in [Dests -> Seq(Ids)] /\ \A d \in Dests : Len(queue'[d]) <= QueueCap
    BY <1>2, EmptySeq, LinkAssumption
  <2>2. tries' \in [Dests -> 0 .. Retries + 1]
    BY <1>2, LinkAssumption
  <2>3. dequeued' \in Seq([id : Ids, ret : {"ok", "noack"}]) /\ Len(dequeued') <= DequeuedRoom
    BY <1>2, EmptySeq, LinkAssumption
  <2>4. seqno' \in 0 .. SeqMax /\ given' \in 0 .. Len(frames) /\ boots' \in 0 .. MaxRestarts
    BY <1>1, <1>2, TypeFacts, LinkAssumption DEF TypeOK
  <2> QED BY <1>1, <1>2, <1>3, <2>1, <2>2, <2>3, <2>4 DEF TypeOK
<1>5. Numbered'
  <2>1. given' = 0 * SeqMax + seqno'
    BY <1>2, LinkAssumption
  <2> QED BY <1>1, <1>2, <2>1 DEF Numbered
<1>6. Queued' /\ InTheAir'
  BY <1>2, LinkAssumption DEF Queued, InTheAir, Idle
<1>7. ASSUME NEW r \in Receivers PROVE InOrder(r)' /\ Latest(r)' /\ IsInjective(handed'[r])
  <2>1. InOrder(r) /\ Latest(r) /\ IsInjective(handed[r])
    BY DEF IInv
  <2>2. \A d \in Dests : DOMAIN queue'[d] = {}
    BY <1>2
  <2>3. Got(r)' = Got(r)
    BY <1>2 DEF Got
  <2> QED BY <1>2, <2>1, <2>2, <2>3 DEF InOrder, Latest
<1>8. AckIsKept'
  <2>1. \A i : Kept(i)' = Kept(i)
    BY <1>2 DEF Kept, Has, Alike
  <2>2. \A i \in DOMAIN frames : status'[i] = "ok" => status[i] = "ok"
    BY <1>1, <1>2, TypeFacts
  <2>3. DOMAIN dequeued' = {}
    BY <1>2
  <2> QED BY <1>1, <1>2, <2>1, <2>2, <2>3 DEF AckIsKept, Idle
<1> QED BY <1>4, <1>5, <1>6, <1>7, <1>8 DEF IInv

(* What comes out of a ring is a copy of what was handed up last, which    *)
(* the number tells, or may follow it.                                     *)
LEMMA PacketInputStep ==
  ASSUME IInv, NEW r \in Receivers, PacketInput(r)
  PROVE  IInv'
<1>1. TypeOK /\ Numbered /\ Queued /\ InTheAir /\ AckIsKept /\ InOrder(r) /\ Latest(r) /\ IsInjective(handed[r])
  BY DEF IInv
<1>2. /\ ring[r] # <<>> /\ ring' = [ring EXCEPT ![r] = Tail(@)]
      /\ UNCHANGED <<seqno, given, boots, frames, queue, tries, status, air, dequeued>>
  BY DEF PacketInput, sender
<1>3. /\ ring \in [Receivers -> Seq(Ids)] /\ handed \in [Receivers -> Seq(Ids)] /\ last \in [Receivers -> 0 .. SeqMax]
      /\ ring[r] \in Seq(Ids) /\ handed[r] \in Seq(Ids)
      /\ Len(handed[r]) \in Nat /\ DOMAIN handed[r] = 1 .. Len(handed[r])
      /\ Len(ring[r]) \in Nat /\ DOMAIN ring[r] = 1 .. Len(ring[r])
  BY <1>1, TypeFacts DEF TypeOK
<1>4. PICK id \in Ids : id = Head(ring[r]) /\ id = ring[r][1] /\ 1 \in DOMAIN ring[r]
  BY <1>2, <1>3, HeadTaken
<1>5. /\ ring'[r] \in Seq(Ids) /\ Len(ring'[r]) = Len(ring[r]) - 1
      /\ DOMAIN ring'[r] = 1 .. Len(ring[r]) - 1
      /\ \A i \in DOMAIN ring'[r] : i + 1 \in DOMAIN ring[r] /\ ring'[r][i] = ring[r][i + 1]
  <2>1. ring'[r] = Tail(ring[r])
    BY <1>2, <1>3
  <2> QED BY <1>2, <1>3, <2>1, HeadTaken
<1>6. \A q \in Receivers : q # r => ring'[q] = ring[q]
  BY <1>2, <1>3
<1>7. id \in Got(r) /\ id \in DOMAIN frames /\ frames[id].to \in {r, Bcast}
  BY <1>1, <1>4 DEF InOrder, Got
<1>8. ring' \in [Receivers -> Seq(Ids)] /\ \A q \in Receivers : Len(ring'[q]) <= InputRoom
  <2>1. ring' \in [Receivers -> Seq(Ids)]
    BY <1>2, <1>3, <1>5, <1>6
  <2>2. \A q \in Receivers : Len(ring[q]) <= InputRoom
    BY <1>1 DEF TypeOK
  <2>3. Len(ring'[r]) <= InputRoom
    <3>1. PICK m \in Nat : m = Len(ring[r]) /\ m <= InputRoom /\ Len(ring'[r]) = m - 1 /\ InputRoom \in Nat
      BY <1>3, <1>5, <2>2, LinkAssumption
    <3> QED BY <3>1
  <2> QED BY <1>6, <2>1, <2>2, <2>3
<1>9. Numbered' /\ Queued'
  BY <1>1, <1>2 DEF Numbered, Queued
<1>10. InTheAir'
  <2>1. air' = air /\ queue' = queue /\ tries' = tries /\ dequeued' = dequeued
    BY <1>2
  <2> QED BY <1>1, <2>1, Zenon DEF InTheAir
<1>11. PICK m \in Nat : /\ Len(ring[r]) = m /\ DOMAIN ring[r] = 1 .. m
                       /\ Len(ring'[r]) = m - 1 /\ DOMAIN ring'[r] = 1 .. m - 1
                       /\ \A i \in 1 .. m - 1 : ring'[r][i] = ring[r][i + 1]
  <2> DEFINE m == Len(ring[r])
  <2>1. m \in Nat /\ DOMAIN ring[r] = 1 .. m /\ Len(ring'[r]) = m - 1 /\ DOMAIN ring'[r] = 1 .. m - 1
    BY <1>3, <1>5, Zenon
  <2>2. \A i \in 1 .. m - 1 : ring'[r][i] = ring[r][i + 1]
    BY <1>5, <2>1, Zenon
  <2> QED BY <2>1, <2>2, Zenon
<1>12. \A x : Contains(ring[r], x) /\ x # id => Contains(ring'[r], x)
  <2> SUFFICES ASSUME NEW x, NEW k \in 1 .. m, ring[r][k] = x, x # id
               PROVE  Contains(ring'[r], x)
    BY <1>11 DEF Contains
  <2>1. k # 1
    BY <1>4
  <2>2. k - 1 \in 1 .. m - 1 /\ k - 1 + 1 = k
    BY <2>1
  <2>3. ring'[r][k - 1] = x
    BY <1>11, <2>2
  <2> QED BY <1>11, <2>2, <2>3 DEF Contains
<1>13. /\ \A i \in DOMAIN handed[r] : MayFollow(frames, handed[r][i], id) /\ handed[r][i] \in Nat
       /\ id \in Nat
  <2>1. \A i \in DOMAIN handed[r] : handed[r][i] \in Ids
    BY <1>3, Places
  <2>2. Ids \subseteq Nat
    BY DEF Ids
  <2>3. \A i \in DOMAIN handed[r] : MayFollow(frames, handed[r][i], ring[r][1])
    BY <1>1, <1>4 DEF InOrder
  <2> QED BY <1>4, <2>1, <2>2, <2>3
<1>14. \A i \in DOMAIN ring'[r] : MayFollow(frames, id, ring'[r][i])
  <2> SUFFICES ASSUME NEW i \in DOMAIN ring'[r] PROVE MayFollow(frames, id, ring'[r][i])
    OBVIOUS
  <2>1. 1 < i + 1 /\ i + 1 \in DOMAIN ring[r] /\ ring'[r][i] = ring[r][i + 1]
    BY <1>11
  <2> QED BY <1>1, <1>4, <2>1 DEF InOrder
<1>15. \A i, j \in DOMAIN ring'[r] : i < j => MayFollow(frames, ring'[r][i], ring'[r][j])
  <2> SUFFICES ASSUME NEW i \in DOMAIN ring'[r], NEW j \in DOMAIN ring'[r], i < j
               PROVE  MayFollow(frames, ring'[r][i], ring'[r][j])
    OBVIOUS
  <2>1. i + 1 < j + 1 /\ i + 1 \in DOMAIN ring[r] /\ j + 1 \in DOMAIN ring[r]
    BY <1>11
  <2> QED BY <1>1, <1>5, <2>1 DEF InOrder
<1>16. frames[id].to # Bcast => frames[id].to = r /\ frames[id].num \in 1 .. SeqMax /\ frames[id].num # NoNumber
  BY <1>1, <1>7, TypeFacts DEF Numbered
(* The frame is dropped or handed up; either way r has it or one alike.    *)
<1> DEFINE Taken == /\ handed' \in [Receivers -> Seq(Ids)] /\ last' \in [Receivers -> 0 .. SeqMax]
                    /\ \A q \in Receivers : q # r => handed'[q] = handed[q] /\ last'[q] = last[q]
                    /\ \A x : Contains(handed[r], x) => Contains(handed'[r], x)
                    /\ InOrder(r)' /\ Latest(r)' /\ IsInjective(handed'[r])
                    /\ frames[id].to # Bcast => Kept(id)'
<1>17. ASSUME Duplicate(r, id) PROVE Taken
  <2>1. UNCHANGED <<last, handed>>
    BY <1>4, <1>17 DEF PacketInput
  <2>2. InOrder(r)'
    <3>1. Got(r)' \subseteq Got(r)
      BY <1>5, <2>1 DEF Got
    <3>2. \A i \in DOMAIN handed[r], j \in DOMAIN ring'[r] : MayFollow(frames, handed[r][i], ring'[r][j])
      BY <1>1, <1>5 DEF InOrder
    <3>3. /\ \A x \in Got(r) : x \in DOMAIN frames /\ frames[x].to \in {r, Bcast}
          /\ \A i, j \in DOMAIN handed[r] : i < j => MayFollow(frames, handed[r][i], handed[r][j])
          /\ \A x \in Got(r), d \in Dests : \A i \in DOMAIN queue[d] :
               MayFollow(frames, x, queue[d][i]) \/ (air # Idle /\ x = air.id)
      BY <1>1 DEF InOrder
    <3> QED BY <1>2, <1>15, <2>1, <3>1, <3>2, <3>3 DEF InOrder
  <2>3. Latest(r)'
    BY <1>1, <1>2, <2>1 DEF Latest
  <2>4. frames[id].to # Bcast => Kept(id)'
    <3> SUFFICES ASSUME frames[id].to # Bcast PROVE Kept(id)'
      OBVIOUS
    <3>1. last[r] # 0 /\ frames[id].num = last[r]
      BY <1>16, <1>17 DEF Duplicate
    <3>2. PICK i \in DOMAIN handed[r] : frames[handed[r][i]].to = r /\ frames[handed[r][i]].num = last[r]
      BY <1>1, <3>1 DEF Latest
    <3>3. PICK j \in Ids : j = handed[r][i]
      BY <1>3, Places
    <3>4. Contains(handed'[r], j) /\ j <= id /\ j \in DOMAIN frames
      <4>1. j \in Got(r)
        BY <3>2, <3>3 DEF Got
      <4>2. frames[j].to = frames[id].to /\ MayFollow(frames, j, id)
        BY <1>13, <1>16, <3>2, <3>3
      <4> QED BY <1>1, <1>3, <2>1, <3>2, <3>3, <4>1, <4>2 DEF InOrder, MayFollow, Contains
    <3>5. CASE j = id
      BY <1>2, <1>16, <3>4, <3>5 DEF Kept, Has
    <3>6. CASE j # id
      <4>1. j \in 1 .. id - 1
        BY <3>3, <3>4, <3>6, <1>13 DEF Ids
      <4>2. (frames[id].turn - frames[j].turn) % SeqMax = 0
        <5>1. PICK k \in Nat : frames[id].turn + 1 = k * SeqMax + frames[id].num
          BY <1>1, <1>7 DEF Numbered
        <5>2. PICK l \in Nat : frames[j].turn + 1 = l * SeqMax + frames[id].num
          <6>1. frames[j].to # Bcast
            BY <3>2, <3>3, LinkAssumption
          <6> QED BY <1>1, <3>1, <3>2, <3>3, <3>4, <6>1 DEF Numbered
        <5>3. /\ frames[id].turn \in Int /\ frames[j].turn \in Int /\ frames[id].num \in Int
              /\ SeqMax \in Nat \ {0}
          <6>1. frames[id].turn \in Nat /\ frames[j].turn \in Nat
            BY <1>1, <1>7, <3>4, TypeFacts
          <6>2. SeqMax \in Nat \ {0} /\ frames[id].num \in 1 .. SeqMax
            BY <1>16, LinkAssumption
          <6> QED BY <6>1, <6>2
        <5>4. frames[id].turn - frames[j].turn = (k - l) * SeqMax + 0
          BY <5>1, <5>2, <5>3
        <5>5. k - l \in Int /\ 0 \in 0 .. SeqMax - 1 /\ frames[id].turn - frames[j].turn \in Int
          BY <5>3
        <5> QED BY <5>3, <5>4, <5>5, Remainder
      <4>3. Alike(id, j)'
        BY <1>2, <4>2 DEF Alike
      <4>4. frames'[id].to = r /\ frames'[j].to = r /\ Contains(handed'[r], j)
        BY <1>2, <1>16, <3>2, <3>3, <3>4
      <4>5. \E k \in 1 .. id - 1 : frames'[k].to = r /\ Contains(handed'[r], k) /\ Alike(id, k)'
        BY <4>1, <4>3, <4>4, Zenon
      <4> QED BY <4>4, <4>5, Zenon DEF Kept
    <3> QED BY <3>5, <3>6
  <2> QED BY <1>1, <1>3, <2>1, <2>2, <2>3, <2>4
<1>18. ASSUME ~ Duplicate(r, id) PROVE Taken
  <2> DEFINE n == Len(handed[r])
  <2>1. /\ last' = [last EXCEPT ![r] = Registered(r, id)]
        /\ handed' = [handed EXCEPT ![r] = Append(@, id)]
    BY <1>4, <1>18 DEF PacketInput
  <2>2. /\ handed'[r] \in Seq(Ids) /\ Len(handed'[r]) = n + 1 /\ DOMAIN handed'[r] = 1 .. n + 1
        /\ \A i \in DOMAIN handed[r] : handed'[r][i] = handed[r][i]
        /\ handed'[r][n + 1] = id
    <3>1. handed'[r] = Append(handed[r], id)
      BY <1>3, <2>1
    <3> QED BY <1>3, <3>1, Appended
  <2>3. n \in Nat /\ DOMAIN handed[r] = 1 .. n
    BY <1>3
  <2> HIDE DEF n
  <2>4. last' \in [Receivers -> 0 .. SeqMax] /\ last'[r] = Registered(r, id)
    <3>1. Registered(r, id) \in 0 .. SeqMax
      <4>1. frames[id].num \in (1 .. SeqMax) \cup {NoNumber} /\ last[r] \in 0 .. SeqMax /\ SeqMax \in Nat
        BY <1>1, <1>3, <1>7, TypeFacts, LinkAssumption
      <4> QED BY <4>1 DEF Registered
    <3> QED BY <1>3, <2>1, <3>1
  <2>5. handed' \in [Receivers -> Seq(Ids)]
    BY <1>3, <2>1, <2>2
  <2>6. \A q \in Receivers : q # r => handed'[q] = handed[q] /\ last'[q] = last[q]
    BY <1>3, <2>1
  <2>7. \A x : Contains(handed[r], x) => Contains(handed'[r], x)
    <3>1. \A i \in 1 .. n : i \in 1 .. n + 1
      BY <2>3
    <3> QED BY <1>3, <2>2, <2>3, <3>1 DEF Contains
  <2>8. \A i \in DOMAIN handed'[r] : i \in DOMAIN handed[r] \/ i = n + 1
    BY <2>2, <2>3
  <2>9. InOrder(r)'
    <3>1. Got(r)' \subseteq Got(r)
      BY <1>5, <1>7, <2>2, <2>8 DEF Got
    <3>2. ASSUME NEW i \in DOMAIN handed'[r], NEW j \in DOMAIN handed'[r], i < j
          PROVE  MayFollow(frames, handed'[r][i], handed'[r][j])
      <4>1. i \in DOMAIN handed[r] /\ handed'[r][i] = handed[r][i]
        BY <2>2, <2>3, <3>2
      <4>2. CASE j \in DOMAIN handed[r]
        BY <1>1, <2>2, <3>2, <4>1, <4>2 DEF InOrder
      <4>3. CASE j = n + 1
        BY <1>13, <2>2, <4>1, <4>3
      <4> QED BY <2>8, <4>2, <4>3
    <3>3. ASSUME NEW i \in DOMAIN handed'[r], NEW j \in DOMAIN ring'[r]
          PROVE  MayFollow(frames, handed'[r][i], ring'[r][j])
      <4>1. CASE i \in DOMAIN handed[r]
        BY <1>1, <1>5, <2>2, <4>1 DEF InOrder
      <4>2. CASE i = n + 1
        BY <1>14, <2>2, <4>2
      <4> QED BY <2>8, <4>1, <4>2
    <3>4. /\ \A x \in Got(r) : x \in DOMAIN frames /\ frames[x].to \in {r, Bcast}
          /\ \A x \in Got(r), d \in Dests : \A i \in DOMAIN queue[d] :
               MayFollow(frames, x, queue[d][i]) \/ (air # Idle /\ x = air.id)
      BY <1>1 DEF InOrder
    <3> QED BY <1>2, <1>15, <3>1, <3>2, <3>3, <3>4 DEF InOrder
  <2>10. \A i \in DOMAIN handed[r] : handed[r][i] # id
    <3> SUFFICES ASSUME NEW i \in DOMAIN handed[r], handed[r][i] = id PROVE FALSE
      OBVIOUS
    <3>1. frames[id].to = r /\ frames[id].to # Bcast
      BY <1>13, <1>7, LinkAssumption DEF MayFollow
    <3>2. PICK j \in DOMAIN handed[r] :
            frames[handed[r][j]].to = r /\ frames[handed[r][j]].num = last[r] /\ id <= handed[r][j]
      BY <1>1, <3>1 DEF Latest
    <3>3. handed[r][j] <= id /\ handed[r][j] \in Nat
      BY <1>13, <3>1, <3>2 DEF MayFollow
    <3>4. handed[r][j] = id
      BY <1>13, <3>2, <3>3
    <3> QED BY <1>16, <1>18, <3>1, <3>2, <3>4 DEF Duplicate
  <2>11. IsInjective(handed'[r])
    <3> SUFFICES ASSUME NEW i \in DOMAIN handed'[r], NEW j \in DOMAIN handed'[r], handed'[r][i] = handed'[r][j]
                 PROVE  i = j
      BY DEF IsInjective
    <3>1. CASE i \in DOMAIN handed[r] /\ j \in DOMAIN handed[r]
      BY <1>1, <2>2, <3>1 DEF IsInjective
    <3> QED BY <2>2, <2>8, <2>10, <3>1
  <2>12. Latest(r)'
    <3>1. CASE frames[id].to = Bcast
      <4>1. last'[r] = last[r]
        BY <1>1, <1>7, <2>4, <3>1 DEF Registered, Numbered
      <4>2. \A i \in DOMAIN handed'[r] :
              frames[handed'[r][i]].to = r => i \in DOMAIN handed[r] /\ handed'[r][i] = handed[r][i]
        BY <2>2, <2>8, <3>1, LinkAssumption
      <4>3. \A i \in DOMAIN handed[r] : i \in DOMAIN handed'[r] /\ handed'[r][i] = handed[r][i]
        BY <2>2, <2>3
      <4> QED BY <1>1, <1>2, <4>1, <4>2, <4>3 DEF Latest
    <3>2. CASE frames[id].to # Bcast
      <4>1. last'[r] = frames[id].num /\ last'[r] # 0 /\ frames[id].to = r
        BY <1>16, <2>4, <3>2 DEF Registered
      <4>2. n + 1 \in DOMAIN handed'[r] /\ handed'[r][n + 1] = id
        BY <2>2, <2>3
      <4>3. \A i \in DOMAIN handed'[r] : frames[handed'[r][i]].to = r => handed'[r][i] <= id
        BY <1>13, <2>2, <2>8, <3>2, <4>1 DEF MayFollow
      <4> QED BY <1>2, <4>1, <4>2, <4>3 DEF Latest
    <3> QED BY <3>1, <3>2
  <2>13. ASSUME frames[id].to # Bcast PROVE Kept(id)'
    <3>1. Contains(handed'[r], id)
      <4>1. n + 1 \in 1 .. Len(handed'[r])
        BY <2>2, <2>3
      <4> QED BY <2>2, <4>1 DEF Contains
    <3>2. frames'[id].to = r
      BY <1>2, <1>16, <2>13
    <3>3. Has(r, id)'
      BY <3>1, Zenon DEF Has
    <3> QED BY <3>2, <3>3, Zenon DEF Kept
  <2> QED BY <2>4, <2>5, <2>6, <2>7, <2>9, <2>11, <2>12, <2>13
<1>19. Taken
  BY <1>17, <1>18
<1>20. ASSUME NEW q \in Receivers PROVE InOrder(q)' /\ Latest(q)' /\ IsInjective(handed'[q])
  <2>1. CASE q = r
    BY <1>19, <2>1
  <2>2. CASE q # r
    <3>1. handed'[q] = handed[q] /\ last'[q] = last[q] /\ ring'[q] = ring[q]
      BY <1>6, <1>19, <2>2
    <3>2. Got(q)' = Got(q)
      BY <3>1 DEF Got
    <3>3. InOrder(q) /\ Latest(q) /\ IsInjective(handed[q])
      BY DEF IInv
    <3> QED BY <1>2, <3>1, <3>2, <3>3 DEF InOrder, Latest
  <2> QED BY <2>1, <2>2
<1>21. \A x \in DOMAIN frames : frames[x].to # Bcast /\ Kept(x) => Kept(x)'
  <2> SUFFICES ASSUME NEW x \in DOMAIN frames, frames[x].to # Bcast, Kept(x) PROVE Kept(x)'
    OBVIOUS
  <2>1. CASE x = id
    BY <1>19, <2>1
  <2>2. CASE x # id
    <3>1. \A q \in Receivers, y \in Ids : Contains(handed[q], y) => Contains(handed'[q], y)
      BY <1>19
    <3>2. \A q \in Receivers : Has(q, x) => Has(q, x)'
      BY <1>6, <1>19, <1>12, <2>2 DEF Has
    <3> QED BY <1>1, <1>2, <3>1, <3>2, KeptStays
  <2> QED BY <2>1, <2>2
<1>22. AckIsKept'
  <2>1. air' = air /\ dequeued' = dequeued /\ status' = status /\ frames' = frames
    BY <1>2
  <2>2. air # Idle /\ air.to \in air.heard => Kept(air.id)'
    <3> SUFFICES ASSUME air # Idle, air.to \in air.heard PROVE Kept(air.id)'
      OBVIOUS
    <3>1. PICK x \in DOMAIN frames : x = air.id /\ frames[x].to # Bcast
      BY <1>1, AirIsHead, LinkAssumption
    <3>2. Kept(x)'
      BY <1>1, <1>21, <3>1 DEF AckIsKept
    <3> QED BY <2>1, <3>1, <3>2 DEF Kept, Has, Alike
  <2>3. /\ \A i \in DOMAIN dequeued : dequeued[i].id \in DOMAIN frames
        /\ \A i \in DOMAIN dequeued :
             dequeued[i].ret = "ok" /\ frames[dequeued[i].id].to # Bcast => Kept(dequeued[i].id)
        /\ \A x \in DOMAIN frames : status[x] = "ok" /\ frames[x].to # Bcast => Kept(x)
    BY <1>1 DEF AckIsKept
  <2>4. ASSUME NEW i \in DOMAIN dequeued, dequeued[i].ret = "ok", frames[dequeued[i].id].to # Bcast
        PROVE  Kept(dequeued[i].id)'
    <3>1. PICK x \in DOMAIN frames : x = dequeued[i].id
      BY <2>3
    <3>2. Kept(x)'
      BY <1>21, <2>3, <2>4, <3>1
    <3> QED BY <2>1, <3>1, <3>2 DEF Kept, Has, Alike
  <2>5. \A x \in DOMAIN frames : status[x] = "ok" /\ frames[x].to # Bcast => Kept(x)'
    BY <1>21, <2>3
  <2> QED BY <2>1, <2>2, <2>3, <2>4, <2>5 DEF AckIsKept
<1>23. TypeOK'
  <2> USE DEF Taken
  <2> QED BY <1>1, <1>2, <1>8, <1>19 DEF TypeOK
<1> QED BY <1>9, <1>10, <1>20, <1>22, <1>23 DEF IInv

(* A frame handed over comes after all others, with the next number.       *)
LEMMA SendStep ==
  ASSUME IInv, NEW d \in Dests, Send(d)
  PROVE  IInv'
<1>1. TypeOK /\ Numbered /\ Queued /\ InTheAir /\ AckIsKept
  BY DEF IInv
<1>2. PICK f : /\ f = [to |-> d, num |-> Num(d), turn |-> given, boot |-> boots]
               /\ frames' = Append(frames, f)
  BY DEF Send
<1>3. /\ Len(frames) < MaxFrames
      /\ IF d = Bcast THEN UNCHANGED <<seqno, given>> ELSE seqno' = NextSeqno /\ given' = given + 1
      /\ UNCHANGED <<boots, tries, air, dequeued, ring, last, handed>>
  BY DEF Send
<1>4. PICK st \in {"queued", "err"} : status' = Append(status, st)
  BY DEF Send
<1>5. NextSeqno \in 1 .. SeqMax /\ Num(d) \in (1 .. SeqMax) \cup {NoNumber} /\ (d # Bcast => Num(d) = NextSeqno)
  <2>1. seqno \in 0 .. SeqMax /\ SeqMax \in Nat \ {0}
    BY <1>1, LinkAssumption DEF TypeOK
  <2>2. NextSeqno \in 1 .. SeqMax
    BY <2>1 DEF NextSeqno
  <2> QED BY <2>2 DEF Num
<1>6. PICK n \in Nat : n = Len(frames) /\ DOMAIN frames = 1 .. n /\ n < MaxFrames /\ n + 1 \in Ids
  <2>1. Len(frames) \in Nat /\ DOMAIN frames = 1 .. Len(frames)
    BY <1>1, TypeFacts, Zenon
  <2>2. MaxFrames \in Nat
    BY LinkAssumption
  <2>3. Len(frames) + 1 \in Ids
    BY <1>3, <2>1, <2>2 DEF Ids
  <2> QED BY <1>3, <2>1, <2>3, Zenon
<1>7. given \in 0 .. n /\ given \in 0 .. MaxFrames /\ given + 1 \in 0 .. n + 1
  BY <1>1, <1>6, LinkAssumption DEF TypeOK
<1> DEFINE Frame == [to : Dests, num : (1 .. SeqMax) \cup {NoNumber}, turn : 0 .. MaxFrames, boot : 0 .. MaxRestarts]
<1>8. /\ frames' \in Seq(Frame) /\ Len(frames') = n + 1 /\ DOMAIN frames' = 1 .. n + 1
      /\ \A i \in DOMAIN frames : frames'[i] = frames[i]
      /\ frames'[n + 1] = f
  <2>1. f \in Frame
    BY <1>1, <1>2, <1>5, <1>7 DEF TypeOK
  <2>2. frames \in Seq(Frame)
    BY <1>1 DEF TypeOK
  <2> HIDE DEF Frame
  <2> QED BY <1>2, <1>6, <2>1, <2>2, Appended
<1>9. /\ status' \in Seq(Finished \cup {"queued"}) /\ Len(status') = n + 1
      /\ \A i \in DOMAIN frames : status'[i] = status[i]
      /\ status'[n + 1] = st
  <2>1. status \in Seq(Finished \cup {"queued"}) /\ Len(status) = n /\ DOMAIN status = DOMAIN frames
    BY <1>1, <1>6, TypeFacts DEF TypeOK
  <2>2. st \in Finished \cup {"queued"}
    BY DEF Finished
  <2> QED BY <1>4, <2>1, <2>2, Appended
<1>10. \A i \in DOMAIN frames : i \in DOMAIN frames' /\ i \in Nat /\ i < n + 1
  BY <1>6, <1>8
<1>11. \A i \in DOMAIN frames' : i \in DOMAIN frames \/ i = n + 1
  BY <1>6, <1>8
(* The queue has the frame last, or is as it was.                          *)
<1>12. ASSUME NEW e \in Dests
       PROVE  /\ queue'[e] \in Seq(Ids) /\ Len(queue'[e]) <= QueueCap
              /\ \A i \in DOMAIN queue[e] : i \in DOMAIN queue'[e] /\ queue'[e][i] = queue[e][i]
              /\ \A i \in DOMAIN queue'[e] : \/ i \in DOMAIN queue[e]
                                             \/ /\ e = d /\ queue'[e][i] = n + 1
                                                /\ \A j \in DOMAIN queue'[e] : i < j => FALSE
  <2>1. queue \in [Dests -> Seq(Ids)] /\ queue[e] \in Seq(Ids) /\ Len(queue[e]) <= QueueCap
    BY <1>1 DEF TypeOK
  <2>2. CASE queue'[e] = queue[e]
    BY <2>1, <2>2
  <2>3. CASE queue'[e] # queue[e]
    <3>1. /\ e = d /\ queue'[e] = Append(queue[e], n + 1) /\ Len(queue[e]) < QueueCap
      BY <1>8, <2>1, <2>3 DEF Send
    <3>2. PICK m \in Nat : /\ m = Len(queue[e]) /\ DOMAIN queue[e] = 1 .. m
                           /\ queue'[e] \in Seq(Ids) /\ Len(queue'[e]) = m + 1
                           /\ DOMAIN queue'[e] = 1 .. m + 1
                           /\ \A i \in DOMAIN queue[e] : queue'[e][i] = queue[e][i]
                           /\ queue'[e][m + 1] = n + 1
      BY <1>6, <2>1, <3>1, Appended, Places
    <3>3. m < QueueCap /\ QueueCap \in Nat
      BY <3>1, <3>2, LinkAssumption
    <3>4. Len(queue'[e]) <= QueueCap
      BY <3>2, <3>3
    <3>5. \A i \in 1 .. m : i \in 1 .. m + 1
      BY <3>2
    <3>6. \A i \in 1 .. m + 1 : i \in 1 .. m \/ (i = m + 1 /\ \A j \in 1 .. m + 1 : i < j => FALSE)
      BY <3>2
    <3> QED BY <3>1, <3>2, <3>4, <3>5, <3>6
  <2> QED BY <2>2, <2>3
<1>13. TypeOK'
  <2>1. queue' \in [Dests -> Seq(Ids)]
    <3>1. queue' = queue \/ queue' = [queue EXCEPT ![d] = Append(@, Len(frames'))]
      BY DEF Send
    <3>2. DOMAIN queue' = Dests /\ queue' = [e \in Dests |-> queue'[e]]
      BY <1>1, <3>1 DEF TypeOK
    <3> QED BY <1>12, <3>2
  <2>2. seqno' \in 0 .. SeqMax /\ given' \in 0 .. n + 1
    <3>1. CASE d = Bcast
      BY <1>1, <1>3, <1>7, <3>1 DEF TypeOK
    <3>2. CASE d # Bcast
      BY <1>3, <1>5, <1>7, <3>2
    <3> QED BY <3>1, <3>2
  <2>3. n + 1 <= MaxFrames
    BY <1>6, LinkAssumption
  <2> QED BY <1>1, <1>3, <1>8, <1>9, <1>12, <2>1, <2>2, <2>3 DEF TypeOK
<1>14. Numbered'
  <2>1. PICK k \in Nat : given = k * SeqMax + seqno
    BY <1>1 DEF Numbered
  <2>2. SeqMax \in Nat \ {0} /\ seqno \in 0 .. SeqMax /\ given \in Nat
    BY <1>1, <1>7, LinkAssumption DEF TypeOK
  <2>3. d # Bcast => \E l \in Nat : given + 1 = l * SeqMax + NextSeqno
    <3>1. CASE seqno = SeqMax
      <4>1. given + 1 = (k + 1) * SeqMax + 1
        BY <2>1, <2>2, <3>1
      <4>2. k + 1 \in Nat /\ NextSeqno = 1
        BY <3>1 DEF NextSeqno
      <4> QED BY <4>1, <4>2
    <3>2. CASE seqno # SeqMax
      <4>1. given + 1 = k * SeqMax + (seqno + 1)
        BY <2>1, <2>2
      <4> QED BY <3>2, <4>1 DEF NextSeqno
    <3> QED BY <3>1, <3>2
  <2>4. \E l \in Nat : given' = l * SeqMax + seqno'
    <3>1. CASE d = Bcast
      BY <1>3, <2>1, <3>1
    <3>2. CASE d # Bcast
      BY <1>3, <2>3, <3>2
    <3> QED BY <3>1, <3>2
  <2>5. ASSUME NEW i \in DOMAIN frames'
        PROVE  IF frames'[i].to = Bcast THEN frames'[i].num = NoNumber
               ELSE /\ frames'[i].num # NoNumber
                    /\ \E l \in Nat : frames'[i].turn + 1 = l * SeqMax + frames'[i].num
    <3>1. CASE i \in DOMAIN frames
      BY <1>1, <1>8, <3>1 DEF Numbered
    <3>2. CASE i = n + 1
      <4>1. frames'[i].to = d /\ frames'[i].num = Num(d) /\ frames'[i].turn = given
        BY <1>2, <1>8, <3>2
      <4>2. CASE d = Bcast
        BY <4>1, <4>2 DEF Num
      <4>3. CASE d # Bcast
        <5>1. NextSeqno # NoNumber
          BY <1>5, LinkAssumption
        <5> QED BY <1>5, <2>3, <4>1, <4>3, <5>1
      <4> QED BY <4>2, <4>3
    <3> QED BY <1>11, <3>1, <3>2
  <2> QED BY <2>4, <2>5 DEF Numbered
<1>15. Queued'
  <2> SUFFICES ASSUME NEW e \in Dests
               PROVE  /\ \A i \in DOMAIN queue'[e] : queue'[e][i] \in DOMAIN frames' /\ frames'[queue'[e][i]].to = e
                      /\ \A i, j \in DOMAIN queue'[e] : i < j => queue'[e][i] < queue'[e][j]
    BY DEF Queued
  <2>1. /\ \A i \in DOMAIN queue[e] : queue[e][i] \in DOMAIN frames /\ frames[queue[e][i]].to = e
        /\ \A i, j \in DOMAIN queue[e] : i < j => queue[e][i] < queue[e][j]
    BY <1>1 DEF Queued
  <2>2. n + 1 \in DOMAIN frames' /\ frames'[n + 1].to = d
    BY <1>2, <1>8
  <2>3. ASSUME NEW i \in DOMAIN queue'[e] PROVE queue'[e][i] \in DOMAIN frames' /\ frames'[queue'[e][i]].to = e
    <3>1. CASE i \in DOMAIN queue[e]
      <4>1. queue'[e][i] = queue[e][i]
        BY <1>12, <3>1, Zenon
      <4> QED BY <1>8, <1>10, <2>1, <3>1, <4>1
    <3>2. CASE i \notin DOMAIN queue[e]
      <4>1. e = d /\ queue'[e][i] = n + 1
        BY <1>12, <3>2, Zenon
      <4> QED BY <2>2, <4>1
    <3> QED BY <3>1, <3>2
  <2>4. ASSUME NEW i \in DOMAIN queue'[e], NEW j \in DOMAIN queue'[e], i < j
        PROVE  queue'[e][i] < queue'[e][j]
    <3>1. i \in DOMAIN queue[e]
      BY <1>12, <2>4
    <3>2. CASE j \in DOMAIN queue[e]
      BY <1>12, <2>1, <2>4, <3>1, <3>2
    <3>3. CASE j \notin DOMAIN queue[e]
      <4>1. queue'[e][j] = n + 1 /\ queue'[e][i] = queue[e][i] /\ queue[e][i] \in DOMAIN frames
        BY <1>12, <2>1, <3>1, <3>3
      <4> QED BY <1>10, <4>1
    <3> QED BY <3>2, <3>3
  <2> QED BY <2>3, <2>4
<1>16. InTheAir'
  <2>1. ASSUME NEW e \in Dests, queue[e] # <<>>
        PROVE  queue'[e] # <<>> /\ Head(queue'[e]) = Head(queue[e])
    <3>1. queue[e] \in Seq(Ids) /\ queue'[e] \in Seq(Ids)
      BY <1>1, <1>12, TypeFacts
    <3>2. Head(queue[e]) = queue[e][1] /\ 1 \in DOMAIN queue[e]
      BY <2>1, <3>1, HeadTaken
    <3>3. 1 \in DOMAIN queue'[e] /\ queue'[e][1] = queue[e][1]
      BY <1>12, <3>2
    <3>4. queue'[e] # <<>>
      BY <3>3, EmptySeq
    <3> QED BY <3>1, <3>2, <3>3, <3>4, HeadTaken
  <2>2. air.to \in Dests
    BY <1>1 DEF TypeOK
  <2>3. air' = air /\ dequeued' = dequeued /\ tries' = tries
    BY <1>3
  <2>4. air # Idle => queue'[air.to] # <<>> /\ air.id = Head(queue'[air.to]) /\ Len(dequeued) < DequeuedRoom
    BY <1>1, <2>1, <2>2, Zenon DEF InTheAir
  <2>5. /\ \A r \in air.heard : air.to \in {r, Bcast}
        /\ \A e \in Dests : tries[e] <= Retries \/ (air # Idle /\ e = air.to)
    BY <1>1 DEF InTheAir
  <2> QED BY <2>3, <2>4, <2>5, Zenon DEF InTheAir
<1>17. \A a, b \in DOMAIN frames : MayFollow(frames, a, b) => MayFollow(frames', a, b)
  BY <1>8 DEF MayFollow
<1>18. ASSUME NEW r \in Receivers PROVE InOrder(r)' /\ Latest(r)' /\ IsInjective(handed'[r])
  <2>1. InOrder(r) /\ Latest(r) /\ IsInjective(handed[r])
    BY DEF IInv
  <2>2. ring'[r] = ring[r] /\ handed'[r] = handed[r] /\ last'[r] = last[r] /\ air' = air
    BY <1>3
  <2>3. Got(r)' = Got(r)
    BY <2>2 DEF Got
  <2>4. \A x \in Got(r) : x \in DOMAIN frames /\ frames[x].to \in {r, Bcast}
    BY <2>1 DEF InOrder
  <2>5. /\ \A i \in DOMAIN handed[r] : handed[r][i] \in DOMAIN frames
        /\ \A i \in DOMAIN ring[r] : ring[r][i] \in DOMAIN frames
    BY <2>4 DEF Got
  <2>6. InOrder(r)'
    <3>1. \A x \in Got(r) : x \in DOMAIN frames' /\ frames'[x].to \in {r, Bcast}
      BY <1>8, <1>10, <2>4
    <3>2. /\ \A i, j \in DOMAIN handed[r] : i < j => MayFollow(frames', handed[r][i], handed[r][j])
          /\ \A i \in DOMAIN handed[r], j \in DOMAIN ring[r] : MayFollow(frames', handed[r][i], ring[r][j])
          /\ \A i, j \in DOMAIN ring[r] : i < j => MayFollow(frames', ring[r][i], ring[r][j])
      BY <1>17, <2>1, <2>5 DEF InOrder
    <3>3. ASSUME NEW x \in Got(r), NEW e \in Dests, NEW i \in DOMAIN queue'[e]
          PROVE  MayFollow(frames', x, queue'[e][i]) \/ (air # Idle /\ x = air.id)
      <4>1. CASE i \in DOMAIN queue[e]
        <5>1. queue'[e][i] = queue[e][i] /\ queue[e][i] \in DOMAIN frames
          BY <1>1, <1>12, <4>1 DEF Queued
        <5>2. MayFollow(frames, x, queue[e][i]) \/ (air # Idle /\ x = air.id)
          BY <2>1, <4>1 DEF InOrder
        <5> QED BY <1>17, <2>4, <5>1, <5>2
      <4>2. CASE i \notin DOMAIN queue[e]
        <5>1. queue'[e][i] = n + 1 /\ x \in Nat /\ x < n + 1
          BY <1>10, <1>12, <2>4, <4>2
        <5> QED BY <5>1 DEF MayFollow
      <4> QED BY <4>1, <4>2
    <3> QED BY <2>2, <2>3, <3>1, <3>2, <3>3 DEF InOrder
  <2>7. Latest(r)'
    <3>1. \A i \in DOMAIN handed[r] : frames'[handed[r][i]] = frames[handed[r][i]]
      BY <1>8, <2>5
    <3> QED BY <2>1, <2>2, <3>1 DEF Latest
  <2> QED BY <2>1, <2>2, <2>6, <2>7
<1>19. \A x \in DOMAIN frames : frames[x].to # Bcast /\ Kept(x) => Kept(x)'
  <2> SUFFICES ASSUME NEW x \in DOMAIN frames, frames[x].to # Bcast, Kept(x) PROVE Kept(x)'
    OBVIOUS
  <2>1. \A q \in Receivers : Has(q, x) => Has(q, x)'
    BY <1>3 DEF Has
  <2>2. \A q \in Receivers, y \in Ids : Contains(handed[q], y) => Contains(handed'[q], y)
    BY <1>3
  <2> QED BY <1>1, <1>8, <2>1, <2>2, KeptStays
<1>20. AckIsKept'
  <2>1. air' = air /\ dequeued' = dequeued
    BY <1>3
  <2>2. air # Idle /\ air.to \in air.heard => Kept(air.id)'
    <3> SUFFICES ASSUME air # Idle, air.to \in air.heard PROVE Kept(air.id)'
      OBVIOUS
    <3>1. PICK x \in DOMAIN frames : x = air.id /\ frames[x].to # Bcast
      BY <1>1, AirIsHead, LinkAssumption
    <3>2. Kept(x)'
      BY <1>1, <1>19, <3>1 DEF AckIsKept
    <3> QED BY <2>1, <3>1, <3>2 DEF Kept, Has, Alike
  <2>3. /\ \A i \in DOMAIN dequeued : dequeued[i].id \in DOMAIN frames
        /\ \A i \in DOMAIN dequeued :
             dequeued[i].ret = "ok" /\ frames[dequeued[i].id].to # Bcast => Kept(dequeued[i].id)
        /\ \A x \in DOMAIN frames : status[x] = "ok" /\ frames[x].to # Bcast => Kept(x)
    BY <1>1 DEF AckIsKept
  <2>4. ASSUME NEW i \in DOMAIN dequeued
        PROVE  /\ dequeued[i].id \in DOMAIN frames'
               /\ dequeued[i].ret = "ok" /\ frames'[dequeued[i].id].to # Bcast => Kept(dequeued[i].id)'
    <3>1. PICK x \in DOMAIN frames : x = dequeued[i].id
      BY <2>3
    <3>2. x \in DOMAIN frames' /\ frames'[x] = frames[x]
      BY <1>8, <1>10
    <3>3. dequeued[i].ret = "ok" /\ frames[x].to # Bcast => Kept(x)'
      BY <1>19, <2>3, <3>1
    <3>4. Kept(dequeued[i].id)' = Kept(x)'
      BY <2>1, <3>1 DEF Kept, Has, Alike
    <3> QED BY <3>1, <3>2, <3>3, <3>4
  <2>5. ASSUME NEW x \in DOMAIN frames', status'[x] = "ok", frames'[x].to # Bcast PROVE Kept(x)'
    <3>1. x \in DOMAIN frames
      BY <1>9, <1>11, <2>5
    <3> QED BY <1>8, <1>9, <1>19, <2>3, <2>5, <3>1
  <2> QED BY <2>1, <2>2, <2>4, <2>5 DEF AckIsKept
<1> QED BY <1>13, <1>14, <1>15, <1>16, <1>18, <1>20 DEF IInv

(* Nothing else changes the state.                                         *)
LEMMA NextIInv == IInv /\ [Next]_vars => IInv'
<1> SUFFICES ASSUME IInv, [Next]_vars PROVE IInv'
  OBVIOUS
<1>1. CASE \E d \in Dests : Send(d) \/ Transmit(d)
  BY <1>1, SendStep, TransmitStep
<1>2. CASE \E r \in Receivers : PacketInput(r)
  BY <1>2, PacketInputStep
<1>3. CASE SlotEnd
  BY <1>3, SlotEndStep
<1>4. CASE Report
  BY <1>4, ReportStep
<1>5. CASE Restart
  BY <1>5, RestartStep
<1>6. CASE UNCHANGED vars
  <2>1. /\ seqno' = seqno /\ given' = given /\ boots' = boots /\ frames' = frames /\ status' = status
        /\ queue' = queue /\ tries' = tries /\ air' = air /\ dequeued' = dequeued /\ ring' = ring
        /\ last' = last /\ handed' = handed
    BY <1>6 DEF vars
  <2>2. TypeOK' /\ Numbered' /\ Queued' /\ InTheAir'
    <3>1. TypeOK /\ Numbered /\ Queued /\ InTheAir
      BY DEF IInv
    <3>2. TypeOK'
      BY <2>1, <3>1 DEF TypeOK
    <3>3. Numbered' /\ Queued'
      BY <2>1, <3>1 DEF Numbered, Queued
    <3> QED BY <2>1, <3>1, <3>2, <3>3, Zenon DEF InTheAir
  <2>3. ASSUME NEW r \in Receivers PROVE InOrder(r)' /\ Latest(r)' /\ IsInjective(handed'[r])
    <3>1. InOrder(r) /\ Latest(r) /\ IsInjective(handed[r])
      BY DEF IInv
    <3>2. Got(r)' = Got(r)
      BY <2>1 DEF Got
    <3> QED BY <2>1, <3>1, <3>2 DEF InOrder, Latest
  <2>4. AckIsKept'
    BY <2>1 DEF IInv, AckIsKept, Kept, Has, Alike
  <2> QED BY <2>2, <2>3, <2>4 DEF IInv
<1> QED BY <1>1, <1>2, <1>3, <1>4, <1>5, <1>6 DEF Next

THEOREM Invariant == Spec => []IInv
BY InitIInv, NextIInv, PTL DEF Spec
-----------------------------------------------------------------------------
(* The state of the sender, of the medium and of the receivers stays within*)
(* its types: the queues and rings within their sizes, and the numbers     *)
(* given to frames between 1 and the last one.                             *)
THEOREM TypeCorrect == Spec => []TypeOK
<1>1. IInv => TypeOK
  BY DEF IInv
<1> QED BY <1>1, Invariant, PTL

(* What is reported to have been acknowledged is handed up by its receiver *)
(* or in its ring, or was taken for a frame with the same number: one that *)
(* was sent before a restart, or all other numbers earlier.                *)
THEOREM AckedStaysKept == Spec => []AckedIsKept
<1>1. IInv => AckedIsKept
  BY DEF IInv, AckIsKept, AckedIsKept, Kept
<1> QED BY <1>1, Invariant, PTL

(* No receiver hands up a frame twice, or a unicast frame after one sent   *)
(* later, whatever is lost, sent again or broadcast in between, and        *)
(* however often the sender starts again.                                  *)
THEOREM EachOnceInOrder == Spec => []HandedOnceInOrder
<1>1. IInv => HandedOnceInOrder
  <2> SUFFICES ASSUME IInv, NEW r \in Receivers
               PROVE  /\ IsInjective(handed[r])
                      /\ \A i, j \in DOMAIN handed[r] :
                           i < j /\ frames[handed[r][i]].to = r /\ frames[handed[r][j]].to = r =>
                             handed[r][i] < handed[r][j]
    BY DEF HandedOnceInOrder
  <2>1. TypeOK /\ InOrder(r) /\ IsInjective(handed[r])
    BY DEF IInv
  <2>2. ASSUME NEW i \in DOMAIN handed[r], NEW j \in DOMAIN handed[r], i < j,
               frames[handed[r][i]].to = r, frames[handed[r][j]].to = r
        PROVE  handed[r][i] < handed[r][j]
    <3>1. handed[r][i] <= handed[r][j]
      BY <2>1, <2>2, LinkAssumption DEF InOrder, MayFollow
    <3>2. handed[r][i] # handed[r][j]
      <4>1. i # j
        <5>1. i \in Nat /\ j \in Nat
          <6>1. DOMAIN handed[r] = 1 .. Len(handed[r])
            BY <2>1, TypeFacts
          <6> QED BY <6>1
        <5> QED BY <2>2, <5>1
      <4> QED BY <2>1, <4>1 DEF IsInjective
    <3>3. handed[r][i] \in Nat /\ handed[r][j] \in Nat
      <4>1. handed[r] \in Seq(Ids)
        BY <2>1, TypeFacts
      <4>2. handed[r][i] \in Ids /\ handed[r][j] \in Ids
        BY <4>1, Places
      <4> QED BY <4>2 DEF Ids
    <3> QED BY <3>1, <3>2, <3>3
  <2> QED BY <2>1, <2>2
<1> QED BY <1>1, Invariant, PTL
=============================================================================
