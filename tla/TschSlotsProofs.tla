-------------------------- MODULE TschSlotsProofs --------------------------
(***************************************************************************)
(* Proofs about the way of a TSCH node from slot to slot, for every        *)
(* schedule, clock width, slot length and drift that SlotsAssumption       *)
(* allows.                                                                 *)
(***************************************************************************)
EXTENDS TschSlots, CommonLemmas

(* The slot the loop counts from, in true time, and how late the loop is.  *)
Origin == Start(asn) - drift
Late == now - Origin

(* The inductive invariant. It has a part that holds of every clock, ...   *)
Chosen == TypeOK /\ ListensIfItCan

(* ... and one about time. In the loop, current_slot_start is the time of  *)
(* the last wakeup, modulo the clock; so little has passed since then that *)
(* the clock tells how much.                                               *)
IInv ==
  /\ Chosen
  /\ start = Origin % Wrap
  /\ pc = "asleep" => wake = Start(asn) /\ drift = 0
  /\ pc = "loop" => Late \in 0 .. Wrap - 1 - Work
-----------------------------------------------------------------------------
(* The size of a link's slotframe is positive, and its timeslot within.    *)
LEMMA LinkType ==
  ASSUME links \in Schedules, NEW l \in Links
  PROVE  /\ l # NoLink /\ l.handle \in Nat /\ l.options \subseteq {"TX", "RX"}
         /\ Size[l.handle] \in Nat \ {0} /\ l.timeslot \in 0 .. Size[l.handle] - 1
         /\ Size[l.handle] * Length + Drift + MaxSlot < Wrap
<1>1. PICK i \in DOMAIN links : l = links[i]
  BY DEF Links
<1>2. /\ links[i] # NoLink /\ links[i].handle \in DOMAIN Size
      /\ links[i].timeslot \in 0 .. Size[links[i].handle] - 1
      /\ links[i].options \subseteq {"TX", "RX"}
  BY SlotsAssumption
<1>3. \A h \in DOMAIN Size : h \in Nat /\ Size[h] \in Nat \ {0} /\ Size[h] * Length + Drift + MaxSlot < Wrap
  BY SlotsAssumption
<1>4. l # NoLink /\ l.options \subseteq {"TX", "RX"} /\ l.handle \in DOMAIN Size
  BY <1>1, <1>2
<1>5. l.timeslot \in 0 .. Size[l.handle] - 1
  BY <1>1, <1>2
<1>6. l.handle \in Nat /\ Size[l.handle] \in Nat \ {0}
  BY <1>3, <1>4
<1>7. Size[l.handle] * Length + Drift + MaxSlot < Wrap
  BY <1>3, <1>4
<1> QED BY <1>4, <1>5, <1>6, <1>7

(* Gap is the number of slots from s to the next slot of the link.         *)
LEMMA GapIsNext ==
  ASSUME links \in Schedules, NEW l \in Links, NEW s \in Nat
  PROVE  /\ Gap(s, l) \in 1 .. Size[l.handle]
         /\ ActiveAt(l, s + Gap(s, l))
         /\ \A k \in 1 .. Gap(s, l) - 1 : ~ ActiveAt(l, s + k)
<1> DEFINE w == Size[l.handle]
           r == s % w
           d == Gap(s, l)
<1>1. w \in Nat \ {0} /\ l.timeslot \in 0 .. w - 1
  BY LinkType
<1>2. PICK q \in Int : r \in 0 .. w - 1 /\ s = q * w + r
  <2> HIDE DEF w
  <2>1. s % w \in 0 .. w - 1 /\ \E q \in Int : s = q * w + (s % w)
    <3>1. s \in Int
      OBVIOUS
    <3> QED BY <1>1, <3>1, Division, Zenon
  <2> QED BY <2>1, Zenon
<1>3. d = IF l.timeslot > r THEN l.timeslot - r ELSE w + l.timeslot - r
  BY DEF Gap
<1> HIDE DEF w, r, d
<1>4. d \in 1 .. w
  BY <1>1, <1>2, <1>3
<1>5. (s + d) % w = l.timeslot
  <2>1. CASE l.timeslot > r
    <3>1. s + d = q * w + l.timeslot
      BY <1>1, <1>2, <1>3, <2>1
    <3>2. s + d \in Int
      BY <1>4
    <3> QED BY <3>1, <3>2, <1>1, <1>2, Remainder, Zenon
  <2>2. CASE ~ (l.timeslot > r)
    <3>1. s + d = (q + 1) * w + l.timeslot
      BY <1>1, <1>2, <1>3, <2>2
    <3>2. s + d \in Int /\ q + 1 \in Int
      BY <1>2, <1>4
    <3> QED BY <3>1, <3>2, <1>1, Remainder, Zenon
  <2> QED BY <2>1, <2>2
<1>6. ASSUME NEW k \in 1 .. d - 1 PROVE (s + k) % w # l.timeslot
  <2>1. CASE r + k < w
    <3>1. s + k = q * w + (r + k) /\ r + k \in 0 .. w - 1 /\ s + k \in Int
      BY <1>1, <1>2, <1>4, <2>1
    <3>2. (s + k) % w = r + k
      BY <3>1, <1>1, <1>2, Remainder, Zenon
    <3>3. r + k # l.timeslot
      BY <1>1, <1>2, <1>3, <1>4, <2>1
    <3> QED BY <3>2, <3>3, Zenon
  <2>2. CASE ~ (r + k < w)
    <3>1. /\ s + k = (q + 1) * w + (r + k - w) /\ r + k - w \in 0 .. w - 1
          /\ s + k \in Int /\ q + 1 \in Int
      BY <1>1, <1>2, <1>4, <2>2
    <3>2. (s + k) % w = r + k - w
      BY <3>1, <1>1, Remainder, Zenon
    <3>3. r + k - w # l.timeslot
      BY <1>1, <1>2, <1>3, <1>4, <2>2
    <3> QED BY <3>2, <3>3, Zenon
  <2> QED BY <2>1, <2>2
<1> QED BY <1>4, <1>5, <1>6 DEF ActiveAt, w, d
-----------------------------------------------------------------------------
(* Better is an order of links by what they can send, then by handle: what *)
(* is no better than a link is no better than one better than that link.   *)
LEMMA BetterOrders ==
  ASSUME links \in Schedules, NEW l \in Links, NEW b \in Links
  PROVE  /\ ~ Better(l, l)
         /\ Better(l, b) => ~ Better(b, l)
         /\ \A x \in Links : ~ Better(x, b) /\ Better(l, b) => ~ Better(x, l)
<1>1. \A x \in Links : x.handle \in Nat
  BY LinkType
<1> QED BY <1>1 DEF Better

(* What is right to have chosen of a set of links.                         *)
RightAmong(chosen, among, s) ==
  /\ chosen.best \in among /\ chosen.gap = Gap(s, chosen.best)
  /\ \A l \in among : chosen.gap <= Gap(s, l)
  /\ \A l \in among : Gap(s, l) = chosen.gap => ~ Better(l, chosen.best)
  /\ chosen.backup # NoLink =>
       chosen.backup \in among /\ Gap(s, chosen.backup) = chosen.gap /\ Can("RX", chosen.backup)
  /\ (\E l \in among : Gap(s, l) = chosen.gap /\ Can("RX", l)) =>
       Can("RX", chosen.best) \/ chosen.backup # NoLink

Right(chosen, among, s) ==
  IF among = {} THEN chosen = Nothing ELSE RightAmong(chosen, among, s)

Choices == [best : Links \cup {NoLink}, gap : Nat, backup : Links \cup {NoLink}]

(* A choice is always of a link of the schedule or of none.               *)
LEMMA ConsideredType ==
  ASSUME NEW s \in Nat, links \in Schedules, NEW l \in Links, NEW chosen \in Choices
  PROVE  Considered(chosen, l, s) \in Choices
<1>1. Gap(s, l) \in Nat
  <2>1. Size[l.handle] \in Nat /\ Gap(s, l) \in 1 .. Size[l.handle]
    BY GapIsNext, LinkType
  <2> QED BY <2>1
<1>2. Backup(l, chosen) \in Links \cup {NoLink}
  BY DEF Backup, Choices
<1> QED BY <1>1, <1>2 DEF Considered, Choices

(* One more link keeps the choice right.                                   *)
LEMMA ConsideredRight ==
  ASSUME links \in Schedules, NEW s \in Nat, NEW l \in Links,
         NEW among \in SUBSET Links, NEW chosen \in Choices, Right(chosen, among, s)
  PROVE  Right(Considered(chosen, l, s), among \cup {l}, s)
<1> DEFINE next == Considered(chosen, l, s)
<1>1. \A x \in Links : Gap(s, x) \in Nat /\ x # NoLink
  <2> SUFFICES ASSUME NEW x \in Links PROVE Gap(s, x) \in Nat /\ x # NoLink
    OBVIOUS
  <2>1. Size[x.handle] \in Nat /\ Gap(s, x) \in 1 .. Size[x.handle]
    BY GapIsNext, LinkType
  <2> QED BY <2>1, LinkType
<1>2. CASE chosen.best = NoLink \/ Gap(s, l) < chosen.gap
  <2>1. next = [best |-> l, gap |-> Gap(s, l), backup |-> NoLink]
    BY <1>2 DEF Considered
  <2>2. \A x \in among : Gap(s, l) < Gap(s, x)
    <3>1. CASE among = {}
      BY <3>1
    <3>2. CASE among # {}
      <4>1. chosen.best # NoLink
        BY <3>2, <1>1 DEF Right, RightAmong
      <4>2. chosen.gap \in Nat /\ \A x \in among : chosen.gap <= Gap(s, x)
        BY <3>2 DEF Right, RightAmong, Choices
      <4> QED BY <4>1, <4>2, <1>1, <1>2
    <3> QED BY <3>1, <3>2
  <2>3. ~ Better(l, l)
    BY BetterOrders
  <2> HIDE DEF next
  <2>4. /\ next.best = l /\ next.gap = Gap(s, l) /\ next.backup = NoLink
    BY <2>1
  <2>5. \A x \in among \cup {l} : next.gap <= Gap(s, x) /\ (Gap(s, x) = next.gap => x = l)
    BY <2>4, <2>2, <1>1
  <2>6. \A x \in among \cup {l} : Gap(s, x) = next.gap => ~ Better(x, next.best)
    BY <2>3, <2>4, <2>5
  <2>7. \A x \in among \cup {l} : Gap(s, x) = next.gap /\ Can("RX", x) => Can("RX", next.best)
    BY <2>4, <2>5
  <2>8. RightAmong(next, among \cup {l}, s)
    BY <2>4, <2>5, <2>6, <2>7 DEF RightAmong
  <2> QED BY <2>8 DEF Right, next
<1>3. CASE ~ (chosen.best = NoLink \/ Gap(s, l) < chosen.gap)
  <2>1. /\ chosen.best \in among /\ chosen.gap = Gap(s, chosen.best)
        /\ chosen.gap \in Nat /\ chosen.gap <= Gap(s, l)
        /\ among # {} /\ among \cup {l} # {}
    <3>1. among # {}
      BY <1>3 DEF Right, Nothing
    <3>2. chosen.gap \in Nat /\ Gap(s, l) \in Nat
      BY <1>1 DEF Choices
    <3> QED BY <3>1, <3>2, <1>3 DEF Right, RightAmong
  <2>2. CASE Gap(s, l) # chosen.gap
    <3>1. next = chosen
      BY <2>2, <1>3 DEF Considered
    <3>2. Right(chosen, among \cup {l}, s)
      BY <2>1, <2>2 DEF Right, RightAmong
    <3> QED BY <3>1, <3>2
  <2>3. CASE Gap(s, l) = chosen.gap
    <3> DEFINE best == IF Better(l, chosen.best) THEN l ELSE chosen.best
               other == Backup(l, chosen)
    <3>1. next = [best |-> best, gap |-> chosen.gap, backup |-> other]
      BY <2>3, <1>3 DEF Considered
    <3>2. best \in among \cup {l} /\ best \in Links /\ Gap(s, best) = chosen.gap
      BY <2>1, <2>3
    <3>3. \A x \in among \cup {l} : Gap(s, x) = chosen.gap => ~ Better(x, best)
      <4> SUFFICES ASSUME NEW x \in among \cup {l}, Gap(s, x) = chosen.gap PROVE ~ Better(x, best)
        OBVIOUS
      <4>1. chosen.best \in Links /\ x \in Links
        BY <2>1
      <4>2. x # l => ~ Better(x, chosen.best)
        BY <2>1 DEF Right, RightAmong
      <4> QED BY <4>1, <4>2, BetterOrders
    <3>4. other # NoLink => other \in among \cup {l} /\ Gap(s, other) = chosen.gap /\ Can("RX", other)
      BY <2>1, <2>3 DEF Right, RightAmong, Backup
    <3>5. \A x \in among \cup {l} : Gap(s, x) = chosen.gap /\ Can("RX", x) => Can("RX", best) \/ other # NoLink
      <4>1. chosen.best # NoLink /\ l # NoLink
        BY <1>1, <2>1
      <4> QED BY <4>1, <2>1 DEF Right, RightAmong, Backup
    <3> HIDE DEF best, other, next
    <3>6. next.best = best /\ next.gap = chosen.gap /\ next.backup = other
      BY <3>1
    <3>7. \A x \in among \cup {l} : next.gap <= Gap(s, x)
      BY <3>6, <2>1 DEF Right, RightAmong
    <3>8. /\ \A x \in among \cup {l} : Gap(s, x) = next.gap => ~ Better(x, next.best)
          /\ next.best \in among \cup {l} /\ next.gap = Gap(s, next.best)
      BY <3>2, <3>3, <3>6
    <3>9. next.backup # NoLink =>
             next.backup \in among \cup {l} /\ Gap(s, next.backup) = next.gap /\ Can("RX", next.backup)
      BY <3>4, <3>6
    <3>10. \A x \in among \cup {l} :
             Gap(s, x) = next.gap /\ Can("RX", x) => Can("RX", next.best) \/ next.backup # NoLink
      BY <3>5, <3>6
    <3>11. RightAmong(next, among \cup {l}, s)
      BY <3>7, <3>8, <3>9, <3>10 DEF RightAmong
    <3> QED BY <2>1, <3>11 DEF Right, next
  <2> QED BY <2>2, <2>3
<1> QED BY <1>2, <1>3

(* The links choose among themselves as the code does, one after another.  *)
LEMMA ChoiceRight ==
  ASSUME links \in Schedules, NEW s \in Nat
  PROVE  Right(tsch_schedule_get_next_active_link(s), Links, s)
<1> DEFINE n == Len(links)
           step == [p \in Choices \X (1 .. n) |-> Considered(p[1], links[p[2]], s)]
           Passed(i) == {links[j] : j \in 1 .. i}
<1>1. n \in Nat /\ Links = Passed(n) /\ \A i \in 1 .. n : links[i] \in Links
  <2>1. links \in Seq({links[i] : i \in DOMAIN links})
    BY SlotsAssumption
  <2> QED BY <2>1 DEF Links
<1>2. Nothing \in Choices /\ Right(Nothing, Passed(0), s)
  BY DEF Nothing, Choices, Right
<1>3. \A v \in Choices, i \in 1 .. n : step[<<v, i>>] = Considered(v, links[i], s)
  OBVIOUS
<1>4. step \in [Choices \X (1 .. n) -> Choices]
  <2>1. \A v \in Choices, i \in 1 .. n : Considered(v, links[i], s) \in Choices
    BY <1>1, ConsideredType
  <2> QED BY <2>1
<1>5. PICK f : Follows(f, Choices, n, Nothing, step)
  <2> HIDE DEF step, n
  <2> QED BY <1>1, <1>2, <1>4, Recursion
<1> DEFINE Defines(g) ==
             g = [i \in 0 .. n |-> IF i = 0 THEN Nothing ELSE Considered(g[i - 1], links[i], s)]
           chosen == CHOOSE g : Defines(g)
<1>6. Defines(f)
  <2> HIDE DEF step
  <2>0. /\ f \in [0 .. n -> Choices] /\ f[0] = Nothing
        /\ \A i \in 1 .. n : f[i] = step[<<f[i - 1], i>>]
    BY <1>5 DEF Follows
  <2>1. \A i \in 1 .. n : f[i] = Considered(f[i - 1], links[i], s)
    <3> SUFFICES ASSUME NEW i \in 1 .. n PROVE f[i] = Considered(f[i - 1], links[i], s)
      OBVIOUS
    <3>1. f[i - 1] \in Choices
      BY <1>1, <2>0
    <3> QED BY <3>1, <1>3, <2>0
  <2>2. \A i \in 0 .. n : i # 0 => i \in 1 .. n
    BY <1>1
  <2> HIDE DEF n
  <2> QED BY <2>0, <2>1, <2>2
<1>7. Defines(chosen)
  <2> HIDE DEF Defines
  <2> QED BY <1>6
<1>8. chosen[0] = Nothing /\ \A i \in 1 .. n : chosen[i] = Considered(chosen[i - 1], links[i], s)
  <2> HIDE DEF chosen
  <2>1. 0 \in 0 .. n /\ \A i \in 1 .. n : i \in 0 .. n /\ i # 0
    BY <1>1
  <2> HIDE DEF n
  <2> QED BY <1>7, <2>1
<1>9. chosen[n] = tsch_schedule_get_next_active_link(s)
  BY DEF tsch_schedule_get_next_active_link
<1> DEFINE Good(i) == chosen[i] \in Choices /\ Right(chosen[i], Passed(i), s)
           Prefixes == {i \in Nat : i <= n => Good(i)}
<1> HIDE DEF chosen, step
<1>10. 0 \in Prefixes
  BY <1>2, <1>8
<1>11. \A i \in Nat : i \in Prefixes => i + 1 \in Prefixes
  <2> SUFFICES ASSUME NEW i \in Nat, i + 1 <= n, Good(i) PROVE Good(i + 1)
    <3> HIDE DEF Good
    <3> QED BY <1>1
  <2>1. i + 1 \in 1 .. n /\ (i + 1) - 1 = i
    BY <1>1
  <2>2. chosen[i + 1] = Considered(chosen[i], links[i + 1], s)
    BY <2>1, <1>8
  <2>3. Passed(i) \in SUBSET Links /\ links[i + 1] \in Links
    BY <2>1, <1>1
  <2>4. Passed(i + 1) = Passed(i) \cup {links[i + 1]}
    BY <2>1
  <2>5. chosen[i] \in Choices /\ Right(chosen[i], Passed(i), s)
    OBVIOUS
  <2> HIDE DEF Passed, n
  <2>6. chosen[i + 1] \in Choices
    BY <2>2, <2>3, <2>5, ConsideredType
  <2>7. Right(chosen[i + 1], Passed(i + 1), s)
    BY <2>2, <2>3, <2>4, <2>5, ConsideredRight
  <2> QED BY <2>6, <2>7
<1>12. Good(n)
  <2>1. n \in Prefixes
    <3> HIDE DEF Prefixes
    <3> QED BY <1>1, <1>10, <1>11, Induction
  <2> QED BY <2>1, <1>1
<1> QED BY <1>1, <1>9, <1>12
-----------------------------------------------------------------------------
(* What a sum shows on a clock that wraps at most once on the way to it.   *)
LEMMA OnTheClock ==
  ASSUME NEW p \in Int, NEW e \in 0 .. Wrap - 1
  PROVE  (p + e) % Wrap = IF (p % Wrap) + e < Wrap THEN (p % Wrap) + e ELSE (p % Wrap) + e - Wrap
<1>1. Wrap \in Nat \ {0}
  BY SlotsAssumption
<1>2. PICK q \in Int : p % Wrap \in 0 .. Wrap - 1 /\ p = q * Wrap + (p % Wrap)
  BY <1>1, Division, Zenon
<1>3. PICK r \in 0 .. Wrap - 1 : r = p % Wrap
  BY <1>2
<1>4. p = q * Wrap + r
  BY <1>2, <1>3, Zenon
<1>5. CASE r + e < Wrap
  <2>1. p + e = q * Wrap + (r + e) /\ r + e \in 0 .. Wrap - 1 /\ p + e \in Int
    BY <1>1, <1>4, <1>5
  <2>2. (p + e) % Wrap = r + e
    BY <1>1, <2>1, Remainder, Zenon
  <2> QED BY <2>2, <1>3, <1>5, Zenon
<1>6. CASE ~ (r + e < Wrap)
  <2>1. /\ p + e = (q + 1) * Wrap + (r + e - Wrap) /\ r + e - Wrap \in 0 .. Wrap - 1
        /\ p + e \in Int /\ q + 1 \in Int
    BY <1>1, <1>4, <1>6
  <2>2. (p + e) % Wrap = r + e - Wrap
    BY <1>1, <2>1, Remainder, Zenon
  <2> QED BY <2>2, <1>3, <1>6, Zenon
<1> QED BY <1>5, <1>6, Zenon

(* check_timer_miss tells whether the deadline has passed, as long as      *)
(* neither it nor the present is a whole turn of the clock away.           *)
LEMMA MissIsTold ==
  ASSUME NEW p \in Int, NEW e \in 0 .. Wrap - 1, NEW offset \in 0 .. Wrap - 1
  PROVE  check_timer_miss(p % Wrap, offset, (p + e) % Wrap) <=> offset <= e
<1>1. Wrap \in Nat \ {0}
  BY SlotsAssumption
<1>2. PICK r \in 0 .. Wrap - 1 : r = p % Wrap
  <2>1. p % Wrap \in 0 .. Wrap - 1
    BY <1>1, Division, Zenon
  <2> QED BY <2>1
<1>3. PICK t \in Int : t = (p + e) % Wrap /\ t = IF r + e < Wrap THEN r + e ELSE r + e - Wrap
  <2>1. (p + e) % Wrap = IF r + e < Wrap THEN r + e ELSE r + e - Wrap
    BY <1>2, OnTheClock
  <2>2. (IF r + e < Wrap THEN r + e ELSE r + e - Wrap) \in Int
    BY <1>1
  <2> QED BY <2>1, <2>2
<1>4. PICK target \in Int : /\ target = (r + offset) % Wrap
                            /\ target = IF r + offset < Wrap THEN r + offset ELSE r + offset - Wrap
  <2>1. (r + offset) % Wrap = IF (r % Wrap) + offset < Wrap THEN (r % Wrap) + offset ELSE (r % Wrap) + offset - Wrap
    <3>1. r \in Int
      OBVIOUS
    <3> QED BY <3>1, OnTheClock
  <2>2. r % Wrap = r
    BY <1>1, SmallRemainder
  <2>3. (IF r + offset < Wrap THEN r + offset ELSE r + offset - Wrap) \in Int
    BY <1>1
  <2> QED BY <2>1, <2>2, <2>3
<1>5. check_timer_miss(r, offset, t) <=>
        IF (t < r) <=> (target < r) THEN target <= t ELSE t < r
  BY <1>4 DEF check_timer_miss
<1>6. (IF (t < r) <=> (target < r) THEN target <= t ELSE t < r) <=> offset <= e
  BY <1>1, <1>3, <1>4
<1> QED BY <1>2, <1>3, <1>5, <1>6
-----------------------------------------------------------------------------
(* What is true of a link and its backup chosen for a slot.                *)
Fits(best, other, s) ==
  best # NoLink =>
    /\ best \in At(s) /\ ~ \E l \in At(s) : Better(l, best)
    /\ other # NoLink => other \in At(s) /\ Can("RX", other)
    /\ (\E l \in At(s) : Can("RX", l)) => Can("RX", best) \/ other # NoLink

(* The next link: it is active after gap slots and fits that slot, no link *)
(* is active before, and the clock can tell the time to it.                *)
LEMMA NextLinkRight ==
  ASSUME TypeOK
  PROVE  /\ NextLink.gap \in Nat \ {0} /\ NextLink.gap * Length + Drift < Wrap
         /\ {NextLink.best, NextLink.backup} \subseteq Links \cup {NoLink}
         /\ \A s \in asn + 1 .. asn + NextLink.gap - 1 : At(s) = {}
         /\ Fits(NextLink.best, NextLink.backup, asn + NextLink.gap)
<1> DEFINE next == NextLink
<1>1. links \in Schedules /\ asn \in Nat /\ Wrap \in Nat /\ Length \in Nat \ {0} /\ Drift \in Nat /\ MaxSlot \in Nat
  BY SlotsAssumption DEF TypeOK
<1>2. CASE next = Nothing
  <2>1. next.gap = 1 /\ next.best = NoLink /\ next.backup = NoLink
    BY <1>2 DEF Nothing
  <2>2. 1 * Length + Drift < Wrap
    BY SlotsAssumption
  <2> QED BY <1>1, <2>1, <2>2 DEF Fits
<1>3. CASE next # Nothing
  <2>1. RightAmong(next, Links, asn)
    <3>1. next = tsch_schedule_get_next_active_link(asn)
      BY <1>3 DEF NextLink
    <3> QED BY <1>1, <1>3, <3>1, ChoiceRight DEF Right
  <2> HIDE DEF next
  <2>2. next.best \in Links /\ next.gap = Gap(asn, next.best)
    BY <2>1 DEF RightAmong
  <2>3. /\ next.gap \in 1 .. Size[next.best.handle] /\ Size[next.best.handle] \in Nat \ {0}
        /\ Size[next.best.handle] * Length + Drift + MaxSlot < Wrap
    BY <1>1, <2>2, GapIsNext, LinkType
  <2>4. next.gap * Length + Drift < Wrap
    BY <1>1, <2>3, ProductOrder
  <2>5. \A l \in Links : /\ Gap(asn, l) \in Nat /\ next.gap <= Gap(asn, l)
                         /\ ActiveAt(l, asn + Gap(asn, l))
                         /\ \A k \in 1 .. Gap(asn, l) - 1 : ~ ActiveAt(l, asn + k)
    <3> SUFFICES ASSUME NEW l \in Links
                 PROVE  /\ Gap(asn, l) \in Nat /\ next.gap <= Gap(asn, l)
                        /\ ActiveAt(l, asn + Gap(asn, l))
                        /\ \A k \in 1 .. Gap(asn, l) - 1 : ~ ActiveAt(l, asn + k)
      OBVIOUS
    <3>1. next.gap <= Gap(asn, l)
      BY <2>1 DEF RightAmong
    <3>2. Size[l.handle] \in Nat /\ Gap(asn, l) \in 1 .. Size[l.handle]
      BY <1>1, GapIsNext, LinkType
    <3> QED BY <1>1, <3>1, <3>2, GapIsNext
  <2>6. ASSUME NEW s \in asn + 1 .. asn + next.gap - 1 PROVE At(s) = {}
    <3> SUFFICES ASSUME NEW l \in Links, ActiveAt(l, s) PROVE FALSE
      BY DEF At
    <3>1. s - asn \in 1 .. Gap(asn, l) - 1 /\ asn + (s - asn) = s
      BY <1>1, <2>3, <2>5
    <3> QED BY <2>5, <3>1
  <2>7. At(asn + next.gap) = {l \in Links : Gap(asn, l) = next.gap}
    <3>1. ASSUME NEW l \in Links PROVE ActiveAt(l, asn + next.gap) <=> Gap(asn, l) = next.gap
      <4>1. CASE Gap(asn, l) = next.gap
        BY <2>5, <4>1
      <4>2. CASE Gap(asn, l) # next.gap
        <5>1. next.gap \in 1 .. Gap(asn, l) - 1
          BY <2>3, <2>5, <4>2
        <5> QED BY <2>5, <4>2, <5>1
      <4> QED BY <4>1, <4>2
    <3> QED BY <3>1 DEF At
  <2>8. Fits(next.best, next.backup, asn + next.gap)
    BY <2>1, <2>2, <2>7 DEF Fits, RightAmong
  <2>9. {next.best, next.backup} \subseteq Links \cup {NoLink}
    BY <2>1 DEF RightAmong
  <2> QED BY <2>3, <2>4, <2>6, <2>8, <2>9 DEF next
<1> QED BY <1>2, <1>3
-----------------------------------------------------------------------------
(* The node joins within two slots of the one it counts from.              *)
LEMMA InitIInv == Init => IInv
<1> SUFFICES ASSUME Init PROVE IInv
  OBVIOUS
<1> USE SlotsAssumption
<1>1. Start(0) = 0 /\ Origin = 0 /\ Late = now
  <2>1. 0 * Length = 0
    OBVIOUS
  <2> QED BY <2>1 DEF Init, Start, Origin, Late
<1>2. 0 % Wrap = 0
  BY SmallRemainder
<1>3. TypeOK
  <2>1. now \in Nat /\ 0 \in 0 .. Wrap - 1 /\ 0 \in - Drift .. Drift
    BY DEF Init
  <2>2. {current, backup} \subseteq {links[i] : i \in DOMAIN links} \cup {NoLink}
    BY DEF Init
  <2>3. links \in Schedules /\ locked \in BOOLEAN
    BY DEF Init
  <2>4. base \in Int /\ asn \in Nat /\ wake \in Nat
    BY DEF Init
  <2>5. start = 0 /\ drift = 0 /\ pc = "loop"
    BY DEF Init
  <2> QED BY <2>1, <2>2, <2>3, <2>4, <2>5 DEF TypeOK
<1>4. now \in 0 .. Wrap - 1 - Work
  BY DEF Init
<1>5. start = Origin % Wrap /\ Late \in 0 .. Wrap - 1 - Work
  BY <1>1, <1>2, <1>4 DEF Init
<1> QED BY <1>3, <1>5 DEF Init, IInv, Chosen, ListensIfItCan

(* A turn of the loop takes the next link, whatever the clock shows.       *)
LEMMA TurnChooses ==
  ASSUME Chosen, NEW work \in 0 .. Work, Turn(work)
  PROVE  Chosen' /\ \A s \in asn + 1 .. asn' - 1 : At(s) = {}
<1> DEFINE next == NextLink
<1>1. Wrap \in Nat \ {0} /\ Length \in Nat /\ Drift \in Nat /\ Work \in Nat
  BY SlotsAssumption
<1>2. TypeOK
  BY DEF Chosen
<1>3. next.gap \in Nat \ {0}
  BY <1>2, NextLinkRight
<1>4. /\ base' = base /\ links' = links /\ drift' = 0 /\ now' = now + work /\ locked' = locked
      /\ current' = next.best /\ backup' = next.backup /\ asn' = asn + next.gap
      /\ start' = (start + (next.gap * Length + drift)) % Wrap
  BY DEF Turn, Advanced
<1>5. /\ now \in Nat /\ base \in Int /\ asn \in Nat /\ drift \in Int /\ start \in Int /\ wake \in Nat
  BY <1>1, <1>2 DEF TypeOK
<1>6. start' \in 0 .. Wrap - 1
  <2> HIDE DEF next
  <2>1. start + (next.gap * Length + drift) \in Int
    BY <1>1, <1>3, <1>5
  <2> QED BY <1>1, <1>4, <2>1, Division, Zenon
<1>7. wake' \in Nat /\ pc' \in {"asleep", "loop"}
  <2>1. CASE pc' = pc /\ wake' = wake
    BY <1>2, <2>1 DEF TypeOK
  <2>2. CASE pc' = "asleep" /\ wake' = now' + ((start' - now') % Wrap)
    <3>1. start' - now' \in Int /\ now' \in Nat
      BY <1>1, <1>4, <1>5, <1>6
    <3>2. (start' - now') % Wrap \in 0 .. Wrap - 1
      BY <1>1, <3>1, Division, Zenon
    <3> QED BY <2>2, <3>1, <3>2
  <2> QED BY <2>1, <2>2 DEF Turn
<1>8. TypeOK'
  <2>1. /\ links' \in Schedules /\ base' \in Int /\ asn' \in Nat
        /\ drift' \in - Drift .. Drift /\ now' \in Nat
    BY <1>1, <1>2, <1>3, <1>4, <1>5 DEF TypeOK
  <2>2. locked' \in BOOLEAN
    BY <1>2, <1>4 DEF TypeOK
  <2>3. {current', backup'} \subseteq {links'[i] : i \in DOMAIN links'} \cup {NoLink}
    BY <1>2, <1>4, NextLinkRight DEF Links
  <2> QED BY <1>6, <1>7, <2>1, <2>2, <2>3 DEF TypeOK
<1>9. ListensIfItCan'
  <2>1. Fits(current', backup', asn')
    BY <1>2, <1>4, NextLinkRight
  <2>2. \A s : At(s)' = At(s)
    BY <1>4 DEF At, Links
  <2> QED BY <2>1, <2>2 DEF ListensIfItCan, Fits
<1>10. ASSUME NEW s \in asn + 1 .. asn' - 1 PROVE At(s) = {}
  <2>1. s \in asn + 1 .. asn + NextLink.gap - 1
    BY <1>3, <1>4, <1>5
  <2> QED BY <1>2, <2>1, NextLinkRight
<1> QED BY <1>8, <1>9, <1>10 DEF Chosen

(* One turn of the loop: either the timer is set to the start of the slot  *)
(* of the next link, or it is too late for it, and by less than before.    *)
LEMMA TurnStep ==
  ASSUME Guard = 0, IInv, NEW work \in 0 .. Work, Turn(work)
  PROVE  /\ IInv'
         /\ pc' = "loop" => now' + Guard >= Start(asn')
<1> DEFINE next == NextLink
           step == next.gap * Length
           time == step + drift
           t == now + work
           late == Late + work
<1>1. /\ Wrap \in Nat \ {0} /\ Length \in Nat /\ Drift \in Nat /\ Work \in Nat
      /\ Drift + Work < Length
  BY SlotsAssumption
<1>2. TypeOK /\ pc = "loop" /\ Late \in 0 .. Wrap - 1 - Work /\ start = Origin % Wrap
  BY DEF IInv, Chosen, Turn
<1>3. /\ now \in Nat /\ base \in Int /\ asn \in Nat /\ drift \in - Drift .. Drift
  BY <1>2 DEF TypeOK
<1>4. next.gap \in Nat \ {0} /\ step \in Nat /\ step + Drift < Wrap /\ step >= Length
  <2>1. next.gap \in Nat \ {0} /\ step + Drift < Wrap
    BY <1>2, NextLinkRight
  <2> HIDE DEF next
  <2>2. 1 * Length <= next.gap * Length
    BY <1>1, <2>1, ProductOrder
  <2> QED BY <1>1, <2>1, <2>2
<1>5. /\ asn' = asn + next.gap /\ Start(asn') = Start(asn) + step /\ asn' \in Nat
  <2>1. asn' = asn + next.gap
    BY DEF Turn
  <2> HIDE DEF next
  <2>2. (asn + next.gap) * Length = asn * Length + next.gap * Length
    BY <1>1, <1>3, <1>4
  <2>3. asn * Length \in Int /\ next.gap * Length \in Int
    BY <1>1, <1>3, <1>4
  <2> QED BY <1>3, <1>4, <2>1, <2>2, <2>3 DEF Start
<1>6. Origin \in Int /\ Late = now - Origin /\ Origin + drift = Start(asn) /\ Start(asn) \in Int
  <2>1. asn * Length \in Int
    BY <1>1, <1>3
  <2> QED BY <1>3, <2>1 DEF Origin, Late, Start
<1>7. time \in 1 .. Wrap - 1 /\ Origin + time = Start(asn') /\ time > Work
  <2> HIDE DEF step
  <2> QED BY <1>1, <1>3, <1>4, <1>5, <1>6
<1>8. late \in 0 .. Wrap - 1 /\ t = Origin + late
  BY <1>1, <1>2, <1>3, <1>6
<1>9. check_timer_miss(start, (time - Guard) % Wrap, t % Wrap) <=> time <= late
  <2> HIDE DEF time, t, late
  <2>1. time - Guard = time /\ time \in 0 .. Wrap - 1
    BY <1>7
  <2>2. time % Wrap = time
    BY <1>1, <2>1, SmallRemainder
  <2> QED BY <1>2, <1>6, <1>8, <2>1, <2>2, MissIsTold
<1> HIDE DEF step, time, t, late
<1>10. start' = Start(asn') % Wrap
  <2>1. start' = (start + time) % Wrap
    BY DEF Turn, Advanced, time, step, next
  <2>2. ((Origin % Wrap) + time) % Wrap = (Origin + time) % Wrap
    <3>1. time \in Int
      BY <1>7
    <3> QED BY <1>1, <1>6, <3>1, RemainderOfSum, Zenon
  <2> QED BY <1>2, <1>7, <2>1, <2>2
<1>11. /\ base' = base /\ links' = links /\ drift' = 0 /\ now' = t /\ locked' = locked
       /\ current' = next.best /\ backup' = next.backup
  BY DEF Turn, t, next
<1>12. Origin' = Start(asn') /\ Late' = t - Start(asn')
  <2>1. Origin' = Start(asn)' - drift' /\ Late' = now' - Origin' /\ Start(asn)' = Start(asn')
    BY <1>11 DEF Origin, Late, Start
  <2>2. Start(asn') \in Int
    BY <1>5, <1>6, <1>7
  <2> QED BY <2>1, <2>2, <1>11
<1>13. /\ time <= late => pc' = "loop" /\ wake' = wake
       /\ ~ (time <= late) => pc' = "asleep" /\ wake' = t + ((start' - t) % Wrap)
  <2>1. check_timer_miss(start, (time - Guard) % Wrap, t % Wrap) <=> time <= late
    BY <1>9
  <2> QED BY <2>1, <1>2 DEF Turn, time, step, t, next
<1>14. ~ (time <= late) => wake' = Start(asn')
  <2> SUFFICES ASSUME time > late PROVE wake' = Start(asn')
    BY <1>7, <1>8, <1>13
  <2>1. ((Start(asn') % Wrap) - t) % Wrap = (Start(asn') - t) % Wrap
    <3>1. Start(asn') \in Int /\ t \in Int
      BY <1>6, <1>7, <1>8
    <3>2. \A a, b \in Int : ((a % Wrap) - b) % Wrap = (a - b) % Wrap
      BY <1>1, RemainderOfSum, Zenon
    <3> QED BY <3>1, <3>2, Zenon
  <2>2. Start(asn') - t = time - late /\ time - late \in 0 .. Wrap - 1
    BY <1>1, <1>6, <1>7, <1>8
  <2>3. (time - late) % Wrap = time - late
    BY <1>1, <2>2, SmallRemainder, Zenon
  <2>4. wake' = t + (time - late)
    <3>1. wake' = t + ((start' - t) % Wrap)
      BY <1>7, <1>8, <1>13
    <3> QED BY <1>10, <3>1, <2>1, <2>2, <2>3, Zenon
  <2> QED BY <1>6, <1>7, <1>8, <2>2, <2>4
<1>15. time <= late => Late' \in 0 .. Wrap - 1 - Work
  BY <1>1, <1>2, <1>3, <1>6, <1>7, <1>8, <1>12 DEF late
<1>16. Chosen'
  BY TurnChooses DEF IInv
<1>17. pc' = "asleep" => wake' = Start(asn)' /\ drift' = 0
  BY <1>11, <1>13, <1>14 DEF Start
<1>18. pc' = "loop" => Late' \in 0 .. Wrap - 1 - Work
  BY <1>13, <1>15
<1>19. start' = Origin' % Wrap
  BY <1>10, <1>12
<1>20. pc' = "loop" => now' + Guard >= Start(asn')
  <2> SUFFICES ASSUME time <= late PROVE now' >= Start(asn')
    BY <1>3, <1>11, <1>13 DEF t
  <2> QED BY <1>6, <1>7, <1>8, <1>11
<1>21. IInv'
  BY <1>16, <1>17, <1>18, <1>19 DEF IInv
<1> QED BY <1>20, <1>21

(* The slot that the timer starts at its time ends soon after, and the     *)
(* correction says how far the network is from the clock then.             *)
LEMMA SlotStep == IInv /\ Slot => IInv'
<1> SUFFICES ASSUME IInv, Slot PROVE IInv'
  OBVIOUS
<1>1. /\ Wrap \in Nat \ {0} /\ Length \in Nat /\ Drift \in Nat /\ Work \in Nat /\ MaxSlot \in Nat
      /\ Drift + Work < Length /\ 3 * Length <= Wrap
  BY SlotsAssumption
<1>2. PICK moved \in - Drift .. Drift, took \in 0 .. MaxSlot :
         /\ current = NoLink => took = 0
         /\ now' = wake + took /\ base' = base + moved /\ drift' = moved
  BY DEF Slot
<1>3. /\ TypeOK /\ wake = Start(asn) /\ drift = 0 /\ start = Origin % Wrap
      /\ UNCHANGED <<links, asn, start, current, backup, wake, locked>> /\ pc' = "loop"
  BY DEF IInv, Chosen, Slot
<1>4. base \in Int /\ wake \in Nat /\ asn * Length \in Int
  BY <1>1, <1>3 DEF TypeOK
<1>5. Origin = wake /\ Origin' = wake /\ Late' = took
  <2>1. Start(asn)' = base' + asn * Length
    BY <1>3 DEF Start
  <2> QED BY <1>2, <1>3, <1>4, <2>1 DEF Origin, Late, Start
<1>6. took + Work < Wrap
  <2>1. CASE current = NoLink
    BY <1>1, <1>2, <2>1
  <2>2. CASE current # NoLink
    <3>1. links \in Schedules /\ current \in Links
      BY <1>3, <2>2 DEF TypeOK, Links
    <3> DEFINE w == Size[current.handle]
    <3>2. w \in Nat \ {0} /\ w * Length + Drift + MaxSlot < Wrap
      BY <3>1, LinkType
    <3> HIDE DEF w
    <3>3. 1 * Length <= w * Length
      BY <1>1, <3>2, ProductOrder
    <3> QED BY <1>1, <1>2, <3>2, <3>3
  <2> QED BY <2>1, <2>2
<1>7. Late' \in 0 .. Wrap - 1 - Work
  BY <1>1, <1>2, <1>5, <1>6
<1>8. TypeOK'
  <2>1. now' \in Nat /\ base' \in Int /\ drift' \in - Drift .. Drift
    BY <1>1, <1>2, <1>4
  <2> QED BY <1>3, <2>1 DEF TypeOK
<1>9. ListensIfItCan'
  BY <1>3 DEF ListensIfItCan
<1> QED BY <1>3, <1>5, <1>7, <1>8, <1>9 DEF IInv, Chosen

(* The lock changes nothing else.                                          *)
LEMMA LockStep == IInv /\ Lock => IInv'
BY DEF IInv, Chosen, TypeOK, ListensIfItCan, Lock, Origin, Late, Start, At, Links

(* What no step of a node does on any clock.                               *)
LEMMA NextChosen == Chosen /\ [Next]_vars => Chosen'
<1> SUFFICES ASSUME Chosen, [Next]_vars PROVE Chosen'
  OBVIOUS
<1>1. CASE \E work \in 0 .. Work : Turn(work)
  BY <1>1, TurnChooses
<1>2. CASE Slot
  <2>1. PICK moved \in - Drift .. Drift, took \in 0 .. MaxSlot :
           now' = wake + took /\ base' = base + moved /\ drift' = moved
    BY <1>2 DEF Slot
  <2>2. /\ TypeOK /\ pc' = "loop"
        /\ UNCHANGED <<links, asn, start, current, backup, wake, locked>>
    BY <1>2 DEF Chosen, Slot
  <2>3. now' \in Nat /\ base' \in Int /\ drift' \in - Drift .. Drift
    BY <2>1, <2>2, SlotsAssumption DEF TypeOK
  <2> QED BY <2>2, <2>3 DEF Chosen, TypeOK, ListensIfItCan
<1>3. CASE Lock
  BY <1>3 DEF Chosen, TypeOK, ListensIfItCan, Lock, At, Links
<1>4. CASE UNCHANGED vars
  BY <1>4 DEF Chosen, TypeOK, ListensIfItCan, vars, At, Links
<1> QED BY <1>1, <1>2, <1>3, <1>4 DEF Next

LEMMA InitChosen == Init => Chosen
BY InitIInv DEF IInv

LEMMA NextIInv == Guard = 0 /\ IInv /\ [Next]_vars => IInv'
<1> SUFFICES ASSUME Guard = 0, IInv, [Next]_vars PROVE IInv'
  OBVIOUS
<1>1. CASE \E work \in 0 .. Work : Turn(work)
  BY <1>1, TurnStep
<1>2. CASE Slot
  BY <1>2, SlotStep
<1>3. CASE Lock
  BY <1>3, LockStep
<1>4. CASE UNCHANGED vars
  BY <1>4 DEF IInv, Chosen, TypeOK, ListensIfItCan, vars, Origin, Late, Start, At, Links
<1> QED BY <1>1, <1>2, <1>3, <1>4 DEF Next
-----------------------------------------------------------------------------
(* The variables keep their types, on every clock and with every guard     *)
(* time: the slot start stays a reading of the clock, and the link and its *)
(* backup are links of the schedule or none.                               *)
THEOREM TypeCorrect == Spec => []TypeOK
<1>1. Chosen => TypeOK
  BY DEF Chosen
<1> QED BY <1>1, InitChosen, NextChosen, PTL DEF Spec

(* A node that wakes for a link wakes for the right one: of those active   *)
(* in that slot none is better, and if any can listen, then it or its      *)
(* backup can (tsch_schedule_get_next_active_link).                        *)
THEOREM ListensWheneverItCan == Spec => []ListensIfItCan
<1>1. Chosen => ListensIfItCan
  BY DEF Chosen
<1> QED BY <1>1, InitChosen, NextChosen, PTL DEF Spec

(* Without a guard time, the timer fires at the start of the slot whose    *)
(* number the node has, by the clock of the network.                       *)
THEOREM StaysInStep ==
  ASSUME Guard = 0
  PROVE  Spec => []InStep
<1>1. IInv => InStep
  BY DEF IInv, InStep
<1>2. IInv /\ [Next]_vars => IInv'
  BY NextIInv
<1> QED BY <1>1, <1>2, InitIInv, PTL DEF Spec

(* Without a guard time, a node sleeps past no link, and gives one up only *)
(* when it is too late for it.                                             *)
THEOREM PassesOverNoLink ==
  ASSUME Guard = 0
  PROVE  Spec => NeverPassedOver
<1> DEFINE Step ==
      asn' # asn =>
        /\ \A s \in asn + 1 .. asn' - 1 : At(s) = {}
        /\ pc' = "loop" => now' + Guard >= Start(asn')
<1>1. IInv /\ [Next]_vars => IInv'
  BY NextIInv
<1>2. IInv /\ [Next]_vars => [Step]_vars
  <2> SUFFICES ASSUME IInv, Next, asn' # asn PROVE Step
    BY DEF vars
  <2>1. PICK work \in 0 .. Work : Turn(work)
    BY DEF Next, Slot, Lock
  <2>2. Chosen
    BY DEF IInv
  <2> QED BY <2>1, <2>2, TurnChooses, TurnStep
<1> QED BY <1>1, <1>2, InitIInv, PTL DEF Spec, NeverPassedOver
=============================================================================
