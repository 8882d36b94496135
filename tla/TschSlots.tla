----------------------------- MODULE TschSlots -----------------------------
(***************************************************************************)
(* How a TSCH node finds its way from slot to slot: the choice of the next *)
(* link (tsch_schedule_get_next_active_link), the timer that is set for it *)
(* on a clock of w bits, and the loop that goes on to a later link while   *)
(* the deadline is missed (end of tsch_slot_operation, and                 *)
(* tsch_slot_operation_start after joining).                               *)
(*                                                                         *)
(* now and base are true times, in ticks, which the node does not know:    *)
(* slot s of the network starts at base + s * Length. base moves against   *)
(* the clock of the node.                                                  *)
(***************************************************************************)
EXTENDS Integers, Sequences, FiniteSets

CONSTANTS Schedules,  (* sequences of links [handle, timeslot, options],   *)
                      (* in the order of the lists of tsch-schedule.c      *)
          Size,       (* [handle -> slots of the slotframe]                *)
          NoLink,
          Wrap,       (* 2 ^ bits of rtimer_clock_t                        *)
          Length,     (* tsch_timing[tsch_ts_timeslot_length]              *)
          Guard,      (* RTIMER_GUARD: 0 on Cooja, 2 on motes at 32 kHz    *)
          Drift,      (* bound: of base while the node sleeps              *)
          Work,       (* bound: ticks one turn of the loop takes           *)
          MaxSlot,    (* bound: ticks from a wakeup to the end of its slot *)
          MaxAsn      (* bound                                             *)

ASSUME SlotsAssumption ==
  /\ {Wrap, Length} \subseteq Nat \ {0}
  /\ {Guard, Drift, Work, MaxSlot, MaxAsn} \subseteq Nat
  /\ DOMAIN Size \subseteq Nat /\ \A h \in DOMAIN Size : Size[h] \in Nat \ {0}
  /\ \A s \in Schedules : s \in Seq({s[i] : i \in DOMAIN s})
  /\ \A s \in Schedules : \A i \in DOMAIN s :
       /\ s[i] # NoLink
       /\ s[i].handle \in DOMAIN Size /\ s[i].timeslot \in 0 .. Size[s[i].handle] - 1
       /\ s[i].options \subseteq {"TX", "RX"}
  (* What a rtimer_clock_t can hold: a mote with 16 bits at 32 kHz and     *)
  (* slots of 10 ms has room for a slotframe of 199 slots.                 *)
  /\ \A h \in DOMAIN Size : Size[h] * Length + Drift + MaxSlot < Wrap
  /\ 3 * Length <= Wrap
  /\ Drift + Work + Guard < Length

VARIABLES links,    (* the schedule                                        *)
          now, base,
          asn,      (* tsch_current_asn                                    *)
          start,    (* current_slot_start                                  *)
          drift,    (* drift_correction                                    *)
          current,  (* current_link                                        *)
          backup,   (* backup_link                                         *)
          pc,       (* "asleep" or in the "loop"                           *)
          wake,     (* when the timer will fire                            *)
          locked    (* the process context holds the lock                  *)

vars == <<links, now, base, asn, start, drift, current, backup, pc, wake, locked>>

Start(s) == base + s * Length

TypeOK ==
  /\ links \in Schedules
  /\ now \in Nat /\ base \in Int /\ asn \in Nat /\ wake \in Nat
  /\ start \in 0 .. Wrap - 1 /\ drift \in -Drift .. Drift
  /\ {current, backup} \subseteq {links[i] : i \in DOMAIN links} \cup {NoLink}
  /\ pc \in {"asleep", "loop"} /\ locked \in BOOLEAN
-----------------------------------------------------------------------------
(* The next link                                                           *)

ActiveAt(l, s) == s % Size[l.handle] = l.timeslot
Links == {links[i] : i \in DOMAIN links}
At(s) == {l \in Links : ActiveAt(l, s)}
Can(option, l) == option \in l.options

(* Slots until l is active again; never 0.                                 *)
GapRoundAhead(s, l) == Size[l.handle] + l.timeslot - (s % Size[l.handle])  \* mutant
Gap(s, l) ==
  LET timeslot == s % Size[l.handle]
  IN IF l.timeslot > timeslot THEN l.timeslot - timeslot
     ELSE Size[l.handle] + l.timeslot - timeslot

(* Of two links at the same time: Tx first, then the lowest handle.        *)
Better(l, best) ==
  IF Can("TX", l) <=> Can("TX", best) THEN l.handle < best.handle ELSE Can("TX", l)

(* A link that can listen, in case best has nothing to send. The code also *)
(* takes best itself when it stays the best.                               *)
BackupFirst(l, chosen) ==                                               \* mutant
  IF chosen.backup # NoLink THEN chosen.backup
  ELSE IF ~Better(l, chosen.best) /\ Can("RX", l) THEN l ELSE NoLink
Backup(l, chosen) ==
  IF chosen.backup # NoLink THEN chosen.backup
  ELSE IF Can("RX", chosen.best) THEN chosen.best
  ELSE IF ~Better(l, chosen.best) /\ Can("RX", l) THEN l
  ELSE NoLink

Nothing == [best |-> NoLink, gap |-> 1, backup |-> NoLink]

(* A link l, after the links before it in the lists.                       *)
Considered(chosen, l, s) ==
  LET gap == Gap(s, l)
  IN IF chosen.best = NoLink \/ gap < chosen.gap
     THEN [best |-> l, gap |-> gap, backup |-> NoLink]
     ELSE IF gap = chosen.gap
     THEN [best |-> IF Better(l, chosen.best) THEN l ELSE chosen.best,
           gap |-> gap, backup |-> Backup(l, chosen)]
     ELSE chosen

tsch_schedule_get_next_active_link(s) ==
  LET chosen[i \in 0 .. Len(links)] ==
        IF i = 0 THEN Nothing ELSE Considered(chosen[i - 1], links[i], s)
  IN chosen[Len(links)]

(* It returns no link while the lock is held; the loop then takes the next *)
(* slot.                                                                   *)
NextLink == IF locked THEN Nothing ELSE tsch_schedule_get_next_active_link(asn)
-----------------------------------------------------------------------------
(* The timer                                                               *)

(* check_timer_miss, on a clock that wraps.                                *)
check_timer_missOfOrder(ref_time, offset, t) ==                         \* mutant
  (ref_time + offset) % Wrap <= t
check_timer_miss(ref_time, offset, t) ==
  LET target == (ref_time + offset) % Wrap
      now_has_overflowed == t < ref_time
      target_has_overflowed == target < ref_time
  IN IF now_has_overflowed <=> target_has_overflowed THEN target <= t ELSE now_has_overflowed

(* current_slot_start, the sum of all times to the next slot.              *)
AdvancedUnwrapped(time) == start + time                                 \* mutant
Advanced(time) == (start + time) % Wrap

(* One turn of the loop. The timer fires when the clock next shows what it *)
(* was set to.                                                             *)
Turn(work) ==
  LET next == NextLink
      time == next.gap * Length + drift
      t == now + work
  IN /\ pc = "loop"
     /\ now' = t
     /\ asn' = asn + next.gap
     /\ start' = Advanced(time)
     /\ drift' = 0
     /\ current' = next.best /\ backup' = next.backup
     /\ IF check_timer_miss(start, (time - Guard) % Wrap, t % Wrap)
        THEN UNCHANGED <<pc, wake>>
        ELSE pc' = "asleep" /\ wake' = t + ((start' - t) % Wrap)
     /\ UNCHANGED <<links, base, locked>>

(* The timer fires and the slot takes its time, none when it is skipped.   *)
(* A node that hears its time source learns how far base has moved.        *)
Slot ==
  /\ pc = "asleep" /\ asn <= MaxAsn
  /\ \E moved \in -Drift .. Drift, took \in 0 .. MaxSlot :
       /\ current = NoLink => moved = 0 /\ took = 0
       /\ now' = wake + took
       /\ base' = base + moved /\ drift' = moved
  /\ pc' = "loop"
  /\ UNCHANGED <<links, asn, start, current, backup, wake, locked>>

(* The process context takes and releases the lock between slots.          *)
Lock ==
  /\ pc = "asleep"
  /\ locked' = ~locked
  /\ UNCHANGED <<links, now, base, asn, start, drift, current, backup, pc, wake>>

(* tsch_slot_operation_sync: the node has joined in some slot, and starts  *)
(* slot operation within the next two.                                     *)
Init ==
  /\ links \in Schedules
  /\ base = 0 /\ asn = 0 /\ start = 0 /\ drift = 0
  /\ now \in 0 .. 2 * Length
  /\ current = NoLink /\ backup = NoLink
  /\ pc = "loop" /\ wake = 0 /\ locked = FALSE

Next == (\E work \in 0 .. Work : Turn(work)) \/ Slot \/ Lock

Spec == Init /\ [][Next]_vars
-----------------------------------------------------------------------------
(* Properties *)

(* The timer fires at the start of the slot whose number the node has, by  *)
(* the clock of the network: whatever deadlines were missed, the clock     *)
(* wrapped, links skipped and corrections made on the way.                 *)
InStep == pc = "asleep" => wake = Start(asn)

(* A node never sleeps past a link, and gives one up only when it is too   *)
(* late for it.                                                            *)
NeverPassedOver ==
  [][asn' # asn =>
       /\ \A s \in asn + 1 .. asn' - 1 : At(s) = {}
       /\ pc' = "loop" => now' + Guard >= Start(asn')]_vars

(* The link is one that can send if there is one, and of these one with    *)
(* the lowest handle; if it cannot listen and another can, that is the     *)
(* backup: a node that has nothing to send listens if it can.              *)
ListensIfItCan ==
  pc = "asleep" /\ current # NoLink =>
    /\ current \in At(asn) /\ ~ \E l \in At(asn) : Better(l, current)
    /\ backup # NoLink => backup \in At(asn) /\ Can("RX", backup)
    /\ (\E l \in At(asn) : Can("RX", l)) => Can("RX", current) \/ backup # NoLink
=============================================================================
