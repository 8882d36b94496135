---------------------------- MODULE InfoElements ----------------------------
(***************************************************************************)
(* The information elements of frame802154e-ie.c: header elements (the     *)
(* time correction of an acknowledgement, the ends of the list), payload   *)
(* elements (the one a 6P packet travels in, the MLME element of a beacon) *)
(* and the sub-elements of a beacon.                                       *)
(***************************************************************************)
EXTENDS Octets

CONSTANTS MaxLinks,     (* FRAME802154E_IE_MAX_LINKS                       *)
          MaxHopping,   (* octets of ie_hopping_sequence_list              *)
          TimeElements  (* tsch_ts_elements_count                          *)

ASSUME InfoElementsAssumption == {MaxLinks, MaxHopping, TimeElements} \subseteq Nat

ACK_NACK_TIME_CORRECTION == 30
LIST_TERMINATION_1 == 126
LIST_TERMINATION_2 == 127
MLME == 1
IETF == 5
PAYLOAD_LIST_TERMINATION == 15
TSCH_SYNCHRONIZATION == 26
TSCH_SLOTFRAME_AND_LINK == 27
TSCH_TIMESLOT == 28
TSCH_CHANNEL_HOPPING_SEQUENCE == 9
SIXTOP_SUBIE_ID == 201

(* The descriptors: length, identifier, and the type in the top bit        *)
header_ie_descriptor(id, len) == WRITE16((len % 128) + (id % 256) * 128)
payload_ie_descriptor(id, len) == WRITE16((len % 2048) + (id % 16) * 2048 + 32768)
mlme_short_ie_descriptor(id, len) == WRITE16((len % 256) + (id % 128) * 256)
mlme_long_ie_descriptor(id, len) == WRITE16((len % 2048) + (id % 16) * 2048 + 32768)
-----------------------------------------------------------------------------
(* frame80215e_create_ie_...                                               *)

(* drift & 0x0fff of a two's complement number, 0x8000 for a refusal       *)
TwelveBits == {n \in Int : -2048 <= n /\ n < 2048}
TimeFieldOfMagnitude(drift, nack) ==                                \* mutant
  ((IF drift < 0 THEN 0 - drift ELSE drift) % 4096) + 32768 * Bit(nack)
TimeField(drift, nack) == (drift % 4096) + 32768 * Bit(nack)

ie_time_correction(drift, nack) ==
  header_ie_descriptor(ACK_NACK_TIME_CORRECTION, 2) \o WRITE16(TimeField(drift, nack))

ie_header_list_termination_1 == header_ie_descriptor(LIST_TERMINATION_1, 0)
ie_header_list_termination_2 == header_ie_descriptor(LIST_TERMINATION_2, 0)
ie_payload_list_termination == payload_ie_descriptor(PAYLOAD_LIST_TERMINATION, 0)

ie_ietf(len) == payload_ie_descriptor(IETF, len)
ie_mlme(len) == payload_ie_descriptor(MLME, len)

(* The ASN has five octets, the join priority one.                         *)
ie_tsch_synchronization(asn, priority) ==
  mlme_short_ie_descriptor(TSCH_SYNCHRONIZATION, 6) \o asn \o <<priority>>

(* A slotframe and its links: five octets a link                           *)
LinkOctets(links) ==
  [i \in 1 .. 5 * Len(links) |->
     LET l == links[1 + (i - 1) \div 5]
     IN (WRITE16(l.timeslot) \o WRITE16(l.channel_offset) \o <<l.options>>)[1 + ((i - 1) % 5)]]

ie_tsch_slotframe_and_link(slotframes) ==
  IF slotframes = <<>>
  THEN Ok(mlme_short_ie_descriptor(TSCH_SLOTFRAME_AND_LINK, 1) \o <<0>>)
  ELSE LET sf == slotframes[1]
       IN IF Len(slotframes) > 1 \/ Len(sf.links) > MaxLinks
          THEN Fail
          ELSE Ok(mlme_short_ie_descriptor(TSCH_SLOTFRAME_AND_LINK, 5 + 5 * Len(sf.links))
                  \o <<1, sf.handle>> \o WRITE16(sf.size) \o <<Len(sf.links)>>
                  \o LinkOctets(sf.links))

(* The template's identifier alone when it is 0, else its timing too       *)
ie_tsch_timeslot(id, timing) ==
  IF id = 0
  THEN mlme_short_ie_descriptor(TSCH_TIMESLOT, 1) \o <<0>>
  ELSE mlme_short_ie_descriptor(TSCH_TIMESLOT, 25) \o <<id>>
       \o [i \in 1 .. 2 * TimeElements |-> WRITE16(timing[(i + 1) \div 2])[2 - (i % 2)]]

(* The sequence's identifier alone when it is 0, else page, channels,      *)
(* configuration (all 0), length, sequence and current hop                 *)
ie_tsch_channel_hopping_sequence(id, list) ==
  IF Len(list) > MaxHopping
  THEN Fail
  ELSE IF id = 0
       THEN Ok(mlme_long_ie_descriptor(TSCH_CHANNEL_HOPPING_SEQUENCE, 1) \o <<0>>)
       ELSE Ok(mlme_long_ie_descriptor(TSCH_CHANNEL_HOPPING_SEQUENCE, 12 + Len(list))
               \o <<id, 0, 0, 0, 0, 0, 0, 0>> \o WRITE16(Len(list)) \o list \o WRITE16(0))
-----------------------------------------------------------------------------
(* frame802154e_parse_...: an element of len octets at offset "at" of buf, *)
(* as what it stores in struct ieee802154_ies. Fail is the -1 of the code. *)

(* The drift is a number of 12 bits, taken to 16.                          *)
Drift(field) == LET d == field % 4096 IN IF d >= 2048 THEN d - 4096 ELSE d

parse_header_ie(buf, at, len, id) ==
  IF id = ACK_NACK_TIME_CORRECTION /\ len = 2
  THEN LET field == READ16(buf, at)
       IN Ok([ie |-> "ack", nack |-> field >= 32768, drift |-> Drift(field)])
  ELSE Fail

parse_slotframe_and_linkFewer(buf, at, len) ==                      \* mutant
  IF len < 1 \/ (buf[at + 1] # 0 /\ buf[at + 5] >= MaxLinks) THEN Fail
  ELSE IF buf[at + 1] = 0 THEN Ok([ie |-> "none"])
  ELSE Ok([ie |-> "slotframe", handle |-> buf[at + 2], size |-> READ16(buf, at + 2),
           links |-> [i \in 1 .. buf[at + 5] |->
             [timeslot |-> READ16(buf, at + 5 * i), options |-> buf[at + 5 * i + 5],
              channel_offset |-> READ16(buf, at + 5 * i + 2)]]])

parse_slotframe_and_link(buf, at, len) ==
  IF len < 1 THEN Fail
  ELSE IF buf[at + 1] = 0 THEN Ok([ie |-> "none"])
  ELSE LET links == buf[at + 5]
       IN IF buf[at + 1] = 1 /\ links <= MaxLinks /\ len = 5 + 5 * links
          THEN Ok([ie |-> "slotframe", handle |-> buf[at + 2], size |-> READ16(buf, at + 2),
                   links |-> [i \in 1 .. links |->
                     [timeslot |-> READ16(buf, at + 5 * i), options |-> buf[at + 5 * i + 5],
                      channel_offset |-> READ16(buf, at + 5 * i + 2)]]])
          ELSE Fail

parse_mlme_short_ie(buf, at, len, id) ==
  CASE id = TSCH_SLOTFRAME_AND_LINK -> parse_slotframe_and_link(buf, at, len)
    [] id = TSCH_SYNCHRONIZATION /\ len = 6 ->
         Ok([ie |-> "sync", asn |-> Octets(buf, at, 5), priority |-> buf[at + 6]])
    [] id = TSCH_TIMESLOT /\ len \in {1, 25} ->
         Ok([ie |-> "timeslot", id |-> buf[at + 1],
             timing |-> [i \in 1 .. (IF len = 25 THEN TimeElements ELSE 0) |->
                           READ16(buf, at + 2 * i - 1)]])
    [] OTHER -> Fail

parse_mlme_long_ie(buf, at, len, id) ==
  IF id = TSCH_CHANNEL_HOPPING_SEQUENCE /\ len > 0
  THEN LET n == IF len > 1 THEN READ16(buf, at + 8) ELSE 0
       IN Ok([ie |-> "hopping", id |-> buf[at + 1],
              list |-> IF n <= MaxHopping /\ len = 12 + n THEN Octets(buf, at + 10, n) ELSE <<>>])
  ELSE Fail

(* An element of a payload: its 6P content, past the identifier            *)
parse_ietf(buf, at, len) ==
  IF buf[at + 1] = SIXTOP_SUBIE_ID
  THEN [ie |-> "sixtop", at |-> at + 1, len |-> len - 1]
  ELSE [ie |-> "none"]

(* frame802154e_parse_information_elements: what a round of its loop finds *)
(* and where the next one starts. The loop is at an offset, in one of the  *)
(* three states of the code, with so many octets of an MLME element left;  *)
(* rest[l] is what it finds from l on. The length of an IETF element is    *)
(* not compared with what is left of the buffer.                           *)
Loop == [at : Nat, state : {"HEADER", "PAYLOAD", "MLME"}, nested : Nat]
In(state, at) == [at |-> at, state |-> state, nested |-> 0]
Nested(len, at) == [at |-> at, state |-> "MLME", nested |-> len]

Found(e, rest) == {[r EXCEPT !.ies = <<e>> \o @] : r \in rest}
FoundIn(es, rest) == UNION {Found(e, rest) : e \in es}
Ended(at) == Ok([ies |-> <<>>, end |-> at])

HeaderElement(buf, desc, at, rest) ==
  LET len == desc % 128
      id == (desc % 32768) \div 128
  IN IF desc >= 32768 THEN Fail
     ELSE IF id = LIST_TERMINATION_1
     THEN IF len = 0 THEN Found([ie |-> "header", end |-> at], rest[In("PAYLOAD", at)]) ELSE Fail
     ELSE IF id = LIST_TERMINATION_2
     THEN IF len = 0 THEN Ended(at) ELSE Fail
     ELSE IF len > Len(buf) - at THEN Fail
     ELSE FoundIn(parse_header_ie(buf, at, len, id), rest[In("HEADER", at + len)])

PayloadElement(buf, desc, at, rest) ==
  LET len == desc % 2048
      id == (desc % 32768) \div 2048
  IN IF desc < 32768 THEN Fail
     ELSE IF id = MLME THEN rest[Nested(len, at)]
     ELSE IF id = IETF THEN Found(parse_ietf(buf, at, len), rest[In("PAYLOAD", at + len)])
     ELSE IF id = PAYLOAD_LIST_TERMINATION /\ len = 0 THEN Ended(at)
     ELSE Fail

MlmeElement(buf, desc, at, nested, rest) ==
  LET long == desc >= 32768
      len == IF long THEN desc % 2048 ELSE desc % 256
      id == IF long THEN (desc % 32768) \div 2048 ELSE desc \div 256
      left == nested - (2 + len)
      next == IF left = 0 THEN In("PAYLOAD", at + len) ELSE Nested(left, at + len)
  IN IF len > Len(buf) - at \/ left < 0 THEN Fail
     ELSE FoundIn(IF long THEN parse_mlme_long_ie(buf, at, len, id)
                          ELSE parse_mlme_short_ie(buf, at, len, id), rest[next])

Round(buf, l, rest) ==
  IF l.at >= Len(buf) THEN Ended(l.at)
  ELSE IF Len(buf) - l.at < 2 THEN Fail
  ELSE LET desc == READ16(buf, l.at)
       IN CASE l.state = "HEADER"  -> HeaderElement(buf, desc, l.at + 2, rest)
            [] l.state = "PAYLOAD" -> PayloadElement(buf, desc, l.at + 2, rest)
            [] l.state = "MLME"    -> MlmeElement(buf, desc, l.at + 2, l.nested, rest)

(* All rounds: the elements found, where they end and, by the way, where   *)
(* the header elements do.                                                 *)
ParsedFrom(buf) ==
  LET rounds[l \in Loop] == Round(buf, l, rounds) IN rounds[In("HEADER", 0)]
=============================================================================
