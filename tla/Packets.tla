------------------------------ MODULE Packets ------------------------------
(***************************************************************************)
(* The way of a frame through the codecs of two nodes. A scheduling        *)
(* function fills the body of a 6P packet field by field; sixp_output and  *)
(* sixtop_output wrap it in elements and the framer in a header; at the    *)
(* other node packet_input takes all that off again. So do beacons,        *)
(* acknowledgements and data frames with what they carry.                  *)
(*                                                                         *)
(* No octet changes on the air: a radio drops a frame whose checksum is    *)
(* wrong.                                                                  *)
(***************************************************************************)
EXTENDS SixpPkt, InfoElements, Frame802154

CONSTANTS Kinds,      (* pairs <<type, code>> of 6P packets                *)
          Values,     (* [field -> values it is set to]                    *)
          Storage,    (* octets of req_storage and res_storage of sfsb.c   *)
          Sfid,       (* SF_SIMPLE_SFID                                    *)
          Seqnos,     (* sequence numbers of 6P packets                    *)
          MacSeqnos,  (* values of tsch_packet_seqno, which skips 0        *)
          Pan, OtherPan,     (* IEEE802154_PANID, and that of a network    *)
                             (* within earshot                             *)
          Sender, Receiver, Other,  (* addresses, eight octets each        *)
          DataPayload,       (* the payload of a data frame                *)
          Answers,    (* bodies of answers to a request, <<>> for no answer *)
          Terminated, (* SIXP_WITH_PAYLOAD_TERMINATION_IE: the builds      *)
          Beacons,    (* what beacons announce                             *)
          Drifts      (* drifts acknowledgements report, in microseconds   *)

Link == [timeslot : Word, channel_offset : Word, options : Octet]

(* What the code around the codecs guarantees: TSCH is not built for frame *)
(* versions before 2 (tsch.c:64), the sequence number is suppressed in     *)
(* broadcasts alone (frame802154.h:86), an address ends where the nodes'   *)
(* addresses do, the storage holds the cells a packet counts (sfsb.c:77),  *)
(* a frame has at most 127 octets, and the guard time of a slot keeps a    *)
(* drift far below the twelve bits it travels in.                          *)
ASSUME HeadersAssumption ==
  /\ Version = E2012 /\ ~SuppressSeqno
  /\ {Pan, OtherPan} \subseteq Word \ {BroadcastPan} /\ Pan # OtherPan
  /\ Sender \in [1..8 -> Octet]
  /\ \A a \in {Sender, Receiver, Other} :
       /\ a \in [1..8 -> Octet] /\ a # Null /\ \E i \in 1 .. LinkaddrSize : a[i] # 255
       /\ \A i \in LinkaddrSize + 1 .. 8 : a[i] = 0
  /\ Receiver # Other
  /\ MacSeqnos \subseteq 1..255
  /\ DataPayload \in Seq(Octet)

ASSUME PacketsAssumption ==
  /\ Storage \in 8..127 /\ Sfid \in Octet /\ Seqnos \subseteq Octet
  /\ Terminated \subseteq BOOLEAN
  /\ Kinds \subseteq ({REQUEST} \X (CMD_ADD .. CMD_CLEAR))
                     \cup ({RESPONSE, CONFIRMATION} \X ({RC_SUCCESS, RC_EOL} \cup RC_ERRORS))
  /\ \A f \in {"metadata", "offset", "max_num_cells", "total_num_cells"} : Values[f] \subseteq Word
  /\ \A f \in {"cell_options", "reserved"} : Values[f] \subseteq Octet
  /\ \A v \in Values["num_cells"] : v \in Octet /\ 4 + CellLen * v <= Storage
  /\ \A f \in {"cell_list", "rel_cell_list", "cand_cell_list", "payload"} : Values[f] \subseteq Seq(Octet)

ASSUME ElementsAssumption ==
  /\ Drifts \subseteq TwelveBits
  /\ MaxLinks \in 0..50 /\ MaxHopping \in Octet /\ TimeElements = 12
  /\ \A b \in Beacons :
       /\ b.asn \in Seq(Octet) /\ Len(b.asn) = 5
       /\ {b.priority, b.timeslot, b.hopping} \subseteq Octet
       /\ b.timing \in [1 .. TimeElements -> Word] /\ b.list \in Seq(Octet)
       /\ b.slotframes \in Seq([handle : Octet, size : Word, links : Seq(Link)])

VARIABLES stage,      (* where the frame is                                *)
          pkt,        (* the 6P packet being filled                        *)
          given,      (* [field -> what was set, at most one value]        *)
          attr,       (* the attributes of the frame on its way            *)
          air,        (* the octets on the air                             *)
          got         (* what packet_input, or the slot, made of them      *)

vars == <<stage, pkt, given, attr, air, got>>

Fields == {"metadata", "cell_options", "num_cells", "reserved", "offset", "max_num_cells",
           "cell_list", "rel_cell_list", "cand_cell_list", "total_num_cells", "payload"}

(* The three a response may have lie in one place: a response has one.     *)
Alternatives == {"cell_list", "total_num_cells", "payload"}

Set(f, p, v, skip) ==
  CASE f = "metadata"        -> set_metadata(p, v)
    [] f = "cell_options"    -> set_cell_options(p, v)
    [] f = "num_cells"       -> set_num_cells(p, v)
    [] f = "reserved"        -> set_reserved(p, v)
    [] f = "offset"          -> set_offset(p, v)
    [] f = "max_num_cells"   -> set_max_num_cells(p, v)
    [] f = "cell_list"       -> set_cell_list(p, v, skip)
    [] f = "rel_cell_list"   -> set_rel_cell_list(p, v, skip)
    [] f = "cand_cell_list"  -> set_cand_cell_list(p, v, skip)
    [] f = "total_num_cells" -> set_total_num_cells(p, v)
    [] f = "payload"         -> set_payload(p, v)

Get(f, p) ==
  CASE f = "metadata"        -> get_metadata(p)
    [] f = "cell_options"    -> {o[1] : o \in get_cell_options(p)}
    [] f = "num_cells"       -> get_num_cells(p)
    [] f = "reserved"        -> {o[1] : o \in get_reserved(p)}
    [] f = "offset"          -> get_offset(p)
    [] f = "max_num_cells"   -> get_max_num_cells(p)
    [] f = "cell_list"       -> get_cell_list(p)
    [] f = "rel_cell_list"   -> get_rel_cell_list(p)
    [] f = "cand_cell_list"  -> get_cand_cell_list(p)
    [] f = "total_num_cells" -> get_total_num_cells(p)
    [] f = "payload"         -> {SubSeq(o, 1, p.len - FieldOffset(f, p)) : o \in get_payload(p, Storage)}

None == [f \in Fields |-> {}]
Lists == {"cell_list", "rel_cell_list", "cand_cell_list"}
ListLen(f) == IF given[f] = {} THEN 0 ELSE Len(The(given[f]))
-----------------------------------------------------------------------------
(* The scheduling function sets a field; a list it may set in pieces, one  *)
(* behind the other, as add_req_input does. It sets NumCells before the    *)
(* lists whose place depends on it, and gives up no more cells than that.  *)
Fill(f, v) ==
  /\ stage = "filling"
  /\ f \in Lists \/ given[f] = {}
  /\ pkt.type # REQUEST /\ f \in Alternatives =>
       \A g \in Alternatives \ {f} : given[g] = {}
  /\ f = "num_cells" => ListLen("rel_cell_list") + ListLen("cand_cell_list") = 0
  /\ f = "rel_cell_list" /\ HasLists(pkt) => ListLen(f) + Len(v) <= RelLen(pkt)
  /\ pkt' \in Set(f, pkt, v, ListLen(f))
  /\ given' = [given EXCEPT ![f] = IF @ = {} THEN Ok(v) ELSE Ok(The(@) \o v)]
  /\ UNCHANGED <<stage, attr, air, got>>

(* The length of the body the scheduling function then gives: the part     *)
(* that is always there, and its last list or its payload (req_len and     *)
(* res_len of sfsb.c).                                                     *)
BodyLen ==
  CASE IsRequest(pkt, {CMD_RELOCATE}) -> 4 + RelLen(pkt) + ListLen("cand_cell_list")
    [] IsRequest(pkt, {CMD_ADD, CMD_DELETE}) -> 4 + ListLen("cell_list")
    [] IsRequest(pkt, {CMD_COUNT}) -> 3
    [] IsRequest(pkt, {CMD_LIST}) -> 8
    [] IsRequest(pkt, {CMD_SIGNAL, CMD_CLEAR}) -> 2 + ListLen("payload")
    [] given["total_num_cells"] # {} -> 2
    [] OTHER -> ListLen("cell_list") + ListLen("payload")

(* What sixtop_output puts before a 6P packet: the end of the header       *)
(* elements, the descriptor of the payload element and its sub-identifier. *)
WrappedLessOne(content, terminated) ==                          \* mutant
  LET sub == <<SIXTOP_SUBIE_ID>> \o content
  IN ie_header_list_termination_1 \o ie_ietf(Len(content)) \o sub
     \o Only(terminated, ie_payload_list_termination)
Wrapped(content, terminated) ==
  LET sub == <<SIXTOP_SUBIE_ID>> \o content
  IN ie_header_list_termination_1 \o ie_ietf(Len(sub)) \o sub
     \o Only(terminated, ie_payload_list_termination)

(* send_packet of TSCH: a unicast frame has a number and wants an ACK.     *)
DataFrame(pan, to, seqno, ies) ==
  [pan |-> pan, type |-> DATA, pending |-> FALSE, ack |-> to # Null, ies |-> ies,
   seqno |-> IF to = Null THEN 0 ELSE seqno, sender |-> Sender, receiver |-> to]

OnAir(a, payload) ==
  /\ stage' = "air"
  /\ attr' = a
  /\ \E header \in framer_create(a, 0, a.pan) : air' = header \o payload

(* sixp_output, sixtop_output and the MAC's send_packet                    *)
SendSixp(seqno, mac) ==
  /\ stage = "filling"
  /\ given["rel_cell_list"] # {} => ListLen("rel_cell_list") = RelLen(pkt)
  /\ LET p == [pkt EXCEPT !.len = BodyLen]
     IN \E content \in create(p, Sfid, seqno, p.len > 0) :
          \E terminated \in Terminated :
            OnAir(DataFrame(Pan, Receiver, mac, TRUE), Wrapped(content, terminated))
  /\ UNCHANGED <<pkt, given, got>>

(* A data frame of the upper layers, to one node or to all                 *)
SendData(to, mac, pan) ==
  /\ stage = "filling" /\ given = None
  /\ OnAir(DataFrame(pan, to, mac, FALSE), DataPayload)
  /\ UNCHANGED <<pkt, given, got>>

(* A beacon, whose elements the Contiki core strings together: the sub-    *)
(* elements nested in one MLME element of their total length.              *)
SubElements(b) ==
  UNION {{ie_tsch_synchronization(b.asn, b.priority) \o ie_tsch_timeslot(b.timeslot, b.timing)
          \o hopping \o slotframe : hopping \in ie_tsch_channel_hopping_sequence(b.hopping, b.list)} :
           slotframe \in ie_tsch_slotframe_and_link(b.slotframes)}

SendBeacon(b) ==
  /\ stage = "filling" /\ given = None
  /\ \E subs \in SubElements(b) :
       /\ air' = ie_header_list_termination_1 \o ie_mlme(Len(subs)) \o subs
       /\ attr' = [type |-> BEACON, beacon |-> b]
  /\ stage' = "air"
  /\ UNCHANGED <<pkt, given, got>>

(* The element of an enhanced acknowledgement                              *)
SendAck(drift, nack) ==
  /\ stage = "filling" /\ given = None
  /\ air' = ie_time_correction(drift, nack)
  /\ attr' = [type |-> ACK, drift |-> drift, nack |-> nack]
  /\ stage' = "air"
  /\ UNCHANGED <<pkt, given, got>>
-----------------------------------------------------------------------------
(* sixtop_input: the 6P content of a frame with elements, parsed, and what *)
(* is then in the packetbuf for the layers above: what follows the content *)
(* (less strip_payload_termination_ie), unless a request was answered on   *)
(* the spot. The packetbuf is then the answer's, which is shorter.         *)
StrippedNot(rest) == rest                                       \* mutant
Stripped(rest) ==
  IF Len(rest) >= 2 /\ Octets(rest, 0, 2) = ie_payload_list_termination THEN From(rest, 2) ELSE rest

Reduced(data, len) == IF Len(data) < len THEN data ELSE From(data, len)

SixpIn(payload, answer) ==
  UNION {LET sixtop == {e \in {r.ies[i] : i \in DOMAIN r.ies} : e.ie = "sixtop" /\ e.len > 0}
         IN {LET p == parse(Octets(payload, e.at, e.len))
                 answers == answer # <<>> /\ \E q \in p : IsRequest(q, {CMD_ADD})
             IN [pkt |-> p, answered |-> answers,
                 up |-> Stripped(Reduced(IF answers THEN answer ELSE payload, e.at + e.len))] :
               e \in sixtop} : r \in ParsedFrom(payload)}

(* The slot takes a frame of its own PAN, to the node or to all.           *)
Taken(buf) ==
  \E f \in parse_header(buf) :
    /\ check_dest_panid(f, Pan)
    /\ Linkaddr(f.fcf.src, f.src) # Fail
    /\ \E dest \in Linkaddr(f.fcf.dest, f.dest) : dest \in {Receiver, Null}

(* tsch_rx_slot, then packet_input                                         *)
Receive(answer) ==
  /\ stage = "air" /\ attr.type = DATA
  /\ IF ~Taken(air) \/ framer_parse(air, Pan) = Fail
     THEN stage' = "dropped" /\ UNCHANGED got
     ELSE /\ stage' = "received"
          /\ \E a \in framer_parse(air, Pan) :
               LET payload == From(air, a.hdr)
               IN got' = [attr |-> a, payload |-> payload,
                          sixp |-> IF parse_fcf(air).ies THEN SixpIn(payload, answer) ELSE {}]
  /\ UNCHANGED <<pkt, given, attr, air>>

(* A beacon (eb_input, by way of tsch_packet_parse_eb) or the element of   *)
(* an acknowledgement (tsch_tx_slot, tsch_packet_parse_eack): the contents *)
(* of struct ieee802154_ies afterwards.                                    *)
ReceiveElements ==
  /\ stage = "air" /\ attr.type # DATA
  /\ IF ParsedFrom(air) = Fail
     THEN stage' = "dropped" /\ UNCHANGED got
     ELSE stage' = "received" /\ got' \in ParsedFrom(air)
  /\ UNCHANGED <<pkt, given, attr, air>>

Empty(k) == [type |-> k[1], code |-> k[2], body |-> [i \in 1..Storage |-> 0], len |-> Storage]

Init ==
  /\ stage = "filling"
  /\ \E k \in Kinds : pkt = Empty(k)
  /\ given = None
  /\ attr = <<>> /\ air = <<>> /\ got = <<>>

Next ==
  \/ \E f \in Fields : \E v \in Values[f] : Fill(f, v)
  \/ \E k \in Seqnos, mac \in MacSeqnos : SendSixp(k, mac)
  \/ \E to \in {Receiver, Other, Null}, mac \in MacSeqnos, pan \in {Pan, OtherPan} :
       SendData(to, mac, pan)
  \/ \E b \in Beacons : SendBeacon(b)
  \/ \E d \in Drifts, nack \in BOOLEAN : SendAck(d, nack)
  \/ \E answer \in Answers : Receive(answer)
  \/ ReceiveElements

Spec == Init /\ [][Next]_vars
-----------------------------------------------------------------------------
(* Properties *)

Arrived(type) == stage \in {"received", "dropped"} /\ attr.type = type

(* What a scheduling function sets in a 6P packet, in whatever order the   *)
(* format allows, is what the other end's getters return, whatever lies    *)
(* before, behind and around it: header, elements, other fields.           *)
FieldsArrive ==
  Arrived(DATA) /\ attr.ies =>
    /\ stage = "received"
    /\ \E s \in got.sixp : \E p \in s.pkt :
         /\ <<p.type, p.code, p.sfid>> = <<pkt.type, pkt.code, Sfid>>
         /\ \A f \in Fields : given[f] # {} => Get(f, p) = given[f]

(* A node takes the frames of its network for it or for all, and no other; *)
(* both ends then agree where the header ends (hdrlen is what the sender   *)
(* reckons), who sent it to whom, and under which number (a broadcast has  *)
(* none): the duplicate filter and the neighbour tables go by these.       *)
HeadersAgree ==
  Arrived(DATA) =>
    /\ (stage = "received") <=> (attr.pan = Pan /\ attr.receiver \in {Receiver, Null})
    /\ stage = "received" =>
         /\ got.attr.hdr = hdrlen(Params(attr, 0, Pan))
         /\ <<got.attr.sender, got.attr.receiver, got.attr.type>> = <<Sender, attr.receiver, DATA>>
         /\ got.attr.seqno = IF attr.receiver = Null THEN NoSeqno ELSE attr.seqno
         /\ ~attr.ies => got.payload = DataPayload

(* No part of a received 6P packet is handed to the layers above, and      *)
(* nothing of theirs is taken for one, unless a request was answered.      *)
NothingLeft ==
  stage = "received" /\ attr.type = DATA =>
    \A s \in got.sixp : attr.ies /\ (s.up = <<>> \/ s.answered)

(* A node that joins reads in a beacon what its sender announced: the ASN, *)
(* the join priority, the timing, the hopping sequence and the links.      *)
BeaconArrives ==
  Arrived(BEACON) =>
    /\ stage = "received"
    /\ LET b == attr.beacon
           ies == {got.ies[i] : i \in DOMAIN got.ies}
       IN /\ [ie |-> "sync", asn |-> b.asn, priority |-> b.priority] \in ies
          /\ \E e \in ies : e.ie = "timeslot" /\ e.id = b.timeslot /\ (b.timeslot # 0 => e.timing = b.timing)
          /\ \E e \in ies : e.ie = "hopping" /\ e.id = b.hopping /\ (b.hopping # 0 => e.list = b.list)
          /\ {[handle |-> e.handle, size |-> e.size, links |-> e.links] :
                e \in {x \in ies : x.ie = "slotframe"}} = {b.slotframes[i] : i \in DOMAIN b.slotframes}
          /\ got.end = Len(air)

(* The drift a receiver measured reaches the sender of the frame with its  *)
(* sign, and so does a refusal: the sender corrects its clock by it.       *)
CorrectionArrives ==
  Arrived(ACK) =>
    /\ stage = "received"
    /\ got.ies = <<[ie |-> "ack", nack |-> attr.nack, drift |-> attr.drift]>>
=============================================================================
