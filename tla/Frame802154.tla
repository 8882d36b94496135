---------------------------- MODULE Frame802154 ----------------------------
(***************************************************************************)
(* The headers of frame802154.c and what framer-802154.c puts in them and  *)
(* takes out again. Built without auxiliary security headers (the program  *)
(* runs nullsec), in frames of version 2, as TSCH needs.                   *)
(***************************************************************************)
EXTENDS Octets

CONSTANTS LinkaddrSize,    (* LINKADDR_SIZE, 2 or 8                        *)
          Version,         (* FRAME802154_VERSION                          *)
          SuppressSeqno    (* FRAME802154_SUPPR_SEQNO                      *)

ASSUME Frame802154Assumption ==
  LinkaddrSize \in {2, 8} /\ Version \in 0..3 /\ SuppressSeqno \in BOOLEAN

NOADDR == 0
SHORT == 2
LONG == 3
BEACON == 0
DATA == 1
ACK == 2
E2012 == 2
BroadcastPan == 65535
NoSeqno == 65535

FCF == [type : 0..7, security : BOOLEAN, pending : BOOLEAN, ack : BOOLEAN,
        compression : BOOLEAN, suppress : BOOLEAN, ies : BOOLEAN,
        dest : {NOADDR, SHORT, LONG}, version : 0..3, src : {NOADDR, SHORT, LONG}]

addr_len(mode) == CASE mode = SHORT -> 2 [] mode = LONG -> 8 [] OTHER -> 0
AddrMode == IF LinkaddrSize = 2 THEN SHORT ELSE LONG
Null == [i \in 1..8 |-> 0]
Addr8(a) == [i \in 1..8 |-> IF i <= Len(a) THEN a[i] ELSE 0]

(* Which PAN identifiers a header has, by its frame control field          *)
HasDestPan(f) ==
  IF f.version = E2012
  THEN \/ f.dest = NOADDR /\ f.src = NOADDR /\ f.compression
       \/ f.dest # NOADDR /\ f.src = NOADDR /\ ~f.compression
       \/ f.dest = LONG /\ f.src = LONG /\ ~f.compression
       \/ f.dest = SHORT /\ f.src # NOADDR
       \/ f.dest # NOADDR /\ f.src = SHORT
  ELSE f.type # ACK /\ f.dest # NOADDR

HasSrcPan(f) ==
  IF f.version = E2012
  THEN /\ ~f.compression
       /\ <<f.dest, f.src>> \in {<<NOADDR, LONG>>, <<NOADDR, SHORT>>, <<SHORT, SHORT>>,
                                 <<SHORT, LONG>>, <<LONG, SHORT>>}
  ELSE f.type # ACK /\ ~f.compression /\ f.src # NOADDR

(* field_len: below version 2 the code decides on compression itself.      *)
Compressed(p) ==
  IF p.fcf.version < E2012
  THEN [p EXCEPT !.fcf.compression =
          p.fcf.dest # NOADDR /\ p.fcf.src # NOADDR /\ p.src_pid = p.dest_pid]
  ELSE p

hdrlen(p) ==
  LET f == Compressed(p).fcf
  IN 2 + Bit(~f.suppress) + 2 * Bit(HasDestPan(f)) + 2 * Bit(HasSrcPan(f))
     + addr_len(f.dest) + addr_len(f.src)

create_fcf(f) ==
  <<f.type + 8 * Bit(f.security) + 16 * Bit(f.pending) + 32 * Bit(f.ack) + 64 * Bit(f.compression),
    Bit(f.suppress) + 2 * Bit(f.ies) + 4 * f.dest + 16 * f.version + 64 * f.src>>

parse_fcf(buf) ==
  LET bit(o, n) == (buf[o] \div n) % 2 = 1
  IN [type |-> buf[1] % 8, security |-> bit(1, 8), pending |-> bit(1, 16), ack |-> bit(1, 32),
      compression |-> bit(1, 64), suppress |-> bit(2, 1), ies |-> bit(2, 2),
      dest |-> (buf[2] \div 4) % 4, version |-> (buf[2] \div 16) % 4, src |-> (buf[2] \div 64) % 4]

(* Addresses go with their last octet first.                               *)
AddrOctets(addr, mode) == Reversed(SubSeq(addr, 1, addr_len(mode)))
Only(has, octets) == IF has THEN octets ELSE <<>>

(* frame802154_create                                                      *)
create_header(params) ==
  LET p == Compressed(params)
      f == p.fcf
  IN create_fcf(f) \o Only(~f.suppress, <<p.seq>>)
     \o Only(HasDestPan(f), WRITE16(p.dest_pid)) \o AddrOctets(p.dest, f.dest)
     \o Only(HasSrcPan(f), WRITE16(p.src_pid)) \o AddrOctets(p.src, f.src)

(* frame802154_parse: the frame and the length of its header; 0 is Fail.   *)
parse_header(buf) ==
  IF Len(buf) < 2 THEN Fail
  ELSE LET f == parse_fcf(buf)
           destPan == 2 + Bit(~f.suppress)
           dest == destPan + 2 * Bit(f.dest # NOADDR /\ HasDestPan(f))
           srcPan == dest + addr_len(f.dest)
           src == srcPan + 2 * Bit(f.src # NOADDR /\ HasSrcPan(f))
           hdr == src + addr_len(f.src)
           destPid == IF f.dest # NOADDR /\ HasDestPan(f) THEN READ16(buf, destPan) ELSE 0
           srcPid == IF HasSrcPan(f) THEN READ16(buf, srcPan) ELSE destPid
       IN IF hdr > Len(buf) THEN Fail
          ELSE Ok([fcf |-> f, hdr |-> hdr,
                   seq |-> IF f.suppress THEN NoSeqno ELSE buf[3],
                   dest_pid |-> IF f.src # NOADDR /\ HasSrcPan(f) /\ ~HasDestPan(f)
                                THEN srcPid ELSE destPid,
                   dest |-> Addr8(Reversed(Octets(buf, dest, addr_len(f.dest)))),
                   src_pid |-> IF f.src = NOADDR THEN 0 ELSE srcPid,
                   src |-> Addr8(Reversed(Octets(buf, src, addr_len(f.src))))])

is_broadcast_addrOfTwo(mode, addr) == addr[1] = 255 /\ addr[2] = 255  \* mutant
is_broadcast_addr(mode, addr) == \A i \in 1 .. (IF mode = SHORT THEN 2 ELSE 8) : addr[i] = 255

check_dest_panid(frame, pan) == HasDestPan(frame.fcf) => frame.dest_pid \in {pan, BroadcastPan}

(* frame802154_extract_linkaddr, for one of the two addresses: Null stands *)
(* for broadcast and for none, Fail for one of another size than ours.     *)
Linkaddr(mode, addr) ==
  IF mode = NOADDR \/ is_broadcast_addr(mode, addr) THEN Ok(Null)
  ELSE IF addr_len(mode) = LinkaddrSize THEN Ok(addr) ELSE Fail
-----------------------------------------------------------------------------
(* framer_802154.create, for a frame the packetbuf attributes describe:    *)
(* its type, whether it wants an acknowledgement and has elements, its     *)
(* sequence number (0: the next of mac_dsn), sender and receiver (Null:    *)
(* broadcast).                                                             *)
Numbered(attr, dsn) == IF attr.seqno # 0 THEN attr.seqno ELSE IF dsn = 0 THEN 1 ELSE dsn
DsnAfter(attr, dsn) == IF attr.seqno # 0 THEN dsn ELSE (Numbered(attr, dsn) + 1) % 256

Params(attr, dsn, pan) ==
  LET broadcast == attr.receiver = Null
  IN [fcf |-> [type |-> attr.type, security |-> FALSE, pending |-> attr.pending,
               ack |-> ~broadcast /\ attr.ack, compression |-> FALSE,
               suppress |-> IF broadcast THEN Version >= E2012 ELSE SuppressSeqno,
               ies |-> attr.ies, dest |-> IF broadcast THEN SHORT ELSE AddrMode,
               version |-> Version, src |-> AddrMode],
      seq |-> Numbered(attr, dsn),
      dest_pid |-> pan, src_pid |-> pan,
      dest |-> IF broadcast THEN Addr8(<<255, 255>>) ELSE attr.receiver,
      src |-> attr.sender]

framer_create(attr, dsn, pan) ==
  IF pan = BroadcastPan THEN Fail ELSE Ok(create_header(Params(attr, dsn, pan)))

(* framer_802154.parse: the attributes of a received frame                 *)
framer_parse(buf, pan) ==
  UNION {IF f.fcf.dest # NOADDR /\ f.dest_pid \notin {pan, BroadcastPan} THEN Fail
         ELSE Ok([type |-> f.fcf.type, pending |-> f.fcf.pending, seqno |-> f.seq,
                  receiver |-> IF f.fcf.dest = NOADDR \/ is_broadcast_addr(f.fcf.dest, f.dest)
                               THEN Null ELSE f.dest,
                  sender |-> f.src, hdr |-> f.hdr]) : f \in parse_header(buf)}
=============================================================================
