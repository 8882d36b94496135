---------------------------- MODULE PacketsProofs ----------------------------
(***************************************************************************)
(* Proofs about the codecs of Packets: for every address, PAN, sequence    *)
(* number, payload and value of a field, what one node writes is what the  *)
(* other node reads.                                                       *)
(*                                                                         *)
(* The argument goes by where strings of octets lie in a buffer (Holds):   *)
(* first the elements and the rounds of their parser, on an acknowledge-   *)
(* ment, then the header, then what sixtop_output puts around a 6P packet, *)
(* then the packet: where its fields lie, that no setter disturbs another's*)
(* octets (FillInv), and that each getter reads them at the other end      *)
(* (DataInv); last the nested elements of a beacon (BeaconInv).            *)
(***************************************************************************)
EXTENDS Packets, CommonLemmas

(* The octets s lie in buf from offset at on.                              *)
Holds(buf, at, s) ==
  /\ at + Len(s) <= Len(buf)
  /\ \A i \in 1 .. Len(s) : buf[at + i] = s[i]

(* A string lies in itself, from its start on.                             *)
LEMMA HoldsAll == ASSUME NEW s \in Seq(Octet) PROVE Holds(s, 0, s)
BY LenProperties DEF Holds

(* What holds two strings one behind the other holds each.                 *)
LEMMA HoldsBoth ==
  ASSUME NEW buf \in Seq(Octet), NEW at \in Nat, NEW s \in Seq(Octet), NEW t \in Seq(Octet),
         Holds(buf, at, s \o t)
  PROVE  Holds(buf, at, s) /\ Holds(buf, at + Len(s), t)
<1>1. /\ s \o t \in Seq(Octet) /\ Len(s \o t) = Len(s) + Len(t) /\ Len(s) \in Nat /\ Len(t) \in Nat
      /\ \A i \in 1 .. Len(s) + Len(t) : (s \o t)[i] = IF i <= Len(s) THEN s[i] ELSE t[i - Len(s)]
  BY ConcatProperties, LenProperties
<1>2. at + (Len(s) + Len(t)) <= Len(buf) /\ \A i \in 1 .. Len(s) + Len(t) : buf[at + i] = (s \o t)[i]
  BY <1>1, Zenon DEF Holds
<1>3. PICK k \in Nat, l \in Nat : k = Len(s) /\ l = Len(t)
  BY <1>1
<1>4. Len(buf) \in Nat
  BY LenProperties
<1>5. \A i \in 1 .. k : buf[at + i] = s[i]
  BY <1>1, <1>2, <1>3
<1>6. ASSUME NEW i \in 1 .. l PROVE buf[at + k + i] = t[i]
  <2>1. k + i \in 1 .. k + l /\ ~ (k + i <= k) /\ k + i - k = i /\ at + (k + i) = at + k + i
    OBVIOUS
  <2> QED BY <1>1, <1>2, <1>3, <2>1
<1> QED BY <1>2, <1>3, <1>4, <1>5, <1>6 DEF Holds

(* Two strings put together, as a string of its own.                       *)
LEMMA Together ==
  ASSUME NEW s \in Seq(Octet), NEW t \in Seq(Octet)
  PROVE  \E buf \in Seq(Octet) :
           /\ buf = s \o t /\ Len(buf) = Len(s) + Len(t)
           /\ Holds(buf, 0, s) /\ Holds(buf, Len(s), t)
<1>1. s \o t \in Seq(Octet) /\ Len(s \o t) = Len(s) + Len(t) /\ Len(s) \in Nat
  BY ConcatProperties, LenProperties
<1>2. PICK buf \in Seq(Octet) : buf = s \o t
  BY <1>1, Zenon
<1>3. Holds(buf, 0, buf)
  BY HoldsAll
<1>4. Holds(buf, 0, s \o t)
  BY <1>2, <1>3, Zenon
<1>5. Holds(buf, 0, s) /\ Holds(buf, 0 + Len(s), t)
  BY <1>4, HoldsBoth
<1>6. 0 + Len(s) = Len(s)
  BY <1>1
<1>7. Holds(buf, Len(s), t)
  BY <1>5, <1>6, Zenon
<1> QED BY <1>1, <1>2, <1>5, <1>7, Zenon

(* A part of a buffer.                                                     *)
LEMMA OctetsType ==
  ASSUME NEW buf \in Seq(Octet), NEW at \in Nat, NEW len \in Nat, at + len <= Len(buf)
  PROVE  /\ Octets(buf, at, len) \in Seq(Octet) /\ Len(Octets(buf, at, len)) = len
         /\ \A i \in 1 .. len : Octets(buf, at, len)[i] = buf[at + i]
<1>1. \A i \in at + 1 .. at + len : buf[i] \in Octet
  BY LenProperties, ElementOfSeq
<1>2. PICK m \in Int, n \in Int : m = at + 1 /\ n = at + len
  OBVIOUS
<1>3. /\ SubSeq(buf, m, n) \in Seq(Octet)
      /\ Len(SubSeq(buf, m, n)) = IF m <= n THEN n - m + 1 ELSE 0
      /\ \A i \in 1 .. n - m + 1 : SubSeq(buf, m, n)[i] = buf[m + i - 1]
  BY <1>1, <1>2, SubSeqProperties
<1>4. \A i \in 1 .. len : SubSeq(buf, m, n)[i] = buf[at + i]
  BY <1>2, <1>3
<1> QED BY <1>2, <1>3, <1>4 DEF Octets

(* The octets taken from where a string lies are that string.              *)
LEMMA OctetsHeld ==
  ASSUME NEW buf \in Seq(Octet), NEW at \in Nat, NEW s \in Seq(Octet), Holds(buf, at, s)
  PROVE  Octets(buf, at, Len(s)) = s
<1>1. PICK k \in Nat : k = Len(s)
  BY LenProperties
<1>2. at + k <= Len(buf) /\ \A i \in 1 .. k : buf[at + i] = s[i]
  BY <1>1 DEF Holds
<1>3. /\ Octets(buf, at, k) \in Seq(Octet) /\ Len(Octets(buf, at, k)) = k
      /\ \A i \in 1 .. k : Octets(buf, at, k)[i] = s[i]
  BY <1>2, OctetsType
<1> QED BY <1>1, <1>3, SeqEqual

(* An octet lies where it was put.                                         *)
LEMMA OneHeld ==
  ASSUME NEW buf, NEW at \in Nat, NEW x, Holds(buf, at, <<x>>)
  PROVE  buf[at + 1] = x /\ at + 1 <= Len(buf)
BY DEF Holds

(* A word is written as two octets.                                        *)
LEMMA Write16Type ==
  ASSUME NEW v \in Int
  PROVE  WRITE16(v) \in Seq(Octet) /\ Len(WRITE16(v)) = 2
<1>1. v % 256 \in Octet /\ (v \div 256) % 256 \in Octet
  BY DEF Octet
<1> QED BY <1>1 DEF WRITE16

(* A word that lies in a buffer is read back.                              *)
LEMMA Read16Held ==
  ASSUME NEW buf \in Seq(Octet), NEW at \in Nat, NEW v \in Word, Holds(buf, at, WRITE16(v))
  PROVE  READ16(buf, at) = v /\ at + 2 <= Len(buf)
<1>1. Len(WRITE16(v)) = 2 /\ WRITE16(v)[1] = v % 256 /\ WRITE16(v)[2] = (v \div 256) % 256
  BY DEF WRITE16
<1>2. buf[at + 1] = v % 256 /\ buf[at + 2] = (v \div 256) % 256 /\ at + 2 <= Len(buf)
  BY <1>1 DEF Holds
<1>3. (v % 256) + 256 * ((v \div 256) % 256) = v
  BY DEF Word
<1> QED BY <1>2, <1>3 DEF READ16

(* Two octets are read as a word.                                          *)
LEMMA Read16Type ==
  ASSUME NEW buf \in Seq(Octet), NEW at \in Nat, at + 2 <= Len(buf)
  PROVE  READ16(buf, at) \in Word
<1>1. at + 1 \in 1 .. Len(buf) /\ at + 2 \in 1 .. Len(buf)
  BY LenProperties
<1>2. buf[at + 1] \in 0..255 /\ buf[at + 2] \in 0..255
  BY <1>1, ElementOfSeq DEF Octet
<1>3. PICK x \in 0..255, y \in 0..255 : x = buf[at + 1] /\ y = buf[at + 2]
  BY <1>2
<1>4. x + 256 * y \in Int /\ 0 <= x + 256 * y /\ x + 256 * y < 65536
  OBVIOUS
<1>5. READ16(buf, at) = x + 256 * y
  BY <1>3 DEF READ16
<1> QED BY <1>4, <1>5 DEF Word

-----------------------------------------------------------------------------
(* The rounds of frame802154e_parse_information_elements.                  *)

(* A round over a header element uses what is found behind it alone.       *)
LEMMA HeaderDepends ==
  ASSUME NEW buf, NEW desc \in Word, NEW at \in Nat, NEW f, NEW g,
         \A m \in Loop : m.at >= at => f[m] = g[m]
  PROVE  HeaderElement(buf, desc, at, f) = HeaderElement(buf, desc, at, g)
<1>1. PICK len \in Nat : len = desc % 128
  BY DEF Word
<1>2. f[In("PAYLOAD", at)] = g[In("PAYLOAD", at)]
  BY DEF In, Loop
<1>3. f[In("HEADER", at + len)] = g[In("HEADER", at + len)]
  BY DEF In, Loop
<1> QED BY <1>1, <1>2, <1>3 DEF HeaderElement

(* So does a round over a payload element.                                 *)
LEMMA PayloadDepends ==
  ASSUME NEW buf, NEW desc \in Word, NEW at \in Nat, NEW f, NEW g,
         \A m \in Loop : m.at >= at => f[m] = g[m]
  PROVE  PayloadElement(buf, desc, at, f) = PayloadElement(buf, desc, at, g)
<1>1. PICK len \in Nat : len = desc % 2048
  BY DEF Word
<1>2. f[Nested(len, at)] = g[Nested(len, at)]
  BY DEF Nested, Loop
<1>3. f[In("PAYLOAD", at + len)] = g[In("PAYLOAD", at + len)]
  BY DEF In, Loop
<1> QED BY <1>1, <1>2, <1>3 DEF PayloadElement

(* So does a round over a nested element.                                  *)
LEMMA MlmeDepends ==
  ASSUME NEW buf, NEW desc \in Word, NEW at \in Nat, NEW nested \in Nat, NEW f, NEW g,
         \A m \in Loop : m.at >= at => f[m] = g[m]
  PROVE  MlmeElement(buf, desc, at, nested, f) = MlmeElement(buf, desc, at, nested, g)
<1> DEFINE long == desc >= 32768
           length == IF long THEN desc % 2048 ELSE desc % 256
<1>1. PICK len \in Nat : len = length
  BY DEF Word
<1>2. PICK left \in Int : left = nested - (2 + len)
  OBVIOUS
<1>3. f[In("PAYLOAD", at + len)] = g[In("PAYLOAD", at + len)]
  BY DEF In, Loop
<1>4. left >= 0 => f[Nested(left, at + len)] = g[Nested(left, at + len)]
  BY DEF Nested, Loop
<1> DEFINE next == IF left = 0 THEN In("PAYLOAD", at + len) ELSE Nested(left, at + len)
<1>5. left >= 0 => f[next] = g[next]
  BY <1>3, <1>4
<1> DEFINE M(h) == IF len > Len(buf) - at \/ left < 0 THEN Fail
             ELSE FoundIn(IF long THEN parse_mlme_long_ie(buf, at, len, (desc % 32768) \div 2048)
                                  ELSE parse_mlme_short_ie(buf, at, len, desc \div 256), h[next])
<1>6. ASSUME NEW h PROVE MlmeElement(buf, desc, at, nested, h) = M(h)
  <2>1. CASE long
    BY <1>1, <1>2, <2>1 DEF MlmeElement
  <2>2. CASE ~long
    BY <1>1, <1>2, <2>2 DEF MlmeElement
  <2> QED BY <2>1, <2>2
<1>7. M(f) = M(g)
  <2> HIDE DEF next
  <2> QED BY <1>2, <1>5
<1> HIDE DEF M
<1> QED BY <1>6, <1>7

(* A round depends on what is found further on alone.                      *)
LEMMA RoundDepends ==
  ASSUME NEW buf \in Seq(Octet), NEW l \in Loop, NEW f, NEW g,
         \A m \in Loop : m.at > l.at => f[m] = g[m]
  PROVE  Round(buf, l, f) = Round(buf, l, g)
<1>1. l.at \in Nat /\ l.nested \in Nat /\ l.state \in {"HEADER", "PAYLOAD", "MLME"} /\ Len(buf) \in Nat
  BY LenProperties DEF Loop
<1>2. PICK at \in Nat, nested \in Nat : at = l.at /\ nested = l.nested
  BY <1>1
<1>3. CASE Len(buf) - at >= 2
  <2>1. PICK desc \in Word : desc = READ16(buf, at)
    BY <1>1, <1>2, <1>3, Read16Type
  <2>2. \A m \in Loop : m.at >= at + 2 => f[m] = g[m]
    BY <1>2 DEF Loop
  <2>3. /\ HeaderElement(buf, desc, at + 2, f) = HeaderElement(buf, desc, at + 2, g)
        /\ PayloadElement(buf, desc, at + 2, f) = PayloadElement(buf, desc, at + 2, g)
        /\ MlmeElement(buf, desc, at + 2, nested, f) = MlmeElement(buf, desc, at + 2, nested, g)
    BY <2>2, HeaderDepends, PayloadDepends, MlmeDepends
  <2> QED BY <1>1, <1>2, <1>3, <2>1, <2>3 DEF Round
<1>4. CASE ~ (Len(buf) - at >= 2)
  BY <1>1, <1>2, <1>4 DEF Round
<1> QED BY <1>3, <1>4

(* So the rounds have a solution: from the end of the buffer backwards.    *)
Solves(buf, k, f) == \A l \in Loop : Len(buf) <= l.at + k => f[l] = Round(buf, l, f)

(* There is a solution of the rounds, whatever the buffer.                 *)
LEMMA RoundsExist ==
  ASSUME NEW buf \in Seq(Octet)
  PROVE  \E f : f = [l \in Loop |-> Round(buf, l, f)]
<1>1. Len(buf) \in Nat
  BY LenProperties
<1> DEFINE S == {k \in Nat : \E f : Solves(buf, k, f)}
<1>2. 0 \in S
  <2> DEFINE f == [l \in Loop |-> Ended(l.at)]
  <2>1. \A l \in Loop : Len(buf) <= l.at + 0 => f[l] = Round(buf, l, f)
    BY <1>1 DEF Round, Loop
  <2> QED BY <2>1 DEF Solves
<1>3. ASSUME NEW k \in Nat, k \in S PROVE k + 1 \in S
  <2>1. PICK f : Solves(buf, k, f)
    BY <1>3
  <2> DEFINE g == [l \in Loop |-> IF Len(buf) <= l.at + k THEN f[l] ELSE Round(buf, l, f)]
  <2>2. ASSUME NEW l \in Loop, Len(buf) <= l.at + (k + 1) PROVE g[l] = Round(buf, l, g)
    <3>1. g[l] = Round(buf, l, f)
      <4>1. CASE Len(buf) <= l.at + k
        BY <2>1, <4>1 DEF Solves
      <4>2. CASE ~ (Len(buf) <= l.at + k)
        BY <4>2
      <4> QED BY <4>1, <4>2
    <3>2. \A m \in Loop : m.at > l.at => f[m] = g[m]
      BY <1>1, <2>2 DEF Loop
    <3> HIDE DEF g
    <3>3. Round(buf, l, f) = Round(buf, l, g)
      BY <3>2, RoundDepends
    <3> QED BY <3>1, <3>3
  <2>3. Solves(buf, k + 1, g)
    <3> HIDE DEF g
    <3> QED BY <2>2 DEF Solves
  <2> QED BY <2>3
<1>4. Len(buf) \in S
  <2> HIDE DEF S
  <2> QED BY <1>1, <1>2, <1>3, Induction
<1>5. PICK f : Solves(buf, Len(buf), f)
  BY <1>4
<1> DEFINE g == [l \in Loop |-> f[l]]
<1>6. ASSUME NEW l \in Loop PROVE f[l] = Round(buf, l, g)
  <2>1. Len(buf) <= l.at + Len(buf)
    BY <1>1 DEF Loop
  <2>2. f[l] = Round(buf, l, f)
    BY <1>5, <2>1 DEF Solves
  <2>3. \A m \in Loop : m.at > l.at => f[m] = g[m]
    OBVIOUS
  <2> HIDE DEF g
  <2>4. Round(buf, l, f) = Round(buf, l, g)
    BY <2>3, RoundDepends
  <2> QED BY <2>2, <2>4
<1>7. g = [l \in Loop |-> Round(buf, l, g)]
  <2>1. PICK h : h = g
    OBVIOUS
  <2>2. h = [l \in Loop |-> f[l]] /\ \A l \in Loop : f[l] = Round(buf, l, h)
    BY <1>6, <2>1, Zenon
  <2>3. h = [l \in Loop |-> Round(buf, l, h)]
    BY <2>2
  <2> QED BY <2>1, <2>3, Zenon
<1> QED BY <1>7, Zenon

(* What parsing a buffer comes to, round by round.                         *)
LEMMA Rounds ==
  ASSUME NEW buf \in Seq(Octet)
  PROVE  \E f : /\ ParsedFrom(buf) = f[In("HEADER", 0)]
                /\ \A l \in Loop : f[l] = Round(buf, l, f)
<1> DEFINE f == CHOOSE f : f = [l \in Loop |-> Round(buf, l, f)]
<1>1. f = [l \in Loop |-> Round(buf, l, f)]
  BY RoundsExist, Zenon
<1>2. ParsedFrom(buf) = f[In("HEADER", 0)]
  BY Zenon DEF ParsedFrom
<1>3. PICK g : g = f
  OBVIOUS
<1>4. g = [l \in Loop |-> Round(buf, l, g)] /\ ParsedFrom(buf) = g[In("HEADER", 0)]
  BY <1>1, <1>2, <1>3, Zenon
<1>5. \A l \in Loop : g[l] = Round(buf, l, g)
  BY <1>4, Zenon
<1> QED BY <1>4, <1>5, Zenon

-----------------------------------------------------------------------------
(* The element of an acknowledgement.                                      *)

(* An element and what is found behind it.                                 *)
LEMMA FoundOne ==
  ASSUME NEW e, NEW s, NEW n
  PROVE  /\ Found(e, Ok([ies |-> s, end |-> n])) = Ok([ies |-> <<e>> \o s, end |-> n])
         /\ FoundIn(Ok(e), Ok([ies |-> s, end |-> n])) = Ok([ies |-> <<e>> \o s, end |-> n])
<1>1. PICK r : r = [ies |-> s, end |-> n]
  OBVIOUS
<1>2. [r EXCEPT !.ies = <<e>> \o @] = [ies |-> <<e>> \o s, end |-> n]
  <2>1. PICK t : t = <<e>> \o s
    OBVIOUS
  <2>2. r.ies = s
    BY <1>1
  <2>3. [r EXCEPT !.ies = t] = [ies |-> t, end |-> n]
    BY <1>1
  <2> QED BY <2>1, <2>2, <2>3, Zenon
<1>3. Found(e, {r}) = {[r EXCEPT !.ies = <<e>> \o @]}
  BY DEF Found
<1>4. FoundIn({e}, {r}) = Found(e, {r})
  BY DEF FoundIn
<1> QED BY <1>1, <1>2, <1>3, <1>4, Zenon DEF Ok

(* An element with nothing behind it.                                      *)
LEMMA NothingBehind ==
  ASSUME NEW e
  PROVE  <<e>> \o <<>> = <<e>>
<1>1. <<e>> \in Seq({e})
  OBVIOUS
<1> QED BY <1>1, ConcatEmptySeq

(* The last element of a buffer, and nothing behind it.                    *)
LEMMA FoundLast ==
  ASSUME NEW e, NEW n
  PROVE  Found(e, Ended(n)) = Ok([ies |-> <<e>>, end |-> n]) /\ FoundIn(Ok(e), Ended(n)) = Found(e, Ended(n))
<1>1. PICK s : s = <<>>
  OBVIOUS
<1>2. /\ Found(e, Ok([ies |-> s, end |-> n])) = Ok([ies |-> <<e>> \o s, end |-> n])
      /\ FoundIn(Ok(e), Ok([ies |-> s, end |-> n])) = Ok([ies |-> <<e>> \o s, end |-> n])
  BY FoundOne
<1>3. Ended(n) = Ok([ies |-> s, end |-> n])
  BY <1>1 DEF Ended
<1>4. <<e>> \o s = <<e>>
  BY <1>1, NothingBehind
<1> QED BY <1>2, <1>3, <1>4, Zenon

(* The drift's twelve bits and the bit of the refusal.                     *)
LEMMA TimeFieldRead ==
  ASSUME NEW drift \in TwelveBits, NEW nack \in BOOLEAN
  PROVE  /\ TimeField(drift, nack) \in Word
         /\ TimeField(drift, nack) >= 32768 <=> nack
         /\ Drift(TimeField(drift, nack)) = drift
<1>1. PICK m \in Nat : m = drift % 4096 /\ m < 4096
  BY DEF TwelveBits
<1>2. m = IF drift < 0 THEN drift + 4096 ELSE drift
  BY <1>1 DEF TwelveBits
<1>3. CASE nack
  <2>1. TimeField(drift, nack) = m + 32768
    BY <1>1, <1>3 DEF TimeField, Bit
  <2>2. (m + 32768) % 4096 = m
    BY <1>1
  <2>3. Drift(m + 32768) = drift
    BY <1>1, <1>2, <2>2 DEF Drift, TwelveBits
  <2>4. TimeField(drift, nack) \in Word /\ TimeField(drift, nack) >= 32768
    BY <1>1, <2>1 DEF Word
  <2>5. nack = TRUE
    BY <1>3
  <2> QED BY <2>1, <2>3, <2>4, <2>5
<1>4. CASE ~nack
  <2>1. TimeField(drift, nack) = m
    BY <1>1, <1>4 DEF TimeField, Bit
  <2>2. m % 4096 = m
    BY <1>1
  <2>3. Drift(m) = drift
    BY <1>1, <1>2, <2>2 DEF Drift, TwelveBits
  <2> QED BY <1>1, <1>4, <2>1, <2>3 DEF Word
<1> QED BY <1>3, <1>4

(* What tsch_packet_create_eack writes, tsch_packet_parse_eack reads.      *)
LEMMA TimeCorrectionRead ==
  ASSUME NEW drift \in TwelveBits, NEW nack \in BOOLEAN
  PROVE  ParsedFrom(ie_time_correction(drift, nack))
           = Ok([ies |-> <<[ie |-> "ack", nack |-> nack, drift |-> drift]>>, end |-> 4])
<1>1. header_ie_descriptor(ACK_NACK_TIME_CORRECTION, 2) = WRITE16(3842) /\ 3842 \in Word
  BY DEF header_ie_descriptor, ACK_NACK_TIME_CORRECTION, Word
<1>2. TimeField(drift, nack) \in Word
  BY TimeFieldRead
<1>3. PICK head \in Seq(Octet) : head = WRITE16(3842) /\ Len(head) = 2
  BY Write16Type
<1>a. PICK body \in Seq(Octet) : body = WRITE16(TimeField(drift, nack)) /\ Len(body) = 2
  BY <1>2, Write16Type DEF Word
<1>4. PICK buf \in Seq(Octet) :
        /\ buf = head \o body /\ Len(buf) = 4 /\ Holds(buf, 0, head) /\ Holds(buf, 2, body)
  <2>1. PICK buf \in Seq(Octet) :
          /\ buf = head \o body /\ Len(buf) = Len(head) + Len(body)
          /\ Holds(buf, 0, head) /\ Holds(buf, Len(head), body)
    BY Together
  <2>2. Len(buf) = 4 /\ Holds(buf, 2, body)
    BY <1>3, <1>a, <2>1
  <2> QED BY <2>1, <2>2, Zenon
<1>6. READ16(buf, 0) = 3842 /\ READ16(buf, 2) = TimeField(drift, nack)
  <2>1. Holds(buf, 0, WRITE16(3842)) /\ Holds(buf, 2, WRITE16(TimeField(drift, nack)))
    BY <1>3, <1>a, <1>4
  <2>2. READ16(buf, 0) = 3842
    BY <1>1, <2>1, Read16Held
  <2>3. READ16(buf, 2) = TimeField(drift, nack)
    BY <1>2, <2>1, Read16Held
  <2> QED BY <2>2, <2>3
<1>7. PICK f : /\ ParsedFrom(buf) = f[In("HEADER", 0)]
               /\ \A l \in Loop : f[l] = Round(buf, l, f)
  BY Rounds
<1>8. f[In("HEADER", 4)] = Ended(4)
  <2>1. In("HEADER", 4) \in Loop /\ In("HEADER", 4).at = 4
    BY DEF In, Loop
  <2>2. Round(buf, In("HEADER", 4), f) = Ended(4)
    BY <1>4, <2>1 DEF Round
  <2>3. f[In("HEADER", 4)] = Round(buf, In("HEADER", 4), f)
    BY <1>7, <2>1, Zenon
  <2> QED BY <2>2, <2>3, Zenon
<1>b. PICK e : e = [ie |-> "ack", nack |-> nack, drift |-> drift]
  OBVIOUS
<1>9. parse_header_ie(buf, 2, 2, 30) = Ok(e)
  <2>1. parse_header_ie(buf, 2, 2, 30)
          = Ok([ie |-> "ack", nack |-> READ16(buf, 2) >= 32768, drift |-> Drift(READ16(buf, 2))])
    BY DEF parse_header_ie, ACK_NACK_TIME_CORRECTION
  <2> QED BY <1>6, <1>b, <2>1, TimeFieldRead
<1>10. f[In("HEADER", 0)] = HeaderElement(buf, 3842, 2, f)
  <2>1. In("HEADER", 0) \in Loop /\ In("HEADER", 0).at = 0 /\ In("HEADER", 0).state = "HEADER"
    BY DEF In, Loop
  <2> QED BY <1>4, <1>6, <1>7, <2>1 DEF Round
<1>11. HeaderElement(buf, 3842, 2, f) = FoundIn(Ok(e), Ended(4))
  <2>1. 3842 % 128 = 2 /\ (3842 % 32768) \div 128 = 30
    OBVIOUS
  <2> QED BY <1>4, <1>8, <1>9, <2>1 DEF HeaderElement, LIST_TERMINATION_1, LIST_TERMINATION_2
<1>12. FoundIn(Ok(e), Ended(4)) = Ok([ies |-> <<e>>, end |-> 4])
  BY FoundLast
<1>13. ParsedFrom(buf) = Ok([ies |-> <<e>>, end |-> 4])
  <2>1. ParsedFrom(buf) = f[In("HEADER", 0)]
    BY <1>7
  <2> QED BY <2>1, <1>10, <1>11, <1>12
<1> QED BY <1>1, <1>3, <1>a, <1>b, <1>4, <1>13 DEF ie_time_correction

-----------------------------------------------------------------------------
(* The steps: a frame is put together, sent, and received once.            *)

(* The frame the MAC sends for a packet is a data frame.                   *)
LEMMA DataFrameType ==
  ASSUME NEW pan, NEW to, NEW mac, NEW ies
  PROVE  DataFrame(pan, to, mac, ies).type = DATA
BY DEF DataFrame

(* What may happen while the packet is filled: a field, or one frame sent. *)
LEMMA FromFilling ==
  ASSUME Next, stage = "filling"
  PROVE  \/ \E f \in Fields : \E v \in Values[f] : Fill(f, v)
         \/ stage' = "air" /\ attr'.type = DATA /\ \E k \in Seqnos, mac \in MacSeqnos : SendSixp(k, mac)
         \/ /\ stage' = "air" /\ attr'.type = DATA
            /\ \E to \in {Receiver, Other, Null}, mac \in MacSeqnos, pan \in {Pan, OtherPan} :
                 SendData(to, mac, pan)
         \/ stage' = "air" /\ attr'.type = BEACON /\ \E b \in Beacons : SendBeacon(b)
         \/ stage' = "air" /\ attr'.type = ACK /\ \E d \in Drifts, nack \in BOOLEAN : SendAck(d, nack)
<1>1. ASSUME NEW k \in Seqnos, NEW mac \in MacSeqnos, SendSixp(k, mac)
      PROVE  stage' = "air" /\ attr'.type = DATA
  BY <1>1, DataFrameType DEF SendSixp, OnAir
<1>2. ASSUME NEW to \in {Receiver, Other, Null}, NEW mac \in MacSeqnos, NEW pan \in {Pan, OtherPan},
             SendData(to, mac, pan)
      PROVE  stage' = "air" /\ attr'.type = DATA
  BY <1>2, DataFrameType DEF SendData, OnAir
<1>3. ASSUME NEW b \in Beacons, SendBeacon(b) PROVE stage' = "air" /\ attr'.type = BEACON
  BY <1>3 DEF SendBeacon
<1>4. ASSUME NEW d \in Drifts, NEW nack \in BOOLEAN, SendAck(d, nack)
      PROVE  stage' = "air" /\ attr'.type = ACK
  BY <1>4 DEF SendAck
<1>5. ~ (\E answer \in Answers : Receive(answer)) /\ ~ReceiveElements
  BY DEF Receive, ReceiveElements
<1> QED BY <1>1, <1>2, <1>3, <1>4, <1>5, Zenon DEF Next

(* What may happen once a frame is sent: it is received, once, unchanged.  *)
LEMMA FromAir ==
  ASSUME Next, stage # "filling"
  PROVE  /\ stage = "air" /\ stage' \in {"received", "dropped"} /\ UNCHANGED <<pkt, given, attr, air>>
         /\ \/ attr.type = DATA /\ \E answer \in Answers : Receive(answer)
            \/ attr.type # DATA /\ ReceiveElements
BY DEF Next, Fill, SendSixp, SendData, SendBeacon, SendAck, Receive, ReceiveElements

(* Filling a field sends nothing.                                          *)
LEMMA FillStays ==
  ASSUME NEW f, NEW v, Fill(f, v)
  PROVE  stage = "filling" /\ stage' = "filling" /\ UNCHANGED <<attr, air, got>>
BY DEF Fill
-----------------------------------------------------------------------------
(* Acknowledgements.                                                       *)

AckSent ==
  \E drift \in Drifts, nack \in BOOLEAN :
    /\ attr = [type |-> ACK, drift |-> drift, nack |-> nack]
    /\ air = ie_time_correction(drift, nack)

AckInv == (stage # "filling" /\ attr.type = ACK => AckSent) /\ CorrectionArrives

(* The drift and the refusal that were written are read.                   *)
LEMMA AckReceived ==
  ASSUME AckSent, ReceiveElements, attr.type = ACK
  PROVE  CorrectionArrives'
<1>1. PICK drift \in Drifts, nack \in BOOLEAN :
        /\ attr = [type |-> ACK, drift |-> drift, nack |-> nack]
        /\ air = ie_time_correction(drift, nack)
  BY DEF AckSent
<1>2. drift \in TwelveBits
  BY ElementsAssumption
<1>3. PICK r : r = [ies |-> <<[ie |-> "ack", nack |-> nack, drift |-> drift]>>, end |-> 4]
  OBVIOUS
<1>4. ParsedFrom(air) = {r}
  BY <1>1, <1>2, <1>3, TimeCorrectionRead DEF Ok
<1>5. stage' = "received" /\ got' = r /\ attr' = attr
  BY <1>4 DEF ReceiveElements, Fail
<1>6. attr.nack = nack /\ attr.drift = drift
  BY <1>1
<1>7. got'.ies = <<[ie |-> "ack", nack |-> attr'.nack, drift |-> attr'.drift]>>
  BY <1>3, <1>5, <1>6
<1> QED BY <1>5, <1>7 DEF CorrectionArrives

(* The drift reaches the other node for every drift of twelve bits.        *)
THEOREM CorrectionsArrive == Spec => []CorrectionArrives
<1>1. Init => AckInv
  BY DEF Init, AckInv, CorrectionArrives, Arrived
<1>2. ASSUME AckInv, [Next]_vars PROVE AckInv'
  <2>1. CASE UNCHANGED vars
    BY <1>2, <2>1 DEF AckInv, AckSent, CorrectionArrives, Arrived, vars
  <2>2. CASE Next /\ stage # "filling"
    <3>1. stage = "air" /\ UNCHANGED <<attr, air>>
      BY <2>2, FromAir
    <3>2. attr.type = ACK => AckSent /\ ReceiveElements
      BY <1>2, <2>2, FromAir DEF AckInv, ACK, DATA
    <3>3. CorrectionArrives'
      BY <3>1, <3>2, AckReceived DEF CorrectionArrives, Arrived
    <3> QED BY <2>2, <3>1, <3>2, <3>3 DEF AckInv, AckSent
  <2>3. CASE Next /\ stage = "filling"
    <3>1. CASE stage' = "filling"
      BY <3>1 DEF AckInv, CorrectionArrives, Arrived
    <3>2. CASE \E d \in Drifts, nack \in BOOLEAN : SendAck(d, nack)
      BY <3>2 DEF SendAck, AckSent, AckInv, CorrectionArrives, Arrived
    <3>3. CASE stage' = "air" /\ attr'.type \in {DATA, BEACON}
      BY <3>3 DEF AckInv, CorrectionArrives, Arrived, DATA, BEACON, ACK
    <3> QED BY <2>3, <3>1, <3>2, <3>3, FromFilling, FillStays
  <2> QED BY <1>2, <2>1, <2>2, <2>3
<1>3. AckInv => CorrectionArrives
  BY DEF AckInv
<1> QED BY <1>1, <1>2, <1>3, PTL DEF Spec

-----------------------------------------------------------------------------
(* Headers.                                                                *)

(* A part of the header that may be absent has its length or none.         *)
LEMMA OnlyType ==
  ASSUME NEW has \in BOOLEAN, NEW s \in Seq(Octet)
  PROVE  Only(has, s) \in Seq(Octet) /\ Len(Only(has, s)) = IF has THEN Len(s) ELSE 0
<1>1. <<>> \in Seq(Octet) /\ Len(<<>>) = 0
  BY EmptySeq
<1> QED BY <1>1 DEF Only

(* A flag is a bit, and the bit is set if the flag is.                     *)
LEMMA BitOf ==
  ASSUME NEW b \in BOOLEAN
  PROVE  Bit(b) \in 0..1 /\ (Bit(b) = 1) = b
BY DEF Bit

(* The frame control field read is the one written.                        *)
LEMMA FcfRead ==
  ASSUME NEW f \in FCF
  PROVE  /\ create_fcf(f) \in Seq(Octet) /\ Len(create_fcf(f)) = 2
         /\ \A buf : Holds(buf, 0, create_fcf(f)) => parse_fcf(buf) = f
<1>1. /\ f.type \in 0..7 /\ f.version \in 0..3 /\ f.dest \in 0..3 /\ f.src \in 0..3
      /\ f.security \in BOOLEAN /\ f.pending \in BOOLEAN /\ f.ack \in BOOLEAN
      /\ f.compression \in BOOLEAN /\ f.suppress \in BOOLEAN /\ f.ies \in BOOLEAN
  BY DEF FCF, NOADDR, SHORT, LONG
<1>2. PICK x : x = f.type + 8 * Bit(f.security) + 16 * Bit(f.pending) + 32 * Bit(f.ack)
                   + 64 * Bit(f.compression)
  OBVIOUS
<1>3. PICK y : y = Bit(f.suppress) + 2 * Bit(f.ies) + 4 * f.dest + 16 * f.version + 64 * f.src
  OBVIOUS
<1>4. create_fcf(f) = <<x, y>>
  BY <1>2, <1>3 DEF create_fcf
<1>5. /\ Bit(f.security) \in 0..1 /\ Bit(f.pending) \in 0..1 /\ Bit(f.ack) \in 0..1
      /\ Bit(f.compression) \in 0..1 /\ Bit(f.suppress) \in 0..1 /\ Bit(f.ies) \in 0..1
  BY <1>1, BitOf
<1>6. /\ x \in Octet /\ x % 8 = f.type /\ (x \div 8) % 2 = Bit(f.security)
      /\ (x \div 16) % 2 = Bit(f.pending) /\ (x \div 32) % 2 = Bit(f.ack)
      /\ (x \div 64) % 2 = Bit(f.compression)
  <2>1. PICK t \in 0..7, s \in 0..1, p \in 0..1, a \in 0..1, c \in 0..1 :
          /\ t = f.type /\ s = Bit(f.security) /\ p = Bit(f.pending) /\ a = Bit(f.ack)
          /\ c = Bit(f.compression)
    BY <1>1, <1>5
  <2>2. x = t + 8 * s + 16 * p + 32 * a + 64 * c
    BY <1>2, <2>1
  <2>3. /\ x \in Octet /\ x % 8 = t /\ (x \div 8) % 2 = s /\ (x \div 16) % 2 = p
        /\ (x \div 32) % 2 = a /\ (x \div 64) % 2 = c
    BY <2>2 DEF Octet
  <2> QED BY <2>1, <2>3
<1>7. /\ y \in Octet /\ (y \div 1) % 2 = Bit(f.suppress) /\ (y \div 2) % 2 = Bit(f.ies)
      /\ (y \div 4) % 4 = f.dest /\ (y \div 16) % 4 = f.version /\ (y \div 64) % 4 = f.src
  <2>1. PICK s \in 0..1, i \in 0..1, d \in 0..3, v \in 0..3, a \in 0..3 :
          /\ s = Bit(f.suppress) /\ i = Bit(f.ies) /\ d = f.dest /\ v = f.version /\ a = f.src
    BY <1>1, <1>5
  <2>2. y = s + 2 * i + 4 * d + 16 * v + 64 * a
    BY <1>3, <2>1
  <2>3. /\ y \in Octet /\ (y \div 1) % 2 = s /\ (y \div 2) % 2 = i /\ (y \div 4) % 4 = d
        /\ (y \div 16) % 4 = v /\ (y \div 64) % 4 = a
    BY <2>2 DEF Octet
  <2> QED BY <2>1, <2>3
<1>8. ASSUME NEW buf, Holds(buf, 0, create_fcf(f)) PROVE parse_fcf(buf) = f
  <2>1. buf[1] = x /\ buf[2] = y
    BY <1>4, <1>8 DEF Holds
  <2>2. parse_fcf(buf) = [type |-> f.type, security |-> f.security, pending |-> f.pending,
                          ack |-> f.ack, compression |-> f.compression, suppress |-> f.suppress,
                          ies |-> f.ies, dest |-> f.dest, version |-> f.version, src |-> f.src]
    BY <1>1, <1>6, <1>7, <2>1, BitOf DEF parse_fcf
  <2> QED BY <2>2 DEF FCF
<1> QED BY <1>4, <1>6, <1>7, <1>8

(* An address written with its last octet first, and read back.            *)
LEMMA AddressWritten ==
  ASSUME NEW addr \in [1..8 -> Octet], NEW mode \in {SHORT, LONG}
  PROVE  /\ addr_len(mode) \in 1..8
         /\ AddrOctets(addr, mode) \in Seq(Octet) /\ Len(AddrOctets(addr, mode)) = addr_len(mode)
         /\ \A i \in 1 .. addr_len(mode) : AddrOctets(addr, mode)[i] = addr[addr_len(mode) + 1 - i]
<1>1. PICK n \in 1..8 : n = addr_len(mode)
  BY DEF addr_len, SHORT, LONG
<1>2. \A i \in 1 .. n : addr[i] \in Octet
  OBVIOUS
<1>3. PICK t \in Seq(Octet) : t = SubSeq(addr, 1, n) /\ Len(t) = n /\ \A i \in 1 .. n : t[i] = addr[i]
  <2>1. /\ SubSeq(addr, 1, n) \in Seq(Octet) /\ Len(SubSeq(addr, 1, n)) = n
        /\ \A i \in 1 .. n - 1 + 1 : SubSeq(addr, 1, n)[i] = addr[1 + i - 1]
    BY <1>2, SubSeqProperties
  <2>2. \A i \in 1 .. n : SubSeq(addr, 1, n)[i] = addr[i]
    BY <2>1
  <2> QED BY <2>1, <2>2
<1>4. DOMAIN t = 1 .. n
  BY <1>3, LenProperties
<1>5. Reversed(t) = [i \in 1 .. n |-> t[n + 1 - i]]
  BY <1>3, <1>4 DEF Reversed
<1>6. \A i \in 1 .. n : n + 1 - i \in 1 .. n
  OBVIOUS
<1>7. PICK r : r = [i \in 1 .. n |-> t[n + 1 - i]]
  OBVIOUS
<1>8. \A i \in 1 .. n : r[i] = addr[n + 1 - i] /\ r[i] \in Octet
  BY <1>2, <1>3, <1>6, <1>7
<1>9. r \in [1 .. n -> Octet]
  BY <1>7, <1>8
<1>10. r \in Seq(Octet) /\ Len(r) = n
  BY <1>9, LenProperties
<1>11. AddrOctets(addr, mode) = r
  BY <1>1, <1>3, <1>5, <1>7 DEF AddrOctets
<1> QED BY <1>1, <1>8, <1>10, <1>11

(* An address is written backwards, and read forwards again.               *)
LEMMA AddressRead ==
  ASSUME NEW addr \in [1..8 -> Octet], NEW mode \in {SHORT, LONG},
         \A i \in addr_len(mode) + 1 .. 8 : addr[i] = 0,
         NEW buf \in Seq(Octet), NEW at \in Nat, Holds(buf, at, AddrOctets(addr, mode))
  PROVE  Addr8(Reversed(Octets(buf, at, addr_len(mode)))) = addr
<1>1. PICK n \in 1..8 : n = addr_len(mode)
  BY AddressWritten
<1>2. PICK r \in Seq(Octet) : /\ r = AddrOctets(addr, mode) /\ Len(r) = n
                              /\ \A i \in 1 .. n : r[i] = addr[n + 1 - i]
  BY <1>1, AddressWritten
<1>3. Octets(buf, at, n) = r
  BY <1>2, OctetsHeld
<1>4. DOMAIN r = 1 .. n
  BY <1>2, LenProperties
<1>5. PICK t : t = [i \in 1 .. n |-> r[n + 1 - i]]
  OBVIOUS
<1>6. Reversed(r) = t
  BY <1>2, <1>4, <1>5 DEF Reversed
<1>7. \A i \in 1 .. n : t[i] = addr[i]
  <2> SUFFICES ASSUME NEW i \in 1 .. n PROVE t[i] = addr[i]
    OBVIOUS
  <2>1. PICK j \in 1 .. n : j = n + 1 - i /\ n + 1 - j = i
    OBVIOUS
  <2> QED BY <1>2, <1>5, <2>1
<1>8. t \in [1 .. n -> Octet]
  <2>1. ASSUME NEW i \in 1 .. n PROVE t[i] \in Octet
    <3>1. i \in 1 .. 8
      BY <1>1
    <3>2. addr[i] \in Octet
      BY <3>1
    <3> QED BY <1>7, <3>2
  <2> QED BY <1>5, <2>1
<1>9. Len(t) = n
  BY <1>8, LenProperties
<1>10. Addr8(t) = [i \in 1..8 |-> IF i <= n THEN t[i] ELSE 0]
  BY <1>9 DEF Addr8
<1>11. \A i \in 1..8 : Addr8(t)[i] = addr[i]
  BY <1>1, <1>7, <1>10
<1>12. Addr8(t) = addr
  BY <1>10, <1>11
<1> QED BY <1>1, <1>3, <1>6, <1>12

(* The header of a frame with two addresses.                               *)
HeaderParams ==
  {p \in [fcf : FCF, seq : Octet, dest_pid : Word, src_pid : Word,
          dest : [1..8 -> Octet], src : [1..8 -> Octet]] :
     /\ p.fcf.version = E2012 /\ p.fcf.dest # NOADDR /\ p.fcf.src # NOADDR /\ HasDestPan(p.fcf)
     /\ p.dest_pid = p.src_pid
     /\ \A i \in addr_len(p.fcf.dest) + 1 .. 8 : p.dest[i] = 0
     /\ \A i \in addr_len(p.fcf.src) + 1 .. 8 : p.src[i] = 0}

HeaderOf(p, hdr) ==
  [fcf |-> p.fcf, hdr |-> hdr, seq |-> IF p.fcf.suppress THEN NoSeqno ELSE p.seq,
   dest_pid |-> p.dest_pid, dest |-> p.dest, src_pid |-> p.src_pid, src |-> p.src]

(* What holds two strings from its start on holds each.                    *)
LEMMA HoldsFront ==
  ASSUME NEW buf \in Seq(Octet), NEW s \in Seq(Octet), NEW t \in Seq(Octet), Holds(buf, 0, s \o t)
  PROVE  Holds(buf, 0, s) /\ Holds(buf, Len(s), t)
<1>1. Holds(buf, 0, s) /\ Holds(buf, 0 + Len(s), t)
  BY HoldsBoth
<1>2. 0 + Len(s) = Len(s)
  BY LenProperties
<1> QED BY <1>1, <1>2, Zenon

(* The six parts of a header put together, and where each lies.            *)
Joined(c0, c1, c2, c3, c4, c5) ==
  \E h \in Seq(Octet) :
    /\ h = c0 \o c1 \o c2 \o c3 \o c4 \o c5
    /\ Len(h) = Len(c0) + Len(c1) + Len(c2) + Len(c3) + Len(c4) + Len(c5)
    /\ \A buf \in Seq(Octet) : Holds(buf, 0, h) =>
         /\ Holds(buf, 0, c0) /\ Holds(buf, Len(c0), c1) /\ Holds(buf, Len(c0) + Len(c1), c2)
         /\ Holds(buf, Len(c0) + Len(c1) + Len(c2), c3)
         /\ Holds(buf, Len(c0) + Len(c1) + Len(c2) + Len(c3), c4)
         /\ Holds(buf, Len(c0) + Len(c1) + Len(c2) + Len(c3) + Len(c4), c5)

(* Strings can be joined.                                                  *)
LEMMA SixParts ==
  ASSUME NEW c0 \in Seq(Octet), NEW c1 \in Seq(Octet), NEW c2 \in Seq(Octet),
         NEW c3 \in Seq(Octet), NEW c4 \in Seq(Octet), NEW c5 \in Seq(Octet)
  PROVE  Joined(c0, c1, c2, c3, c4, c5)
<1>1. PICK h1 \in Seq(Octet) : h1 = c0 \o c1 /\ Len(h1) = Len(c0) + Len(c1)
  BY Together
<1>2. PICK h2 \in Seq(Octet) : h2 = h1 \o c2 /\ Len(h2) = Len(h1) + Len(c2)
  BY Together
<1>3. PICK h3 \in Seq(Octet) : h3 = h2 \o c3 /\ Len(h3) = Len(h2) + Len(c3)
  BY Together
<1>4. PICK h4 \in Seq(Octet) : h4 = h3 \o c4 /\ Len(h4) = Len(h3) + Len(c4)
  BY Together
<1>5. PICK h \in Seq(Octet) : h = h4 \o c5 /\ Len(h) = Len(h4) + Len(c5)
  BY Together
<1>6. h = c0 \o c1 \o c2 \o c3 \o c4 \o c5
  BY <1>1, <1>2, <1>3, <1>4, <1>5, Zenon
<1>7. Len(h) = Len(c0) + Len(c1) + Len(c2) + Len(c3) + Len(c4) + Len(c5)
  BY <1>1, <1>2, <1>3, <1>4, <1>5, Zenon
<1>8. ASSUME NEW buf \in Seq(Octet), Holds(buf, 0, h)
      PROVE  /\ Holds(buf, 0, c0) /\ Holds(buf, Len(c0), c1) /\ Holds(buf, Len(h1), c2)
             /\ Holds(buf, Len(h2), c3) /\ Holds(buf, Len(h3), c4) /\ Holds(buf, Len(h4), c5)
  <2>1. Holds(buf, 0, h4 \o c5)
    BY <1>5, <1>8, Zenon
  <2>2. Holds(buf, 0, h4) /\ Holds(buf, Len(h4), c5)
    BY <2>1, HoldsFront
  <2>3. Holds(buf, 0, h3 \o c4)
    BY <1>4, <2>2, Zenon
  <2>4. Holds(buf, 0, h3) /\ Holds(buf, Len(h3), c4)
    BY <2>3, HoldsFront
  <2>5. Holds(buf, 0, h2 \o c3)
    BY <1>3, <2>4, Zenon
  <2>6. Holds(buf, 0, h2) /\ Holds(buf, Len(h2), c3)
    BY <2>5, HoldsFront
  <2>7. Holds(buf, 0, h1 \o c2)
    BY <1>2, <2>6, Zenon
  <2>8. Holds(buf, 0, h1) /\ Holds(buf, Len(h1), c2)
    BY <2>7, HoldsFront
  <2>9. Holds(buf, 0, c0 \o c1)
    BY <1>1, <2>8, Zenon
  <2>10. Holds(buf, 0, c0) /\ Holds(buf, Len(c0), c1)
    BY <2>9, HoldsFront
  <2> QED BY <2>2, <2>4, <2>6, <2>8, <2>10
<1>9. /\ Len(h1) = Len(c0) + Len(c1) /\ Len(h2) = Len(c0) + Len(c1) + Len(c2)
      /\ Len(h3) = Len(c0) + Len(c1) + Len(c2) + Len(c3)
      /\ Len(h4) = Len(c0) + Len(c1) + Len(c2) + Len(c3) + Len(c4)
  BY <1>1, <1>2, <1>3, <1>4, Zenon
<1> QED BY <1>6, <1>7, <1>8, <1>9, Zenon DEF Joined

(* The length of an address.                                               *)
LEMMA AddrLen == ASSUME NEW mode \in {SHORT, LONG} PROVE addr_len(mode) \in 1..8
BY DEF addr_len, SHORT, LONG

(* What frame802154_create writes before a payload, frame802154_parse      *)
(* reads, and frame802154_hdrlen foretells the length of.                  *)
LEMMA HeaderRead ==
  ASSUME NEW p \in HeaderParams, NEW payload \in Seq(Octet)
  PROVE  /\ create_header(p) \in Seq(Octet) /\ Len(create_header(p)) = hdrlen(p)
         /\ parse_header(create_header(p) \o payload) = Ok(HeaderOf(p, hdrlen(p)))
         /\ parse_fcf(create_header(p) \o payload) = p.fcf
<1>1. PICK f \in FCF : f = p.fcf
  BY DEF HeaderParams
<1>2. /\ f.version = 2 /\ f.dest \in {SHORT, LONG} /\ f.src \in {SHORT, LONG} /\ HasDestPan(f) = TRUE
      /\ f.suppress \in BOOLEAN /\ f.dest # NOADDR /\ f.src # NOADDR
  BY <1>1 DEF HeaderParams, E2012, FCF
<1>3. HasSrcPan(f) \in BOOLEAN
  BY DEF HasSrcPan
<1>4. /\ p.seq \in Octet /\ p.dest_pid \in Word /\ p.src_pid = p.dest_pid
      /\ p.dest \in [1..8 -> Octet] /\ p.src \in [1..8 -> Octet]
      /\ \A i \in addr_len(f.dest) + 1 .. 8 : p.dest[i] = 0
      /\ \A i \in addr_len(f.src) + 1 .. 8 : p.src[i] = 0
  BY <1>1 DEF HeaderParams
<1>5. PICK seq \in Octet : seq = p.seq
  BY <1>4, Zenon
<1>6. PICK pid \in Word : pid = p.dest_pid /\ pid = p.src_pid
  BY <1>4, Zenon
<1>7. PICK dest \in [1..8 -> Octet], src \in [1..8 -> Octet] : dest = p.dest /\ src = p.src
  BY <1>4, Zenon
<1>8. Compressed(p) = p
  <2>1. ~ (p.fcf.version < E2012)
    BY <1>1, <1>2 DEF E2012
  <2> QED BY <2>1, Zenon DEF Compressed
<1>10. PICK c0 \in Seq(Octet) : c0 = create_fcf(f) /\ Len(c0) = 2
  BY FcfRead
<1>11. PICK c1 \in Seq(Octet) : c1 = Only(~f.suppress, <<seq>>)
  <2>1. <<seq>> \in Seq(Octet)
    OBVIOUS
  <2>2. <<>> \in Seq(Octet)
    BY EmptySeq
  <2> QED BY <2>1, <2>2, Zenon DEF Only
<1>12. Len(c1) = Bit(~f.suppress)
  BY <1>2, <1>11, EmptySeq DEF Only, Bit
<1>13. PICK c2 \in Seq(Octet) : c2 = WRITE16(pid) /\ Len(c2) = 2
  BY Write16Type DEF Word
<1>14. Only(HasDestPan(f), WRITE16(pid)) = c2
  BY <1>2, <1>13, Zenon DEF Only
<1>15. PICK c3 \in Seq(Octet) : c3 = AddrOctets(dest, f.dest) /\ Len(c3) = addr_len(f.dest)
  BY <1>2, AddressWritten
<1>16. PICK c4 \in Seq(Octet) : c4 = Only(HasSrcPan(f), WRITE16(pid))
  BY <1>3, <1>13, OnlyType
<1>17. Len(c4) = 2 * Bit(HasSrcPan(f))
  <2>1. CASE HasSrcPan(f)
    BY <1>13, <1>16, <2>1 DEF Only, Bit
  <2>2. CASE ~HasSrcPan(f)
    BY <1>16, <2>2 DEF Only, Bit
  <2> QED BY <2>1, <2>2
<1>18. PICK c5 \in Seq(Octet) : c5 = AddrOctets(src, f.src) /\ Len(c5) = addr_len(f.src)
  BY <1>2, AddressWritten
<1>20. PICK h \in Seq(Octet) :
         /\ h = c0 \o c1 \o c2 \o c3 \o c4 \o c5
         /\ Len(h) = Len(c0) + Len(c1) + Len(c2) + Len(c3) + Len(c4) + Len(c5)
         /\ \A buf \in Seq(Octet) : Holds(buf, 0, h) =>
              /\ Holds(buf, 0, c0) /\ Holds(buf, Len(c0), c1) /\ Holds(buf, Len(c0) + Len(c1), c2)
              /\ Holds(buf, Len(c0) + Len(c1) + Len(c2), c3)
              /\ Holds(buf, Len(c0) + Len(c1) + Len(c2) + Len(c3), c4)
              /\ Holds(buf, Len(c0) + Len(c1) + Len(c2) + Len(c3) + Len(c4), c5)
  <2>1. Joined(c0, c1, c2, c3, c4, c5)
    BY SixParts
  <2> QED BY <2>1, Zenon DEF Joined
<1>21. h = create_header(p)
  BY <1>1, <1>5, <1>6, <1>7, <1>8, <1>10, <1>11, <1>14, <1>15, <1>16, <1>18, <1>20, Zenon DEF create_header
<1>9. PICK a \in Nat, b \in 1..8, c \in Nat, d \in 1..8 :
        a = Bit(~f.suppress) /\ b = addr_len(f.dest) /\ c = Bit(HasSrcPan(f)) /\ d = addr_len(f.src)
  <2>1. Bit(~f.suppress) \in Nat /\ Bit(HasSrcPan(f)) \in Nat
    BY DEF Bit
  <2>2. addr_len(f.dest) \in 1..8 /\ addr_len(f.src) \in 1..8
    BY <1>2, AddrLen
  <2> QED BY <2>1, <2>2, Zenon
<1>22. PICK n1 \in Nat, n2 \in Nat, n3 \in Nat, n4 \in Nat, n \in Nat :
         n1 = 2 + a /\ n2 = n1 + 2 /\ n3 = n2 + b /\ n4 = n3 + 2 * c /\ n = n4 + d
  OBVIOUS
<1>23. /\ Len(c0) + Len(c1) = n1 /\ Len(c0) + Len(c1) + Len(c2) = n2
       /\ Len(c0) + Len(c1) + Len(c2) + Len(c3) = n3
       /\ Len(c0) + Len(c1) + Len(c2) + Len(c3) + Len(c4) = n4
       /\ Len(h) = n
  BY <1>9, <1>10, <1>12, <1>13, <1>15, <1>17, <1>18, <1>20, <1>22, Zenon
<1>24. n = hdrlen(p)
  <2>1. hdrlen(p) = 2 + Bit(~f.suppress) + 2 * Bit(HasDestPan(f)) + 2 * Bit(HasSrcPan(f))
                    + addr_len(f.dest) + addr_len(f.src)
    BY <1>1, <1>8 DEF hdrlen
  <2>2. Bit(HasDestPan(f)) = 1
    BY <1>2 DEF Bit
  <2>3. hdrlen(p) = 2 + a + 2 * 1 + 2 * c + b + d
    BY <1>9, <2>1, <2>2, Zenon
  <2> QED BY <1>22, <2>3
<1>25. PICK buf \in Seq(Octet) : /\ buf = h \o payload /\ Len(buf) = Len(h) + Len(payload)
                                 /\ Holds(buf, 0, h)
  BY Together
<1>26. /\ Holds(buf, 0, c0) /\ Holds(buf, 2, c1) /\ Holds(buf, n1, c2) /\ Holds(buf, n2, c3)
       /\ Holds(buf, n3, c4) /\ Holds(buf, n4, c5)
  BY <1>10, <1>20, <1>23, <1>25, Zenon
<1>27. parse_fcf(buf) = f
  BY <1>10, <1>26, FcfRead
<1>28. f.suppress \/ buf[3] = seq
  <2>1. CASE ~f.suppress
    <3>1. Holds(buf, 2, <<seq>>)
      BY <1>11, <1>26, <2>1, Zenon DEF Only
    <3> QED BY <3>1, OneHeld
  <2> QED BY <2>1
<1>29. READ16(buf, n1) = pid
  BY <1>13, <1>26, Read16Held
<1>30. Addr8(Reversed(Octets(buf, n2, addr_len(f.dest)))) = dest
  <2>1. Holds(buf, n2, AddrOctets(dest, f.dest)) /\ \A i \in addr_len(f.dest) + 1 .. 8 : dest[i] = 0
    BY <1>4, <1>7, <1>15, <1>26, Zenon
  <2> QED BY <1>2, <2>1, AddressRead
<1>31. HasSrcPan(f) => READ16(buf, n3) = pid
  <2>1. CASE HasSrcPan(f)
    <3>1. Holds(buf, n3, WRITE16(pid))
      BY <1>16, <1>26, <2>1, Zenon DEF Only
    <3> QED BY <3>1, Read16Held
  <2> QED BY <2>1
<1>32. Addr8(Reversed(Octets(buf, n4, addr_len(f.src)))) = src
  <2>1. Holds(buf, n4, AddrOctets(src, f.src)) /\ \A i \in addr_len(f.src) + 1 .. 8 : src[i] = 0
    BY <1>4, <1>7, <1>18, <1>26, Zenon
  <2> QED BY <1>2, <2>1, AddressRead
<1>33. Len(buf) >= 2 /\ Len(buf) >= n
  <2>1. Len(payload) \in Nat
    BY LenProperties
  <2>2. PICK k \in Nat : k = Len(payload)
    BY <2>1
  <2>3. Len(buf) = n + k
    BY <1>23, <1>25, <2>2, Zenon
  <2> QED BY <1>22, <2>3
<1>34. parse_header(buf) = Ok(HeaderOf(p, n))
  <2>1. /\ n1 + 2 * Bit(f.dest # NOADDR /\ HasDestPan(f)) = n2
        /\ n3 + 2 * Bit(f.src # NOADDR /\ HasSrcPan(f)) = n4
        /\ n2 + addr_len(f.dest) = n3 /\ n4 + addr_len(f.src) = n /\ 2 + Bit(~f.suppress) = n1
    <3>1. Bit(f.dest # NOADDR /\ HasDestPan(f)) = 1 /\ Bit(f.src # NOADDR /\ HasSrcPan(f)) = c
      BY <1>2, <1>3, <1>9 DEF Bit
    <3>2. PICK u \in Nat, w \in Nat :
            u = Bit(f.dest # NOADDR /\ HasDestPan(f)) /\ w = Bit(f.src # NOADDR /\ HasSrcPan(f)) /\ u = 1 /\ w = c
      BY <1>9, <3>1
    <3>4. /\ u = 1 /\ w = c /\ n1 = 2 + a /\ n2 = n1 + 2 /\ n3 = n2 + b /\ n4 = n3 + 2 * c /\ n = n4 + d
      BY <1>22, <3>2, Zenon
    <3>3. n1 + 2 * u = n2 /\ n3 + 2 * w = n4 /\ n2 + b = n3 /\ n4 + d = n /\ 2 + a = n1
      BY <3>4
    <3> QED BY <1>9, <3>2, <3>3, Zenon
  <2>2. ~ (Len(buf) < 2) /\ ~ (n > Len(buf))
    <3>1. Len(buf) \in Nat
      BY LenProperties
    <3> QED BY <1>33, <3>1, SMTT(30)
  <2>3. (IF f.dest # NOADDR /\ HasDestPan(f) THEN READ16(buf, n1) ELSE 0) = pid
    BY <1>2, <1>29
  <2>4. (IF HasSrcPan(f) THEN READ16(buf, n3) ELSE pid) = pid
    BY <1>31
  <2>5. (IF f.suppress THEN NoSeqno ELSE buf[3]) = IF f.suppress THEN NoSeqno ELSE seq
    BY <1>28
  <2>6. parse_header(buf) =
          Ok([fcf |-> f, hdr |-> n, seq |-> IF f.suppress THEN NoSeqno ELSE buf[3],
              dest_pid |-> pid,
              dest |-> Addr8(Reversed(Octets(buf, n2, addr_len(f.dest)))),
              src_pid |-> pid,
              src |-> Addr8(Reversed(Octets(buf, n4, addr_len(f.src))))])
    BY <1>2, <1>27, <2>1, <2>2, <2>3, <2>4, Zenon DEF parse_header
  <2> QED BY <1>1, <1>5, <1>6, <1>7, <1>30, <1>32, <2>5, <2>6, Zenon DEF HeaderOf
<1> QED BY <1>1, <1>21, <1>23, <1>24, <1>25, <1>27, <1>34, Zenon

-----------------------------------------------------------------------------
(* Data frames, with whatever payload.                                     *)

(* What follows the offset where the last string lies is that string.      *)
LEMMA FromHeld ==
  ASSUME NEW buf \in Seq(Octet), NEW at \in Nat, NEW t \in Seq(Octet),
         Holds(buf, at, t), Len(buf) = at + Len(t)
  PROVE  From(buf, at) = t
<1>1. Octets(buf, at, Len(t)) = t
  BY OctetsHeld
<1> QED BY <1>1, Zenon DEF Octets, From

Sent(a, buf, payload) ==
  \E pan \in {Pan, OtherPan}, to \in {Receiver, Other, Null}, mac \in MacSeqnos, ies \in BOOLEAN :
    /\ a = DataFrame(pan, to, mac, ies)
    /\ \E header \in framer_create(a, 0, a.pan) : buf = header \o payload

AttrOf(a) ==
  [type |-> DATA, pending |-> FALSE, seqno |-> IF a.receiver = Null THEN NoSeqno ELSE a.seqno,
   receiver |-> a.receiver, sender |-> Sender, hdr |-> hdrlen(Params(a, 0, Pan))]

(* What is assumed of the addresses, in the mode the nodes use.            *)
LEMMA AddressFacts ==
  /\ AddrMode \in {SHORT, LONG} /\ addr_len(AddrMode) = LinkaddrSize
  /\ \A a \in {Sender, Receiver, Other} :
       /\ a \in [1..8 -> Octet] /\ a # Null /\ ~is_broadcast_addr(AddrMode, a)
       /\ \A i \in addr_len(AddrMode) + 1 .. 8 : a[i] = 0
  /\ Receiver # Other
<1>1. AddrMode \in {SHORT, LONG} /\ addr_len(AddrMode) = LinkaddrSize
  BY Frame802154Assumption DEF AddrMode, addr_len, SHORT, LONG
<1>2. ASSUME NEW a \in {Sender, Receiver, Other} PROVE ~is_broadcast_addr(AddrMode, a)
  <2>1. PICK i \in 1 .. LinkaddrSize : a[i] # 255
    BY HeadersAssumption
  <2>2. i \in 1 .. (IF AddrMode = SHORT THEN 2 ELSE 8)
    BY Frame802154Assumption, <2>1 DEF AddrMode, SHORT, LONG
  <2> QED BY <2>1, <2>2 DEF is_broadcast_addr
<1> QED BY <1>1, <1>2, HeadersAssumption

(* The broadcast address is one, and short.                                *)
LEMMA BroadcastFacts ==
  /\ Addr8(<<255, 255>>) \in [1..8 -> Octet]
  /\ is_broadcast_addr(SHORT, Addr8(<<255, 255>>))
  /\ \A i \in addr_len(SHORT) + 1 .. 8 : Addr8(<<255, 255>>)[i] = 0
<1>1. PICK a : a = Addr8(<<255, 255>>)
  OBVIOUS
<1>2. a = [i \in 1..8 |-> IF i <= 2 THEN <<255, 255>>[i] ELSE 0]
  BY <1>1 DEF Addr8
<1>3. \A i \in 1..8 : a[i] = IF i <= 2 THEN 255 ELSE 0
  BY <1>2
<1>4. a \in [1..8 -> Octet]
  BY <1>2, <1>3 DEF Octet
<1>5. is_broadcast_addr(SHORT, a)
  BY <1>3 DEF is_broadcast_addr
<1>6. addr_len(SHORT) = 2
  BY DEF addr_len, SHORT, LONG
<1> QED BY <1>1, <1>3, <1>4, <1>5, <1>6

(* The fields of a data frame's header.                                    *)
DataParams(p, pan, to, mac, ies) ==
  /\ p \in HeaderParams
  /\ p.fcf.type = DATA /\ p.fcf.pending = FALSE /\ p.fcf.ies = ies
  /\ p.fcf.suppress <=> to = Null
  /\ to # Null => p.seq = mac
  /\ p.fcf.dest = (IF to = Null THEN SHORT ELSE AddrMode) /\ p.fcf.src = AddrMode
  /\ p.dest_pid = pan
  /\ p.dest = (IF to = Null THEN Addr8(<<255, 255>>) ELSE to) /\ p.src = Sender

(* The parameters of the header of a data frame.                           *)
LEMMA ParamsType ==
  ASSUME NEW pan \in {Pan, OtherPan}, NEW to \in {Receiver, Other, Null}, NEW mac \in MacSeqnos,
         NEW ies \in BOOLEAN
  PROVE  DataParams(Params(DataFrame(pan, to, mac, ies), 0, pan), pan, to, mac, ies)
<1>1. pan \in Word /\ mac \in 1..255 /\ Version = E2012 /\ SuppressSeqno = FALSE
  BY HeadersAssumption
<1>2. PICK a : a = DataFrame(pan, to, mac, ies)
  OBVIOUS
<1>3. /\ a.type = DATA /\ a.pending = FALSE /\ a.ack = (to # Null) /\ a.ies = ies
      /\ a.seqno = (IF to = Null THEN 0 ELSE mac) /\ a.sender = Sender /\ a.receiver = to
  BY <1>2 DEF DataFrame
<1>4. PICK seq \in Octet : seq = Numbered(a, 0) /\ (to # Null => seq = mac)
  BY <1>1, <1>3 DEF Numbered, Octet
<1>5. PICK mode \in {SHORT, LONG} : mode = IF to = Null THEN SHORT ELSE AddrMode
  BY AddressFacts
<1>6. PICK dest \in [1..8 -> Octet] : /\ dest = IF to = Null THEN Addr8(<<255, 255>>) ELSE to
                                      /\ \A i \in addr_len(mode) + 1 .. 8 : dest[i] = 0
  BY <1>5, AddressFacts, BroadcastFacts
<1>7. PICK f : f = [type |-> DATA, security |-> FALSE, pending |-> FALSE, ack |-> to # Null,
                    compression |-> FALSE, suppress |-> to = Null, ies |-> ies, dest |-> mode,
                    version |-> E2012, src |-> AddrMode]
  OBVIOUS
<1>8. PICK p : p = Params(a, 0, pan)
  OBVIOUS
<1>15. p = [fcf |-> f, seq |-> seq, dest_pid |-> pan, src_pid |-> pan, dest |-> dest, src |-> Sender]
  <2>1. p = [fcf |-> [type |-> a.type, security |-> FALSE, pending |-> a.pending,
                      ack |-> ~(a.receiver = Null) /\ a.ack, compression |-> FALSE,
                      suppress |-> IF a.receiver = Null THEN Version >= E2012 ELSE SuppressSeqno,
                      ies |-> a.ies, dest |-> IF a.receiver = Null THEN SHORT ELSE AddrMode,
                      version |-> Version, src |-> AddrMode],
             seq |-> Numbered(a, 0), dest_pid |-> pan, src_pid |-> pan,
             dest |-> IF a.receiver = Null THEN Addr8(<<255, 255>>) ELSE a.receiver,
             src |-> a.sender]
    BY <1>8, Zenon DEF Params
  <2>2. (IF to = Null THEN Version >= E2012 ELSE SuppressSeqno) = (to = Null)
    <3>1. (Version >= E2012) = TRUE
      BY <1>1 DEF E2012
    <3>2. CASE to = Null
      BY <3>1, <3>2
    <3>3. CASE to # Null
      BY <1>1, <3>3
    <3> QED BY <3>2, <3>3
  <2>3. (~(to = Null) /\ a.ack) = (to # Null)
    BY <1>3
  <2>4. f = [type |-> a.type, security |-> FALSE, pending |-> a.pending,
             ack |-> ~(a.receiver = Null) /\ a.ack, compression |-> FALSE,
             suppress |-> IF a.receiver = Null THEN Version >= E2012 ELSE SuppressSeqno,
             ies |-> a.ies, dest |-> IF a.receiver = Null THEN SHORT ELSE AddrMode,
             version |-> Version, src |-> AddrMode]
    BY <1>1, <1>3, <1>5, <1>7, <2>2, <2>3, Zenon
  <2>5. p = [fcf |-> f, seq |-> Numbered(a, 0), dest_pid |-> pan, src_pid |-> pan,
             dest |-> IF a.receiver = Null THEN Addr8(<<255, 255>>) ELSE a.receiver, src |-> a.sender]
    BY <2>1, <2>4, Zenon
  <2> QED BY <1>3, <1>4, <1>6, <2>5, Zenon
<1>9. f \in FCF /\ f.version = E2012 /\ f.dest # NOADDR /\ f.src # NOADDR
  BY <1>7, AddressFacts DEF FCF, DATA, E2012, NOADDR, SHORT, LONG
<1>10. HasDestPan(f)
  BY <1>7, AddressFacts DEF HasDestPan, E2012, NOADDR, SHORT, LONG
<1>11. /\ p.fcf = f /\ p.seq = seq /\ p.dest_pid = pan /\ p.src_pid = pan /\ p.dest = dest
       /\ p.src = Sender
  BY <1>15
<1>12. p \in [fcf : FCF, seq : Octet, dest_pid : Word, src_pid : Word,
              dest : [1..8 -> Octet], src : [1..8 -> Octet]]
  BY <1>1, <1>15, <1>9, AddressFacts
<1>13. p \in HeaderParams
  <2>1. \A i \in addr_len(p.fcf.dest) + 1 .. 8 : p.dest[i] = 0
    BY <1>6, <1>7, <1>11
  <2>2. \A i \in addr_len(p.fcf.src) + 1 .. 8 : p.src[i] = 0
    BY <1>7, <1>11, AddressFacts
  <2> QED BY <1>9, <1>10, <1>11, <1>12, <2>1, <2>2 DEF HeaderParams
<1>14. /\ f.type = DATA /\ f.pending = FALSE /\ f.ies = ies /\ f.suppress = (to = Null)
       /\ f.dest = mode /\ f.src = AddrMode
  BY <1>7
<1>16. DataParams(p, pan, to, mac, ies)
  BY <1>4, <1>5, <1>6, <1>11, <1>13, <1>14, Zenon DEF DataParams
<1> QED BY <1>2, <1>8, <1>16, Zenon

(* What the slot and the framer of the receiver make of a data frame.      *)
LEMMA SentRead ==
  ASSUME NEW a, NEW buf, NEW payload \in Seq(Octet), Sent(a, buf, payload)
  PROVE  /\ Taken(buf) <=> a.pan = Pan /\ a.receiver \in {Receiver, Null}
         /\ a.pan = Pan => /\ framer_parse(buf, Pan) = Ok(AttrOf(a))
                           /\ From(buf, AttrOf(a).hdr) = payload
         /\ parse_fcf(buf).ies = a.ies
<1>1. PICK pan \in {Pan, OtherPan}, to \in {Receiver, Other, Null}, mac \in MacSeqnos, ies \in BOOLEAN :
        /\ a = DataFrame(pan, to, mac, ies)
        /\ \E header \in framer_create(a, 0, a.pan) : buf = header \o payload
  BY DEF Sent
<1>2. a.pan = pan /\ a.receiver = to /\ a.ies = ies /\ (to # Null => a.seqno = mac)
  BY <1>1 DEF DataFrame
<1>3. PICK p : p = Params(a, 0, pan)
  OBVIOUS
<1>4. /\ p \in HeaderParams
      /\ p.fcf.type = DATA /\ p.fcf.pending = FALSE /\ p.fcf.ies = ies
      /\ p.fcf.suppress <=> to = Null
      /\ to # Null => p.seq = mac
      /\ p.fcf.dest = (IF to = Null THEN SHORT ELSE AddrMode) /\ p.fcf.src = AddrMode
      /\ p.dest_pid = pan
      /\ p.dest = (IF to = Null THEN Addr8(<<255, 255>>) ELSE to) /\ p.src = Sender
  <2>1. p = Params(DataFrame(pan, to, mac, ies), 0, pan)
    BY <1>1, <1>3, Zenon
  <2>2. DataParams(p, pan, to, mac, ies)
    BY <2>1, ParamsType, Zenon
  <2> QED BY <2>2, Zenon DEF DataParams
<1>5. pan # BroadcastPan /\ Pan # OtherPan /\ OtherPan # BroadcastPan
  BY HeadersAssumption
<1>6. PICK h \in Seq(Octet) : h = create_header(p) /\ Len(h) = hdrlen(p)
  BY <1>4, HeaderRead
<1>7. buf = h \o payload
  BY <1>1, <1>2, <1>3, <1>5, <1>6 DEF framer_create, Ok
<1>8. parse_header(buf) = Ok(HeaderOf(p, hdrlen(p))) /\ parse_fcf(buf) = p.fcf
  BY <1>4, <1>6, <1>7, HeaderRead
<1>9. PICK f : f = HeaderOf(p, hdrlen(p))
  OBVIOUS
<1>10. /\ f.fcf = p.fcf /\ f.hdr = hdrlen(p) /\ f.dest_pid = pan /\ f.dest = p.dest /\ f.src = Sender
       /\ f.seq = IF to = Null THEN NoSeqno ELSE mac
  BY <1>4, <1>9 DEF HeaderOf
<1>11. parse_header(buf) = {f}
  BY <1>8, <1>9 DEF Ok
<1>12. f.fcf.dest \in {SHORT, LONG} /\ f.fcf.dest # NOADDR /\ HasDestPan(f.fcf)
  BY <1>4, <1>10, AddressFacts DEF HeaderParams, SHORT, LONG, NOADDR
<1>13. is_broadcast_addr(f.fcf.dest, f.dest) <=> to = Null
  BY <1>4, <1>10, AddressFacts, BroadcastFacts
<1>14. Linkaddr(f.fcf.src, f.src) = Ok(Sender)
  BY <1>4, <1>10, AddressFacts DEF Linkaddr, SHORT, LONG, NOADDR
<1>15. Linkaddr(f.fcf.dest, f.dest) = Ok(to)
  BY <1>4, <1>10, <1>12, <1>13, AddressFacts DEF Linkaddr
<1>16. Taken(buf) <=> pan = Pan /\ to \in {Receiver, Null}
  <2>1. check_dest_panid(f, Pan) <=> pan = Pan
    BY <1>5, <1>10, <1>12 DEF check_dest_panid
  <2>2. Linkaddr(f.fcf.src, f.src) # Fail
    BY <1>14 DEF Ok, Fail
  <2>3. (\E dest \in Linkaddr(f.fcf.dest, f.dest) : dest \in {Receiver, Null}) <=> to \in {Receiver, Null}
    BY <1>15 DEF Ok
  <2> QED BY <1>11, <2>1, <2>2, <2>3 DEF Taken
<1>17. ASSUME pan = Pan
       PROVE  framer_parse(buf, Pan) = Ok(AttrOf(a)) /\ From(buf, AttrOf(a).hdr) = payload
  <2>1. AttrOf(a) = [type |-> DATA, pending |-> FALSE, seqno |-> IF to = Null THEN NoSeqno ELSE mac,
                     receiver |-> to, sender |-> Sender, hdr |-> hdrlen(p)]
    BY <1>2, <1>3, <1>17 DEF AttrOf
  <2>2. PICK o : o = [type |-> f.fcf.type, pending |-> f.fcf.pending, seqno |-> f.seq,
                  receiver |-> IF f.fcf.dest = NOADDR \/ is_broadcast_addr(f.fcf.dest, f.dest)
                               THEN Null ELSE f.dest,
                  sender |-> f.src, hdr |-> f.hdr]
    OBVIOUS
  <2>3. o = AttrOf(a)
    BY <1>4, <1>10, <1>12, <1>13, <2>1, <2>2, ZenonT(60)
  <2>4. framer_parse(buf, Pan) = UNION {Ok(o)}
    BY <1>10, <1>11, <1>12, <1>17, <2>2, Zenon DEF framer_parse
  <2>5. UNION {Ok(o)} = Ok(o)
    OBVIOUS
  <2>6. PICK b \in Seq(Octet) : /\ b = h \o payload /\ Len(b) = Len(h) + Len(payload)
                                /\ Holds(b, Len(h), payload)
    BY Together
  <2>7. Len(h) \in Nat
    BY LenProperties
  <2>8. From(b, Len(h)) = payload
    BY <2>6, <2>7, FromHeld
  <2>9. AttrOf(a).hdr = Len(h)
    BY <1>6, <2>1
  <2> QED BY <1>7, <2>3, <2>4, <2>5, <2>6, <2>8, <2>9, Zenon
<1>18. parse_fcf(buf).ies = a.ies
  BY <1>2, <1>4, <1>8
<1> QED BY <1>2, <1>16, <1>17, <1>18

-----------------------------------------------------------------------------
(* The elements a 6P packet travels in.                                    *)

HeaderEnd == [ie |-> "header", end |-> 2]
SixtopAt(len) == [ie |-> "sixtop", at |-> 5, len |-> len]

(* Where things lie in what sixtop_output makes of the content.            *)
Laid(buf, content, tail) ==
  /\ buf \in Seq(Octet) /\ Len(buf) = 5 + Len(content) + Len(tail)
  /\ Holds(buf, 0, ie_header_list_termination_1) /\ Holds(buf, 2, ie_ietf(Len(content) + 1))
  /\ Holds(buf, 4, <<SIXTOP_SUBIE_ID>>) /\ Holds(buf, 5, content)
  /\ Holds(buf, 5 + Len(content), tail)

TailOf(terminated) == Only(terminated, ie_payload_list_termination)

(* The lengths an element of a 6P packet may have, and its descriptors.    *)
Size == {n \in Nat : n < 2047}
HeaderEndWord == 16128
PayloadEndWord == 63488
IetfWord(n) == n + 43008

(* The descriptors of the elements around a 6P packet, as words.           *)
LEMMA Descriptors ==
  /\ HeaderEndWord \in Word /\ PayloadEndWord \in Word
  /\ ie_header_list_termination_1 = WRITE16(HeaderEndWord)
  /\ ie_payload_list_termination = WRITE16(PayloadEndWord)
  /\ \A n \in Size : ie_ietf(n + 1) = WRITE16(IetfWord(n + 1)) /\ IetfWord(n + 1) \in Word
<1>1. HeaderEndWord \in Word /\ PayloadEndWord \in Word
  BY SMT DEF Word, HeaderEndWord, PayloadEndWord
<1>2. ie_header_list_termination_1 = WRITE16(HeaderEndWord)
  BY SMT DEF ie_header_list_termination_1, header_ie_descriptor, LIST_TERMINATION_1, HeaderEndWord
<1>3. ie_payload_list_termination = WRITE16(PayloadEndWord)
  BY SMT DEF ie_payload_list_termination, payload_ie_descriptor, PAYLOAD_LIST_TERMINATION, PayloadEndWord
<1>4. ASSUME NEW n \in Size PROVE ie_ietf(n + 1) = WRITE16(IetfWord(n + 1)) /\ IetfWord(n + 1) \in Word
  <2>1. ((n + 1) % 2048) + (5 % 16) * 2048 + 32768 = IetfWord(n + 1)
    BY SMT DEF Size, IetfWord
  <2>2. ie_ietf(n + 1) = WRITE16(((n + 1) % 2048) + (5 % 16) * 2048 + 32768)
    BY SMT DEF ie_ietf, payload_ie_descriptor, IETF
  <2>3. IetfWord(n + 1) \in Word
    BY SMT DEF Word, Size, IetfWord
  <2> QED BY <2>1, <2>2, <2>3, SMT
<1> QED BY <1>1, <1>2, <1>3, <1>4

(* The two octets of a word.                                               *)
LEMMA WordWritten ==
  ASSUME NEW w \in Word PROVE WRITE16(w) \in Seq(Octet) /\ Len(WRITE16(w)) = 2
<1>1. w \in Int
  BY SMT DEF Word
<1> QED BY <1>1, Write16Type

(* Where sixtop_output puts the elements and the content between them.     *)
LEMMA WrappedLaid ==
  ASSUME NEW content \in Seq(Octet), Len(content) \in Size, NEW terminated \in BOOLEAN
  PROVE  Laid(Wrapped(content, terminated), content, TailOf(terminated))
<1>1. PICK l \in Size : l = Len(content)
  OBVIOUS
<1>2. PICK c1 \in Seq(Octet) : c1 = ie_header_list_termination_1 /\ Len(c1) = 2
  BY Descriptors, WordWritten
<1>3. PICK c2 \in Seq(Octet) : c2 = ie_ietf(l + 1) /\ Len(c2) = 2
  <2>1. ie_ietf(l + 1) = WRITE16(IetfWord(l + 1)) /\ IetfWord(l + 1) \in Word
    BY Descriptors
  <2> QED BY <2>1, WordWritten
<1>4. PICK c3 \in Seq(Octet) : c3 = <<SIXTOP_SUBIE_ID>> /\ Len(c3) = 1
  <2>1. SIXTOP_SUBIE_ID \in Octet
    BY DEF SIXTOP_SUBIE_ID, Octet
  <2>2. <<SIXTOP_SUBIE_ID>> \in Seq(Octet) /\ Len(<<SIXTOP_SUBIE_ID>>) = 1
    BY <2>1
  <2> QED BY <2>2, Zenon
<1>5. PICK tail \in Seq(Octet) : tail = TailOf(terminated)
  <2>1. ie_payload_list_termination \in Seq(Octet)
    BY Descriptors, WordWritten
  <2> QED BY <2>1, OnlyType DEF TailOf
<1>6. PICK sub \in Seq(Octet) : /\ sub = c3 \o content /\ Len(sub) = Len(c3) + Len(content)
  BY Together
<1>7. PICK h1 \in Seq(Octet) : h1 = c1 \o c2 /\ Len(h1) = Len(c1) + Len(c2)
  BY Together
<1>8. PICK h2 \in Seq(Octet) : h2 = h1 \o sub /\ Len(h2) = Len(h1) + Len(sub)
  BY Together
<1>9. PICK buf \in Seq(Octet) : /\ buf = h2 \o tail /\ Len(buf) = Len(h2) + Len(tail)
                                /\ Holds(buf, 0, h2) /\ Holds(buf, Len(h2), tail)
  BY Together
<1>10. Holds(buf, 0, h1) /\ Holds(buf, Len(h1), sub)
  <2>1. Holds(buf, 0, h1 \o sub)
    BY <1>8, <1>9, Zenon
  <2> QED BY <2>1, HoldsFront
<1>11. Holds(buf, 0, c1) /\ Holds(buf, Len(c1), c2)
  <2>1. Holds(buf, 0, c1 \o c2)
    BY <1>7, <1>10, Zenon
  <2> QED BY <2>1, HoldsFront
<1>12. Holds(buf, Len(h1), c3) /\ Holds(buf, Len(h1) + Len(c3), content)
  <2>1. Holds(buf, Len(h1), c3 \o content)
    BY <1>6, <1>10, Zenon
  <2>2. Len(h1) \in Nat
    BY LenProperties
  <2> QED BY <2>1, <2>2, HoldsBoth
<1>13. Len(sub) = l + 1 /\ Len(h1) = 4 /\ Len(h1) + Len(c3) = 5 /\ Len(h2) = 5 + l /\ Len(tail) \in Nat
  <2>1. l \in Nat
    BY SMT DEF Size
  <2> QED BY <1>1, <1>2, <1>3, <1>4, <1>6, <1>7, <1>8, <2>1, LenProperties, SMT
<1>14. Wrapped(content, terminated) = buf
  <2>1. Wrapped(content, terminated)
          = ie_header_list_termination_1 \o ie_ietf(Len(<<SIXTOP_SUBIE_ID>> \o content))
            \o (<<SIXTOP_SUBIE_ID>> \o content) \o TailOf(terminated)
    BY DEF Wrapped, TailOf
  <2>2. sub = <<SIXTOP_SUBIE_ID>> \o content
    BY <1>4, <1>6
  <2>3. Wrapped(content, terminated) = c1 \o c2 \o sub \o tail
    BY <1>2, <1>3, <1>5, <1>13, <2>1, <2>2
  <2> QED BY <1>7, <1>8, <1>9, <2>3
<1>15. Holds(buf, 4, c3) /\ Holds(buf, 5, content) /\ Holds(buf, 2, c2) /\ Holds(buf, 5 + l, tail)
  BY <1>2, <1>9, <1>11, <1>12, <1>13, Zenon
<1>16. Laid(buf, content, tail)
  BY <1>1, <1>2, <1>3, <1>4, <1>9, <1>11, <1>13, <1>15, Zenon DEF Laid
<1> QED BY <1>5, <1>14, <1>16, Zenon

(* Two elements in a row are a sequence of two.                            *)
LEMMA TwoTogether ==
  ASSUME NEW d, NEW e
  PROVE  <<d>> \o <<e>> = <<d, e>>
<1>1. PICK s \in Seq({d, e}) : s = <<d>>
  <2>1. <<d>> \in Seq({d, e})
    OBVIOUS
  <2> QED BY <2>1, Zenon
<1>2. e \in {d, e}
  OBVIOUS
<1>3. Append(s, e) = s \o <<e>>
  BY <1>1, <1>2, AppendIsConcat
<1>4. Append(s, e) = <<d, e>>
  <2>1. PICK t \in Seq({d, e}) : t = <<d, e>> /\ Len(t) = 2 /\ t[1] = d /\ t[2] = e
    <3>1. <<d, e>> \in Seq({d, e}) /\ Len(<<d, e>>) = 2 /\ <<d, e>>[1] = d /\ <<d, e>>[2] = e
      OBVIOUS
    <3> QED BY <3>1, Zenon
  <2>2. Len(s) = 1 /\ s[1] = d
    BY <1>1
  <2>3. PICK u \in Seq({d, e}) : u = Append(s, e) /\ Len(u) = 2 /\ u[1] = d /\ u[2] = e
    <3>1. /\ Append(s, e) \in Seq({d, e}) /\ Len(Append(s, e)) = Len(s) + 1
          /\ \A i \in DOMAIN s : Append(s, e)[i] = s[i]
          /\ Append(s, e)[Len(s) + 1] = e
      BY <1>2, Appended
    <3>2. 1 \in DOMAIN s /\ Len(s) + 1 = 2
      BY <2>2, LenProperties
    <3> QED BY <2>2, <3>1, <3>2, Zenon
  <2>5. Len(u) = Len(t) /\ \A i \in 1 .. Len(u) : u[i] = t[i]
    BY <2>1, <2>3
  <2>4. u = t
    BY <2>5, SeqEqual
  <2> QED BY <2>1, <2>3, <2>4, Zenon
<1> QED BY <1>1, <1>3, <1>4, Zenon

(* The rounds of the loop find the end of the header elements and the 6P   *)
(* content, whole, whether or not a termination follows.                   *)
LEMMA LaidRead ==
  ASSUME NEW buf, NEW content \in Seq(Octet), Len(content) \in Size, NEW terminated \in BOOLEAN,
         Laid(buf, content, TailOf(terminated))
  PROVE  \E end : ParsedFrom(buf) = Ok([ies |-> <<HeaderEnd, SixtopAt(Len(content))>>, end |-> end])
<1>1. PICK l \in Size : l = Len(content)
  OBVIOUS
<1>2. /\ buf \in Seq(Octet) /\ Len(buf) = 5 + l + Len(TailOf(terminated))
      /\ Holds(buf, 0, ie_header_list_termination_1) /\ Holds(buf, 2, ie_ietf(l + 1))
      /\ Holds(buf, 4, <<SIXTOP_SUBIE_ID>>) /\ Holds(buf, 5 + l, TailOf(terminated))
  BY <1>1, Zenon DEF Laid
<1>3. PICK f : /\ ParsedFrom(buf) = f[In("HEADER", 0)]
               /\ \A m \in Loop : f[m] = Round(buf, m, f)
  BY <1>2, Rounds
<1>4. PICK k \in Nat : k = Len(TailOf(terminated)) /\ k = IF terminated THEN 2 ELSE 0
  <2>1. CASE terminated
    <3>1. Len(ie_payload_list_termination) = 2
      BY Descriptors, WordWritten
    <3> QED BY <2>1, <3>1 DEF TailOf, Only
  <2>2. CASE ~terminated
    BY <2>2 DEF TailOf, Only
  <2> QED BY <2>1, <2>2
<1>5. READ16(buf, 0) = HeaderEndWord /\ READ16(buf, 2) = IetfWord(l + 1)
  <2>1. PICK w \in Word : w = IetfWord(l + 1) /\ ie_ietf(l + 1) = WRITE16(w)
    BY Descriptors
  <2>2. PICK v \in Word : v = HeaderEndWord /\ ie_header_list_termination_1 = WRITE16(v)
    BY Descriptors
  <2>3. Holds(buf, 2, WRITE16(w)) /\ Holds(buf, 0, WRITE16(v))
    BY <1>2, <2>1, <2>2, Zenon
  <2>4. READ16(buf, 2) = w
    BY <1>2, <2>3, Read16Held
  <2>5. READ16(buf, 0) = v
    BY <1>2, <2>3, Read16Held
  <2> QED BY <2>1, <2>2, <2>4, <2>5
<1>5a. l \in Nat /\ l < 2047
  BY SMT DEF Size
<1>6. PICK at \in Nat : at = 5 + l
  BY <1>5a
<1>7. \E end : f[In("PAYLOAD", at)] = Ended(end)
  <2>1. In("PAYLOAD", at) \in Loop /\ In("PAYLOAD", at).at = at /\ In("PAYLOAD", at).state = "PAYLOAD"
    BY DEF In, Loop
  <2>2. f[In("PAYLOAD", at)] = Round(buf, In("PAYLOAD", at), f)
    BY <1>3, <2>1, Zenon
  <2>3. CASE ~terminated
    <3>1. Len(buf) = at
      BY <1>2, <1>4, <1>6, <1>5a, <2>3
    <3>2. Round(buf, In("PAYLOAD", at), f) = Ended(at)
      BY <2>1, <3>1 DEF Round
    <3> QED BY <2>2, <3>2
  <2>4. CASE terminated
    <3>1. Len(buf) = at + 2
      BY <1>2, <1>4, <1>6, <1>5a, <2>4
    <3>2. PICK w \in Word : w = PayloadEndWord /\ Holds(buf, at, WRITE16(w))
      <4>1. TailOf(terminated) = WRITE16(PayloadEndWord)
        BY <2>4, Descriptors DEF TailOf, Only
      <4> QED BY <1>2, <1>6, <4>1, Descriptors, Zenon
    <3>3. READ16(buf, at) = w
      BY <1>2, <3>2, Read16Held
    <3>4. Round(buf, In("PAYLOAD", at), f) = PayloadElement(buf, w, at + 2, f)
      BY <2>1, <3>1, <3>3, SMT DEF Round
    <3>5. w % 2048 = 0 /\ (w % 32768) \div 2048 = 15 /\ ~ (w < 32768)
      BY <3>2, SMT DEF PayloadEndWord
    <3>6. PayloadElement(buf, w, at + 2, f) = Ended(at + 2)
      BY <3>5, SMT DEF PayloadElement, MLME, IETF, PAYLOAD_LIST_TERMINATION
    <3> QED BY <2>2, <3>4, <3>6
  <2> QED BY <2>3, <2>4
<1>8. PICK end : f[In("PAYLOAD", at)] = Ended(end)
  BY <1>7
<1>9. f[In("PAYLOAD", 2)] = Found(SixtopAt(l), Ended(end))
  <2>1. In("PAYLOAD", 2) \in Loop /\ In("PAYLOAD", 2).at = 2 /\ In("PAYLOAD", 2).state = "PAYLOAD"
    BY DEF In, Loop
  <2>2. f[In("PAYLOAD", 2)] = Round(buf, In("PAYLOAD", 2), f)
    BY <1>3, <2>1, Zenon
  <2>3. PICK w \in Nat : w = IetfWord(l + 1)
    BY <1>5a, SMT DEF IetfWord
  <2>4. Round(buf, In("PAYLOAD", 2), f) = PayloadElement(buf, w, 4, f)
    BY <1>2, <1>4, <1>5, <1>5a, <2>1, <2>3, SMT DEF Round
  <2>5. w % 2048 = l + 1 /\ (w % 32768) \div 2048 = 5 /\ ~ (w < 32768)
    BY <1>5a, <2>3, SMT DEF IetfWord
  <2>6. parse_ietf(buf, 4, l + 1) = SixtopAt(l)
    <3>1. buf[4 + 1] = SIXTOP_SUBIE_ID
      BY <1>2, OneHeld
    <3>2. 4 + 1 = 5 /\ (l + 1) - 1 = l
      BY <1>5a
    <3> QED BY <3>1, <3>2, Zenon DEF parse_ietf, SixtopAt
  <2>7. PayloadElement(buf, w, 4, f) = Found(parse_ietf(buf, 4, l + 1), f[In("PAYLOAD", 4 + (l + 1))])
    BY <2>5, SMT DEF PayloadElement, MLME, IETF
  <2>8. 4 + (l + 1) = at
    BY <1>6, <1>5a
  <2> QED BY <1>8, <2>2, <2>4, <2>6, <2>7, <2>8
<1>10. Found(SixtopAt(l), Ended(end)) = Ok([ies |-> <<SixtopAt(l)>>, end |-> end])
  BY FoundLast
<1>11. f[In("HEADER", 0)] = Found(HeaderEnd, f[In("PAYLOAD", 2)])
  <2>1. In("HEADER", 0) \in Loop /\ In("HEADER", 0).at = 0 /\ In("HEADER", 0).state = "HEADER"
    BY DEF In, Loop
  <2>2. f[In("HEADER", 0)] = Round(buf, In("HEADER", 0), f)
    BY <1>3, <2>1, Zenon
  <2>6. PICK w : w = HeaderEndWord
    OBVIOUS
  <2>3. Round(buf, In("HEADER", 0), f) = HeaderElement(buf, w, 2, f)
    BY <1>2, <1>4, <1>5, <1>5a, <2>1, <2>6, SMT DEF Round
  <2>4. w % 128 = 0 /\ (w % 32768) \div 128 = 126 /\ ~ (w >= 32768)
    BY <2>6, SMT DEF HeaderEndWord
  <2>5. HeaderElement(buf, w, 2, f) = Found(HeaderEnd, f[In("PAYLOAD", 2)])
    BY <2>4, SMT DEF HeaderElement, LIST_TERMINATION_1, HeaderEnd
  <2> QED BY <2>2, <2>3, <2>5
<1>12. PICK one : one = <<SixtopAt(l)>>
  OBVIOUS
<1>13. Found(HeaderEnd, Ok([ies |-> one, end |-> end])) = Ok([ies |-> <<HeaderEnd>> \o one, end |-> end])
  BY FoundOne
<1>14. <<HeaderEnd>> \o one = <<HeaderEnd, SixtopAt(l)>>
  BY <1>12, TwoTogether, Zenon
<1>15. ParsedFrom(buf) = Ok([ies |-> <<HeaderEnd, SixtopAt(l)>>, end |-> end])
  BY <1>3, <1>9, <1>10, <1>11, <1>12, <1>13, <1>14, Zenon
<1> QED BY <1>1, <1>15, Zenon

(* What follows the 6P content in the packetbuf is nothing, once           *)
(* strip_payload_termination_ie has run.                                   *)
LEMMA TailStripped ==
  ASSUME NEW terminated \in BOOLEAN
  PROVE  Stripped(TailOf(terminated)) = <<>>
<1>1. PICK t \in Seq(Octet) : t = ie_payload_list_termination /\ Len(t) = 2
  BY Descriptors, WordWritten
<1>2. CASE terminated
  <2>1. TailOf(terminated) = t
    BY <1>1, <1>2 DEF TailOf, Only
  <2>2. Octets(t, 0, 2) = t
    <3>1. Holds(t, 0, t)
      BY HoldsAll
    <3> QED BY <1>1, <3>1, OctetsHeld
  <2>3. From(t, 2) = <<>>
    <3>1. PICK e \in Seq(Octet) : e = <<>> /\ Len(e) = 0
      BY EmptySeq
    <3>2. Holds(t, 2, e) /\ Len(t) = 2 + Len(e)
      BY <1>1, <3>1 DEF Holds
    <3> QED BY <3>1, <3>2, FromHeld
  <2> QED BY <1>1, <2>1, <2>2, <2>3 DEF Stripped
<1>3. CASE ~terminated
  BY <1>3 DEF TailOf, Only, Stripped
<1> QED BY <1>2, <1>3

(* sixtop_input finds the content whole; what it leaves is nothing, unless *)
(* it has answered.                                                        *)
LEMMA SixpRead ==
  ASSUME NEW content \in Seq(Octet), Len(content) \in Size, Len(content) > 0,
         NEW terminated \in BOOLEAN, NEW answer
  PROVE  \E s : /\ SixpIn(Wrapped(content, terminated), answer) = {s}
                /\ s.pkt = parse(content) /\ (s.up = <<>> \/ s.answered)
<1>1. PICK buf : buf = Wrapped(content, terminated)
  OBVIOUS
<1>2. Laid(buf, content, TailOf(terminated))
  BY <1>1, WrappedLaid
<1>3. PICK l \in Nat : l = Len(content) /\ l > 0
  BY LenProperties
<1>4. PICK end : ParsedFrom(buf) = Ok([ies |-> <<HeaderEnd, SixtopAt(l)>>, end |-> end])
  BY <1>2, <1>3, LaidRead
<1>5. PICK r : r = [ies |-> <<HeaderEnd, SixtopAt(l)>>, end |-> end]
  OBVIOUS
<1>6. ParsedFrom(buf) = {r}
  BY <1>4, <1>5 DEF Ok
<1>7. {e \in {r.ies[i] : i \in DOMAIN r.ies} : e.ie = "sixtop" /\ e.len > 0} = {SixtopAt(l)}
  <2>1. {r.ies[i] : i \in DOMAIN r.ies} = {HeaderEnd, SixtopAt(l)}
    BY <1>5
  <2>2. HeaderEnd.ie = "header" /\ SixtopAt(l).ie = "sixtop" /\ SixtopAt(l).len = l
    BY DEF HeaderEnd, SixtopAt
  <2> QED BY <1>3, <2>1, <2>2
<1>8. SixtopAt(l).at = 5 /\ SixtopAt(l).len = l
  BY DEF SixtopAt
<1>9. Octets(buf, 5, l) = content
  BY <1>2, <1>3, OctetsHeld DEF Laid
<1>10. PICK answers \in BOOLEAN :
         answers = (answer # <<>> /\ \E q \in parse(content) : IsRequest(q, {CMD_ADD}))
  OBVIOUS
<1>11. PICK up : up = Stripped(Reduced(IF answers THEN answer ELSE buf, 5 + l))
  OBVIOUS
<1>12. PICK s : s = [pkt |-> parse(content), answered |-> answers, up |-> up]
  OBVIOUS
<1>13. SixpIn(buf, answer) = {s}
  <2> DEFINE S(e) == LET p == parse(Octets(buf, e.at, e.len))
                         answered == answer # <<>> /\ \E q \in p : IsRequest(q, {CMD_ADD})
                     IN [pkt |-> p, answered |-> answered,
                         up |-> Stripped(Reduced(IF answered THEN answer ELSE buf, e.at + e.len))]
             T(q) == {e \in {q.ies[i] : i \in DOMAIN q.ies} : e.ie = "sixtop" /\ e.len > 0}
  <2>1. SixpIn(buf, answer) = UNION {{S(e) : e \in T(q)} : q \in ParsedFrom(buf)}
    BY Zenon DEF SixpIn
  <2>2. T(r) = {SixtopAt(l)}
    BY <1>7
  <2>3. S(SixtopAt(l)) = s
    BY <1>8, <1>9, <1>10, <1>11, <1>12, Zenon
  <2> HIDE DEF S, T
  <2> QED BY <1>6, <2>1, <2>2, <2>3
<1>14. up = <<>> \/ answers
  <2>1. CASE ~answers
    <3>1. PICK t \in Seq(Octet) : t = TailOf(terminated)
      <4>1. ie_payload_list_termination \in Seq(Octet)
        BY Descriptors, WordWritten
      <4> QED BY <4>1, OnlyType DEF TailOf
    <3>2. /\ buf \in Seq(Octet) /\ Len(buf) = (5 + l) + Len(t) /\ Holds(buf, 5 + l, t) /\ 5 + l \in Nat
      BY <1>2, <1>3, <3>1 DEF Laid
    <3>3. From(buf, 5 + l) = t
      BY <3>2, FromHeld
    <3>4. ~ (Len(buf) < 5 + l)
      BY <1>3, <3>2, LenProperties
    <3>5. Reduced(buf, 5 + l) = t
      BY <3>3, <3>4 DEF Reduced
    <3> QED BY <1>11, <2>1, <3>1, <3>5, TailStripped
  <2> QED BY <2>1
<1> QED BY <1>1, <1>12, <1>13, <1>14

-----------------------------------------------------------------------------
(* Writing into a body.                                                    *)

(* Copying into a body changes the octets it is copied to, and no other.   *)
LEMMA CopiedType ==
  ASSUME NEW buf \in Seq(Octet), NEW at \in Nat, NEW s \in Seq(Octet), at + Len(s) <= Len(buf)
  PROVE  /\ Copied(buf, at, s) \in Seq(Octet) /\ Len(Copied(buf, at, s)) = Len(buf)
         /\ \A i \in 1 .. Len(buf) :
              Copied(buf, at, s)[i] = IF i \in at + 1 .. at + Len(s) THEN s[i - at] ELSE buf[i]
<1>1. PICK n \in Nat, k \in Nat : n = Len(buf) /\ k = Len(s) /\ DOMAIN buf = 1 .. n
  BY LenProperties
<1>2. PICK c : c = [i \in 1 .. n |-> IF i \in at + 1 .. at + k THEN s[i - at] ELSE buf[i]]
  OBVIOUS
<1>3. Copied(buf, at, s) = c
  BY <1>1, <1>2 DEF Copied
<1>4. ASSUME NEW i \in 1 .. n PROVE c[i] \in Octet
  <2>1. CASE i \in at + 1 .. at + k
    <3>1. i - at \in 1 .. k
      BY <2>1
    <3>2. s[i - at] \in Octet
      BY <1>1, <3>1, ElementOfSeq
    <3> QED BY <1>2, <2>1, <3>2
  <2>2. CASE i \notin at + 1 .. at + k
    <3>1. buf[i] \in Octet
      BY <1>1, ElementOfSeq
    <3> QED BY <1>2, <2>2, <3>1
  <2> QED BY <2>1, <2>2
<1>5. c \in [1 .. n -> Octet]
  BY <1>2, <1>4
<1>6. c \in Seq(Octet) /\ Len(c) = n
  BY <1>5, LenProperties
<1>7. \A i \in 1 .. n : c[i] = IF i \in at + 1 .. at + k THEN s[i - at] ELSE buf[i]
  BY <1>2
<1> QED BY <1>1, <1>3, <1>6, <1>7

(* What is copied into a body then lies there.                             *)
LEMMA CopyHolds ==
  ASSUME NEW buf \in Seq(Octet), NEW at \in Nat, NEW s \in Seq(Octet), at + Len(s) <= Len(buf)
  PROVE  Holds(Copied(buf, at, s), at, s)
<1>1. PICK n \in Nat, k \in Nat : n = Len(buf) /\ k = Len(s)
  BY LenProperties
<1>2. PICK c : c = Copied(buf, at, s)
  OBVIOUS
<1>3. Len(c) = n /\ \A i \in 1 .. n : c[i] = IF i \in at + 1 .. at + k THEN s[i - at] ELSE buf[i]
  BY <1>1, <1>2, CopiedType
<1>4. \A i \in 1 .. k : c[at + i] = s[i]
  <2> SUFFICES ASSUME NEW i \in 1 .. k PROVE c[at + i] = s[i]
    OBVIOUS
  <2>1. at + i \in 1 .. n /\ at + i \in at + 1 .. at + k /\ (at + i) - at = i
    BY <1>1
  <2> QED BY <1>3, <2>1
<1> QED BY <1>1, <1>2, <1>3, <1>4 DEF Holds

(* What lies before or behind the place written stays.                     *)
LEMMA CopyKeeps ==
  ASSUME NEW buf \in Seq(Octet), NEW at \in Nat, NEW s \in Seq(Octet), at + Len(s) <= Len(buf),
         NEW b \in Nat, NEW t \in Seq(Octet), Holds(buf, b, t),
         b + Len(t) <= at \/ at + Len(s) <= b
  PROVE  Holds(Copied(buf, at, s), b, t)
<1>1. PICK n \in Nat, k \in Nat, m \in Nat : n = Len(buf) /\ k = Len(s) /\ m = Len(t)
  BY LenProperties
<1>2. PICK c : c = Copied(buf, at, s)
  OBVIOUS
<1>3. Len(c) = n /\ \A i \in 1 .. n : c[i] = IF i \in at + 1 .. at + k THEN s[i - at] ELSE buf[i]
  BY <1>1, <1>2, CopiedType
<1>4. b + m <= n /\ (\A i \in 1 .. m : buf[b + i] = t[i]) /\ (b + m <= at \/ at + k <= b)
  BY <1>1 DEF Holds
<1>5. \A i \in 1 .. m : c[b + i] = t[i]
  <2> SUFFICES ASSUME NEW i \in 1 .. m PROVE c[b + i] = t[i]
    OBVIOUS
  <2>1. b + i \in 1 .. n /\ b + i \notin at + 1 .. at + k
    BY <1>4
  <2> QED BY <1>3, <1>4, <2>1
<1> QED BY <1>1, <1>2, <1>3, <1>4, <1>5 DEF Holds

(* Two strings held one behind the other are held as one.                  *)
LEMMA HoldsJoined ==
  ASSUME NEW buf \in Seq(Octet), NEW at \in Nat, NEW s \in Seq(Octet), NEW t \in Seq(Octet),
         Holds(buf, at, s), Holds(buf, at + Len(s), t)
  PROVE  Holds(buf, at, s \o t)
<1>1. PICK k \in Nat, l \in Nat, n \in Nat : k = Len(s) /\ l = Len(t) /\ n = Len(buf)
  BY LenProperties
<1>2. PICK st : st = s \o t
  OBVIOUS
<1>3. Len(st) = k + l /\ \A i \in 1 .. k + l : st[i] = IF i <= k THEN s[i] ELSE t[i - k]
  BY <1>1, <1>2, ConcatProperties
<1>4. /\ (\A i \in 1 .. k : buf[at + i] = s[i]) /\ at + k + l <= n
      /\ \A i \in 1 .. l : buf[at + k + i] = t[i]
  BY <1>1 DEF Holds
<1>5. \A i \in 1 .. k + l : buf[at + i] = st[i]
  <2> SUFFICES ASSUME NEW i \in 1 .. k + l PROVE buf[at + i] = st[i]
    OBVIOUS
  <2>1. CASE i <= k
    <3>1. i \in 1 .. k
      BY <2>1
    <3> QED BY <1>3, <1>4, <2>1, <3>1
  <2>2. CASE ~ (i <= k)
    <3>1. PICK j \in 1 .. l : j = i - k /\ at + k + j = at + i
      BY <2>2
    <3>2. buf[at + k + j] = t[j] /\ st[i] = t[i - k]
      BY <1>3, <1>4, <2>2
    <3> QED BY <3>1, <3>2
  <2> QED BY <2>1, <2>2
<1> QED BY <1>1, <1>2, <1>3, <1>4, <1>5 DEF Holds

(* A part of what is held in a part.                                       *)
LEMMA HoldsIn ==
  ASSUME NEW buf \in Seq(Octet), NEW len \in Nat, len <= Len(buf),
         NEW at \in Nat, NEW s \in Seq(Octet), Holds(buf, at, s), at + Len(s) <= len
  PROVE  Holds(Octets(buf, 0, len), at, s)
<1>1. PICK k \in Nat : k = Len(s)
  BY LenProperties
<1>2. PICK c : c = Octets(buf, 0, len)
  OBVIOUS
<1>3. Len(c) = len /\ \A i \in 1 .. len : c[i] = buf[0 + i]
  <2>1. 0 + len <= Len(buf)
    OBVIOUS
  <2>2. Len(Octets(buf, 0, len)) = len /\ \A i \in 1 .. len : Octets(buf, 0, len)[i] = buf[0 + i]
    BY <2>1, OctetsType
  <2> QED BY <1>2, <2>2, Zenon
<1>4. \A i \in 1 .. k : buf[at + i] = s[i] /\ at + i \in 1 .. len
  BY <1>1 DEF Holds
<1>5. \A i \in 1 .. k : c[at + i] = s[i]
  <2> SUFFICES ASSUME NEW i \in 1 .. k PROVE c[at + i] = s[i]
    OBVIOUS
  <2>1. PICK j \in 1 .. len : j = at + i /\ 0 + j = j
    BY <1>4, SMTT(30)
  <2>2. c[j] = buf[0 + j]
    BY <1>3, <2>1, Zenon
  <2>3. buf[at + i] = s[i]
    BY <1>4, Zenon
  <2> QED BY <2>1, <2>2, <2>3, Zenon
<1> QED BY <1>1, <1>2, <1>3, <1>5 DEF Holds

-----------------------------------------------------------------------------
(* Where the fields of a packet lie.                                       *)

WordFields == {"metadata", "offset", "max_num_cells", "total_num_cells"}
OctetFields == {"cell_options", "num_cells", "reserved"}

Encoded(f, v) == IF f \in WordFields THEN WRITE16(v) ELSE IF f \in OctetFields THEN <<v>> ELSE v
Present(f, p) == IF f = "cand_cell_list" THEN Has("rel_cell_list", p) ELSE Has(f, p)
Place(f, p) == IF f = "cand_cell_list" THEN 4 + 4 * p.body[4] ELSE FieldOffset(f, p)

(* How far a field may reach: those without an end of their own, the end.  *)
Limit(f, p) ==
  CASE f = "metadata" -> 2 [] f = "cell_options" -> 3 [] f \in {"num_cells", "reserved"} -> 4
    [] f = "offset" -> 6 [] f = "max_num_cells" -> 8 [] f = "rel_cell_list" -> 4 + 4 * p.body[4]
    [] OTHER -> Storage + 1

Packet(p) ==
  /\ <<p.type, p.code>> \in ({REQUEST} \X (CMD_ADD .. CMD_CLEAR))
                            \cup ({RESPONSE, CONFIRMATION} \X ({RC_SUCCESS, RC_EOL} \cup RC_ERRORS))
  /\ p.body \in Seq(Octet) /\ p.len \in Nat

(* The fields of each kind of packet.                                      *)
LEMMA AddFields ==
  ASSUME NEW p, p.type = REQUEST, p.code \in {CMD_ADD, CMD_DELETE}
  PROVE  /\ FieldOffset("metadata", p) = 0 /\ FieldOffset("cell_options", p) = 2
         /\ FieldOffset("num_cells", p) = 3 /\ FieldOffset("reserved", p) = Absent
         /\ FieldOffset("offset", p) = Absent /\ FieldOffset("max_num_cells", p) = Absent
         /\ FieldOffset("cell_list", p) = 4 /\ FieldOffset("rel_cell_list", p) = Absent
         /\ FieldOffset("total_num_cells", p) = Absent /\ FieldOffset("payload", p) = Absent
BY DEF FieldOffset, IsRequest, IsAnswer, REQUEST, RESPONSE, CONFIRMATION, CMD_ADD, CMD_DELETE, CMD_RELOCATE,
       CMD_COUNT, CMD_LIST, CMD_SIGNAL, CMD_CLEAR, RC_SUCCESS, RC_EOL, RC_ERRORS

(* Where the fields of a relocate request lie, and which it has not.       *)
LEMMA RelocateFields ==
  ASSUME NEW p, p.type = REQUEST, p.code = CMD_RELOCATE
  PROVE  /\ FieldOffset("metadata", p) = 0 /\ FieldOffset("cell_options", p) = 2
         /\ FieldOffset("num_cells", p) = 3 /\ FieldOffset("reserved", p) = Absent
         /\ FieldOffset("offset", p) = Absent /\ FieldOffset("max_num_cells", p) = Absent
         /\ FieldOffset("cell_list", p) = Absent /\ FieldOffset("rel_cell_list", p) = 4
         /\ FieldOffset("total_num_cells", p) = Absent /\ FieldOffset("payload", p) = Absent
BY DEF FieldOffset, IsRequest, IsAnswer, REQUEST, RESPONSE, CONFIRMATION, CMD_ADD, CMD_DELETE, CMD_RELOCATE,
       CMD_COUNT, CMD_LIST, CMD_SIGNAL, CMD_CLEAR, RC_SUCCESS, RC_EOL, RC_ERRORS

(* The fields of a count request.                                          *)
LEMMA CountFields ==
  ASSUME NEW p, p.type = REQUEST, p.code = CMD_COUNT
  PROVE  /\ FieldOffset("metadata", p) = 0 /\ FieldOffset("cell_options", p) = 2
         /\ FieldOffset("num_cells", p) = Absent /\ FieldOffset("reserved", p) = Absent
         /\ FieldOffset("offset", p) = Absent /\ FieldOffset("max_num_cells", p) = Absent
         /\ FieldOffset("cell_list", p) = Absent /\ FieldOffset("rel_cell_list", p) = Absent
         /\ FieldOffset("total_num_cells", p) = Absent /\ FieldOffset("payload", p) = Absent
BY DEF FieldOffset, IsRequest, IsAnswer, REQUEST, RESPONSE, CONFIRMATION, CMD_ADD, CMD_DELETE, CMD_RELOCATE,
       CMD_COUNT, CMD_LIST, CMD_SIGNAL, CMD_CLEAR, RC_SUCCESS, RC_EOL, RC_ERRORS

(* The fields of a list request.                                           *)
LEMMA ListFields ==
  ASSUME NEW p, p.type = REQUEST, p.code = CMD_LIST
  PROVE  /\ FieldOffset("metadata", p) = 0 /\ FieldOffset("cell_options", p) = 2
         /\ FieldOffset("num_cells", p) = Absent /\ FieldOffset("reserved", p) = 3
         /\ FieldOffset("offset", p) = 4 /\ FieldOffset("max_num_cells", p) = 6
         /\ FieldOffset("cell_list", p) = Absent /\ FieldOffset("rel_cell_list", p) = Absent
         /\ FieldOffset("total_num_cells", p) = Absent /\ FieldOffset("payload", p) = Absent
BY DEF FieldOffset, IsRequest, IsAnswer, REQUEST, RESPONSE, CONFIRMATION, CMD_ADD, CMD_DELETE, CMD_RELOCATE,
       CMD_COUNT, CMD_LIST, CMD_SIGNAL, CMD_CLEAR, RC_SUCCESS, RC_EOL, RC_ERRORS

(* The fields of a signal request.                                         *)
LEMMA SignalFields ==
  ASSUME NEW p, p.type = REQUEST, p.code = CMD_SIGNAL
  PROVE  /\ FieldOffset("metadata", p) = 0 /\ FieldOffset("cell_options", p) = Absent
         /\ FieldOffset("num_cells", p) = Absent /\ FieldOffset("reserved", p) = Absent
         /\ FieldOffset("offset", p) = Absent /\ FieldOffset("max_num_cells", p) = Absent
         /\ FieldOffset("cell_list", p) = Absent /\ FieldOffset("rel_cell_list", p) = Absent
         /\ FieldOffset("total_num_cells", p) = Absent /\ FieldOffset("payload", p) = 2
BY DEF FieldOffset, IsRequest, IsAnswer, REQUEST, RESPONSE, CONFIRMATION, CMD_ADD, CMD_DELETE, CMD_RELOCATE,
       CMD_COUNT, CMD_LIST, CMD_SIGNAL, CMD_CLEAR, RC_SUCCESS, RC_EOL, RC_ERRORS

(* The fields of a clear request.                                          *)
LEMMA ClearFields ==
  ASSUME NEW p, p.type = REQUEST, p.code = CMD_CLEAR
  PROVE  /\ FieldOffset("metadata", p) = 0 /\ FieldOffset("cell_options", p) = Absent
         /\ FieldOffset("num_cells", p) = Absent /\ FieldOffset("reserved", p) = Absent
         /\ FieldOffset("offset", p) = Absent /\ FieldOffset("max_num_cells", p) = Absent
         /\ FieldOffset("cell_list", p) = Absent /\ FieldOffset("rel_cell_list", p) = Absent
         /\ FieldOffset("total_num_cells", p) = Absent /\ FieldOffset("payload", p) = Absent
BY DEF FieldOffset, IsRequest, IsAnswer, REQUEST, RESPONSE, CONFIRMATION, CMD_ADD, CMD_DELETE, CMD_RELOCATE,
       CMD_COUNT, CMD_LIST, CMD_SIGNAL, CMD_CLEAR, RC_SUCCESS, RC_EOL, RC_ERRORS

(* The fields of an answer or a confirmation of success.                   *)
LEMMA SuccessFields ==
  ASSUME NEW p, p.type \in {RESPONSE, CONFIRMATION}, p.code = RC_SUCCESS
  PROVE  /\ FieldOffset("metadata", p) = Absent /\ FieldOffset("cell_options", p) = Absent
         /\ FieldOffset("num_cells", p) = Absent /\ FieldOffset("reserved", p) = Absent
         /\ FieldOffset("offset", p) = Absent /\ FieldOffset("max_num_cells", p) = Absent
         /\ FieldOffset("cell_list", p) = 0 /\ FieldOffset("rel_cell_list", p) = Absent
         /\ FieldOffset("total_num_cells", p) = IF p.type = RESPONSE THEN 0 ELSE Absent
         /\ FieldOffset("payload", p) = 0
BY DEF FieldOffset, IsRequest, IsAnswer, REQUEST, RESPONSE, CONFIRMATION, CMD_ADD, CMD_DELETE, CMD_RELOCATE,
       CMD_COUNT, CMD_LIST, CMD_SIGNAL, CMD_CLEAR, RC_SUCCESS, RC_EOL, RC_ERRORS

(* The fields of one that ends a list.                                     *)
LEMMA EolFields ==
  ASSUME NEW p, p.type \in {RESPONSE, CONFIRMATION}, p.code = RC_EOL
  PROVE  /\ FieldOffset("metadata", p) = Absent /\ FieldOffset("cell_options", p) = Absent
         /\ FieldOffset("num_cells", p) = Absent /\ FieldOffset("reserved", p) = Absent
         /\ FieldOffset("offset", p) = Absent /\ FieldOffset("max_num_cells", p) = Absent
         /\ FieldOffset("cell_list", p) = 0 /\ FieldOffset("rel_cell_list", p) = Absent
         /\ FieldOffset("total_num_cells", p) = Absent /\ FieldOffset("payload", p) = Absent
BY DEF FieldOffset, IsRequest, IsAnswer, REQUEST, RESPONSE, CONFIRMATION, CMD_ADD, CMD_DELETE, CMD_RELOCATE,
       CMD_COUNT, CMD_LIST, CMD_SIGNAL, CMD_CLEAR, RC_SUCCESS, RC_EOL, RC_ERRORS

(* The fields of one that reports an error: none.                          *)
LEMMA ErrorFields ==
  ASSUME NEW p, p.type \in {RESPONSE, CONFIRMATION}, p.code \in RC_ERRORS
  PROVE  /\ FieldOffset("metadata", p) = Absent /\ FieldOffset("cell_options", p) = Absent
         /\ FieldOffset("num_cells", p) = Absent /\ FieldOffset("reserved", p) = Absent
         /\ FieldOffset("offset", p) = Absent /\ FieldOffset("max_num_cells", p) = Absent
         /\ FieldOffset("cell_list", p) = Absent /\ FieldOffset("rel_cell_list", p) = Absent
         /\ FieldOffset("total_num_cells", p) = Absent /\ FieldOffset("payload", p) = Absent
BY DEF FieldOffset, IsRequest, IsAnswer, REQUEST, RESPONSE, CONFIRMATION, CMD_ADD, CMD_DELETE, CMD_RELOCATE,
       CMD_COUNT, CMD_LIST, CMD_SIGNAL, CMD_CLEAR, RC_SUCCESS, RC_EOL, RC_ERRORS

(* The kinds of packets there are.                                         *)
LEMMA PacketKinds ==
  ASSUME NEW p, Packet(p)
  PROVE  \/ p.type = REQUEST /\ p.code \in {CMD_ADD, CMD_DELETE}
         \/ p.type = REQUEST /\ p.code = CMD_RELOCATE
         \/ p.type = REQUEST /\ p.code = CMD_COUNT
         \/ p.type = REQUEST /\ p.code = CMD_LIST
         \/ p.type = REQUEST /\ p.code = CMD_SIGNAL
         \/ p.type = REQUEST /\ p.code = CMD_CLEAR
         \/ p.type \in {RESPONSE, CONFIRMATION} /\ p.code = RC_SUCCESS
         \/ p.type \in {RESPONSE, CONFIRMATION} /\ p.code = RC_EOL
         \/ p.type \in {RESPONSE, CONFIRMATION} /\ p.code \in RC_ERRORS
<1>1. \/ p.type = REQUEST /\ p.code \in CMD_ADD .. CMD_CLEAR
      \/ p.type \in {RESPONSE, CONFIRMATION} /\ p.code \in {RC_SUCCESS, RC_EOL} \cup RC_ERRORS
  BY DEF Packet
<1>2. CMD_ADD .. CMD_CLEAR = {CMD_ADD, CMD_DELETE, CMD_RELOCATE, CMD_COUNT, CMD_LIST, CMD_SIGNAL, CMD_CLEAR}
  BY DEF CMD_ADD, CMD_DELETE, CMD_RELOCATE, CMD_COUNT, CMD_LIST, CMD_SIGNAL, CMD_CLEAR
<1> QED BY <1>1, <1>2, Zenon

(* Two fields of a packet do not overlap, but for those an answer has one  *)
(* of.                                                                     *)
Disjoint(f, g, p) == Limit(f, p) <= Place(g, p) \/ Limit(g, p) <= Place(f, p)

(* Two fields of a packet do not overlap, unless a response has one of     *)
(* them.                                                                   *)
LEMMA Apart ==
  ASSUME NEW p, Packet(p), p.body[4] \in Nat, NEW f \in Fields, NEW g \in Fields, f # g,
         Present(f, p), Present(g, p),
         p.type = REQUEST \/ f \notin Alternatives \/ g \notin Alternatives
  PROVE  Disjoint(f, g, p)
<1>1. CASE p.type = REQUEST /\ p.code \in {CMD_ADD, CMD_DELETE}
  <2>1. f \in {"metadata", "cell_options", "num_cells", "cell_list"} /\ g \in {"metadata", "cell_options", "num_cells", "cell_list"}
    BY <1>1, AddFields DEF Fields, Present, Has
  <2> QED BY <1>1, <2>1, AddFields DEF Disjoint, Limit, Place
<1>2. CASE p.type = REQUEST /\ p.code = CMD_RELOCATE
  <2>1. f \in {"metadata", "cell_options", "num_cells", "rel_cell_list", "cand_cell_list"} /\ g \in {"metadata", "cell_options", "num_cells", "rel_cell_list", "cand_cell_list"}
    BY <1>2, RelocateFields DEF Fields, Present, Has
  <2> QED BY <1>2, <2>1, RelocateFields DEF Disjoint, Limit, Place
<1>3. CASE p.type = REQUEST /\ p.code = CMD_COUNT
  <2>1. f \in {"metadata", "cell_options"} /\ g \in {"metadata", "cell_options"}
    BY <1>3, CountFields DEF Fields, Present, Has
  <2> QED BY <1>3, <2>1, CountFields DEF Disjoint, Limit, Place
<1>4. CASE p.type = REQUEST /\ p.code = CMD_LIST
  <2>1. f \in {"metadata", "cell_options", "reserved", "offset", "max_num_cells"} /\ g \in {"metadata", "cell_options", "reserved", "offset", "max_num_cells"}
    BY <1>4, ListFields DEF Fields, Present, Has
  <2> QED BY <1>4, <2>1, ListFields DEF Disjoint, Limit, Place
<1>5. CASE p.type = REQUEST /\ p.code = CMD_SIGNAL
  <2>1. f \in {"metadata", "payload"} /\ g \in {"metadata", "payload"}
    BY <1>5, SignalFields DEF Fields, Present, Has
  <2> QED BY <1>5, <2>1, SignalFields DEF Disjoint, Limit, Place
<1>6. CASE p.type = REQUEST /\ p.code = CMD_CLEAR
  <2>1. f \in {"metadata"} /\ g \in {"metadata"}
    BY <1>6, ClearFields DEF Fields, Present, Has
  <2> QED BY <2>1
<1>7. CASE p.type \in {RESPONSE, CONFIRMATION} /\ p.code = RC_SUCCESS
  <2>1. f \in Alternatives /\ g \in Alternatives
    BY <1>7, SuccessFields DEF Fields, Present, Has, Alternatives
  <2> QED BY <1>7, <2>1 DEF REQUEST, RESPONSE, CONFIRMATION
<1>8. CASE p.type \in {RESPONSE, CONFIRMATION} /\ p.code = RC_EOL
  <2>1. f \in {"cell_list"} /\ g \in {"cell_list"}
    BY <1>8, EolFields DEF Fields, Present, Has
  <2> QED BY <2>1
<1>9. CASE p.type \in {RESPONSE, CONFIRMATION} /\ p.code \in RC_ERRORS
  <2>1. ~Present(f, p)
    BY <1>9, ErrorFields DEF Fields, Present, Has
  <2> QED BY <2>1
<1> QED BY PacketKinds, <1>1, <1>2, <1>3, <1>4, <1>5, <1>6, <1>7, <1>8, <1>9

-----------------------------------------------------------------------------
(* What the setters write.                                                 *)

FieldValues(f) ==
  IF f \in WordFields THEN Word
  ELSE IF f = "num_cells" THEN {v \in Octet : 4 + 4 * v <= Storage}
  ELSE IF f \in OctetFields THEN Octet ELSE Seq(Octet)

(* The values fields are set to are of the field's kind.                   *)
LEMMA ValuesType == \A f \in Fields : Values[f] \subseteq FieldValues(f)
BY PacketsAssumption DEF Fields, FieldValues, WordFields, OctetFields, CellLen

(* The octets of a value: two, one, or those of the list.                  *)
LEMMA EncodedType ==
  ASSUME NEW f \in Fields, NEW v \in FieldValues(f)
  PROVE  /\ Encoded(f, v) \in Seq(Octet)
         /\ f \in WordFields => Encoded(f, v) = WRITE16(v) /\ Len(Encoded(f, v)) = 2
         /\ f \in OctetFields => Encoded(f, v) = <<v>> /\ Len(Encoded(f, v)) = 1
         /\ f \notin WordFields \cup OctetFields => Encoded(f, v) = v
<1>1. CASE f \in WordFields
  <2>1. v \in Word /\ f \notin OctetFields
    BY <1>1 DEF FieldValues, WordFields, OctetFields
  <2>2. WRITE16(v) \in Seq(Octet) /\ Len(WRITE16(v)) = 2
    BY <2>1, WordWritten
  <2> QED BY <1>1, <2>1, <2>2 DEF Encoded
<1>2. CASE f \in OctetFields
  <2>1. v \in Octet /\ f \notin WordFields
    BY <1>2 DEF FieldValues, WordFields, OctetFields
  <2>2. <<v>> \in Seq(Octet) /\ Len(<<v>>) = 1
    BY <2>1
  <2>3. Encoded(f, v) = <<v>>
    BY <1>2, <2>1 DEF Encoded
  <2> QED BY <1>2, <2>1, <2>2, <2>3, Zenon
<1>3. CASE f \notin WordFields /\ f \notin OctetFields
  BY <1>3 DEF FieldValues, Encoded, OctetFields
<1> QED BY <1>1, <1>2, <1>3

(* The octet that counts the cells is an octet.                            *)
LEMMA BodyOctet ==
  ASSUME NEW p, Packet(p), Len(p.body) >= 4
  PROVE  p.body[4] \in Octet
<1>1. 4 \in 1 .. Len(p.body)
  BY LenProperties DEF Packet
<1> QED BY <1>1, ElementOfSeq DEF Packet

(* NumCells, which both lists of a RELOCATE request go by                  *)
LEMMA RelLenIs ==
  ASSUME NEW p, p.type = REQUEST, p.code = CMD_RELOCATE, p.len >= 4
  PROVE  get_num_cells(p) = Ok(p.body[4]) /\ RelLen(p) = 4 * p.body[4] /\ HasLists(p)
<1>1. FieldOffset("num_cells", p) = 3 /\ FieldOffset("rel_cell_list", p) = 4
  BY RelocateFields
<1>2. Fits("num_cells", p, 1) /\ Has("rel_cell_list", p)
  BY <1>1 DEF Fits, Has, Absent
<1>3. get_num_cells(p) = Ok(p.body[4])
  <2>1. 3 + 1 = 4
    OBVIOUS
  <2> QED BY <1>1, <1>2, <2>1, Zenon DEF get_num_cells
<1>4. The(Ok(p.body[4])) = p.body[4]
  BY DEF The, Ok
<1>5. Ok(p.body[4]) # Fail
  BY DEF Ok, Fail
<1> QED BY <1>2, <1>3, <1>4, <1>5 DEF RelLen, HasLists, CellLen

(* Only a relocate request has a list of cells to give up.                 *)
LEMMA RelPresent ==
  ASSUME NEW p, Packet(p), Has("rel_cell_list", p)
  PROVE  p.type = REQUEST /\ p.code = CMD_RELOCATE
BY DEF Has, FieldOffset, IsRequest

(* A field begins within the first octets of a body.                       *)
LEMMA OffsetBound ==
  ASSUME NEW p, Packet(p), NEW g \in Fields, g # "cand_cell_list", Has(g, p)
  PROVE  FieldOffset(g, p) \in 0 .. 6
<1>1. CASE p.type = REQUEST /\ p.code \in {CMD_ADD, CMD_DELETE}
  BY <1>1, AddFields DEF Has, Fields
<1>2. CASE p.type = REQUEST /\ p.code = CMD_RELOCATE
  BY <1>2, RelocateFields DEF Has, Fields
<1>3. CASE p.type = REQUEST /\ p.code = CMD_COUNT
  BY <1>3, CountFields DEF Has, Fields
<1>4. CASE p.type = REQUEST /\ p.code = CMD_LIST
  BY <1>4, ListFields DEF Has, Fields
<1>5. CASE p.type = REQUEST /\ p.code = CMD_SIGNAL
  BY <1>5, SignalFields DEF Has, Fields
<1>6. CASE p.type = REQUEST /\ p.code = CMD_CLEAR
  BY <1>6, ClearFields DEF Has, Fields
<1>7. CASE p.type \in {RESPONSE, CONFIRMATION} /\ p.code = RC_SUCCESS
  BY <1>7, SuccessFields DEF Has, Fields
<1>8. CASE p.type \in {RESPONSE, CONFIRMATION} /\ p.code = RC_EOL
  BY <1>8, EolFields DEF Has, Fields
<1>9. CASE p.type \in {RESPONSE, CONFIRMATION} /\ p.code \in RC_ERRORS
  BY <1>9, ErrorFields DEF Has, Fields
<1> QED BY PacketKinds, <1>1, <1>2, <1>3, <1>4, <1>5, <1>6, <1>7, <1>8, <1>9

Written(q, p, f, v, skip) ==
  /\ Present(f, p)
  /\ q = [p EXCEPT !.body = Copied(p.body, Place(f, p) + skip, Encoded(f, v))]
  /\ Place(f, p) + skip + Len(Encoded(f, v)) <= Storage
  /\ f \in Lists => Whole(Len(v))

(* A setter writes the value at the field's place, and nothing elsewhere.  *)
LEMMA SetWrites ==
  ASSUME NEW p, Packet(p), p.len = Storage, Len(p.body) = Storage, NEW f \in Fields, NEW v \in FieldValues(f),
         NEW skip \in Nat, f \notin Lists => skip = 0, NEW q \in Set(f, p, v, skip)
  PROVE  Written(q, p, f, v, skip)
<1>1. Storage \in 8..127
  BY PacketsAssumption
<1>2. ASSUME NEW g \in Fields, g # "cand_cell_list" PROVE Place(g, p) = FieldOffset(g, p) /\ (Present(g, p) <=> Has(g, p))
  BY <1>2 DEF Place, Present
<1>3. \A g \in Fields : g # "cand_cell_list" /\ Has(g, p) => FieldOffset(g, p) \in 0 .. 6
  BY OffsetBound
<1>20. CASE f \in WordFields
  <2>1. Has(f, p) /\ FieldOffset(f, p) + 2 <= Storage /\ q \in Write(f, p, WRITE16(v))
    <3>1. CASE f = "metadata"
      BY <1>1, <3>1 DEF Set, set_metadata, Fits, Fail
    <3>2. CASE f = "offset"
      BY <1>1, <3>2 DEF Set, set_offset, Fits, Fail
    <3>3. CASE f = "max_num_cells"
      BY <1>1, <3>3 DEF Set, set_max_num_cells, Fits, Fail
    <3>4. CASE f = "total_num_cells"
      <4>1. Has(f, p) /\ q \in Write(f, p, WRITE16(v))
        BY <3>4 DEF Set, set_total_num_cells, Fail
      <4>2. FieldOffset(f, p) = 0
        BY <3>4, <4>1 DEF Has, FieldOffset
      <4> QED BY <1>1, <4>1, <4>2
    <3> QED BY <1>20, <3>1, <3>2, <3>3, <3>4 DEF WordFields
  <2>2. f # "cand_cell_list" /\ f \notin Lists
    BY <1>20 DEF WordFields, Lists
  <2>3. PICK n \in 0 .. 6 : n = FieldOffset(f, p) /\ n = Place(f, p) /\ n + skip = n
    BY <1>2, <1>3, <2>1, <2>2
  <2>4. PICK c : c = Encoded(f, v) /\ c = WRITE16(v) /\ Len(c) = 2
    BY <1>20, EncodedType, Zenon
  <2>5. q = [p EXCEPT !.body = Copied(p.body, n, c)]
    BY <2>1, <2>3, <2>4 DEF Write, Ok
  <2> QED BY <1>2, <2>1, <2>2, <2>3, <2>4, <2>5 DEF Written
<1>30. CASE f \in OctetFields
  <2>1. Has(f, p) /\ FieldOffset(f, p) + 1 <= Storage /\ q \in Write(f, p, <<v>>)
    <3>1. CASE f = "cell_options"
      BY <1>1, <3>1 DEF Set, set_cell_options, Fits, Fail
    <3>2. CASE f = "reserved"
      BY <1>1, <3>2 DEF Set, set_reserved, Fits, Fail
    <3>3. CASE f = "num_cells"
      <4>1. Has(f, p) /\ q \in Write(f, p, <<v>>)
        BY <3>3 DEF Set, set_num_cells, Fail
      <4>2. FieldOffset(f, p) = 3
        BY <3>3, <4>1 DEF Has, FieldOffset
      <4> QED BY <1>1, <4>1, <4>2
    <3> QED BY <1>30, <3>1, <3>2, <3>3 DEF OctetFields
  <2>2. f # "cand_cell_list" /\ f \notin Lists
    BY <1>30 DEF OctetFields, Lists
  <2>3. PICK n \in 0 .. 6 : n = FieldOffset(f, p) /\ n = Place(f, p) /\ n + skip = n
    BY <1>2, <1>3, <2>1, <2>2
  <2>4. PICK c : c = Encoded(f, v) /\ c = <<v>> /\ Len(c) = 1
    BY <1>30, EncodedType, Zenon
  <2>5. q = [p EXCEPT !.body = Copied(p.body, n, c)]
    BY <2>1, <2>3, <2>4 DEF Write, Ok
  <2> QED BY <1>2, <2>1, <2>2, <2>3, <2>4, <2>5 DEF Written
<1>40. CASE f = "payload"
  <2>1. Fits(f, p, Len(v)) /\ q \in Write(f, p, v)
    BY <1>40 DEF Set, set_payload, Fail
  <2>2. Encoded(f, v) = v /\ v \in Seq(Octet) /\ f \notin Lists
    BY <1>40 DEF Encoded, FieldValues, WordFields, OctetFields, Lists
  <2> QED BY <1>2, <1>3, <1>40, <2>1, <2>2 DEF Written, Write, Ok, Fits
<1>50. CASE f = "cell_list"
  <2>1. Fits(f, p, skip + Len(v)) /\ Whole(Len(v)) /\ q \in Piece(p, f, skip, v)
    BY <1>50 DEF Set, set_cell_list, Fail
  <2>2. Encoded(f, v) = v /\ v \in Seq(Octet)
    BY <1>50 DEF Encoded, FieldValues, WordFields, OctetFields
  <2> QED BY <1>2, <1>3, <1>50, <2>1, <2>2 DEF Written, Piece, Ok, Fits
<1>60. CASE f = "rel_cell_list"
  <2>1. Fits(f, p, skip + Len(v)) /\ Whole(Len(v)) /\ q \in Piece(p, f, skip, v)
    BY <1>60 DEF Set, set_rel_cell_list, Fail
  <2>2. Encoded(f, v) = v /\ v \in Seq(Octet)
    BY <1>60 DEF Encoded, FieldValues, WordFields, OctetFields
  <2> QED BY <1>2, <1>3, <1>60, <2>1, <2>2 DEF Written, Piece, Ok, Fits
<1>70. CASE f = "cand_cell_list"
  <2>1. /\ HasLists(p) /\ Fits("rel_cell_list", p, RelLen(p) + skip + Len(v)) /\ Whole(Len(v))
        /\ q \in Piece(p, "rel_cell_list", RelLen(p) + skip, v)
    BY <1>70 DEF Set, set_cand_cell_list, Fail
  <2>2. Encoded(f, v) = v /\ v \in Seq(Octet)
    BY <1>70 DEF Encoded, FieldValues, WordFields, OctetFields
  <2>3. p.type = REQUEST /\ p.code = CMD_RELOCATE
    BY <2>1, RelPresent DEF HasLists
  <2>11. p.len >= 4 /\ Len(p.body) >= 4
    BY <1>1
  <2>4. RelLen(p) = 4 * p.body[4] /\ FieldOffset("rel_cell_list", p) = 4
    BY <2>3, <2>11, RelLenIs, RelocateFields
  <2>12. p.body[4] \in Octet
    BY <2>11, BodyOctet
  <2>5. p.body[4] \in Nat
    <3>1. PICK b \in Octet : b = p.body[4]
      BY <2>12, Zenon
    <3>2. b \in Nat
      BY DEF Octet
    <3> QED BY <3>1, <3>2, Zenon
  <2>6. PICK n \in Nat : n = 4 * p.body[4]
    BY <2>5
  <2>7. Place(f, p) + skip = 4 + (n + skip)
    BY <1>70, <2>6 DEF Place
  <2>8. q = [p EXCEPT !.body = Copied(p.body, 4 + (n + skip), v)]
    BY <2>1, <2>4, <2>6 DEF Piece, Ok
  <2>9. p.len >= 4 + (n + skip + Len(v)) /\ Len(v) \in Nat /\ Present(f, p)
    BY <1>70, <2>1, <2>2, <2>4, <2>6, LenProperties DEF Fits, Present
  <2>10. 4 + (n + skip) + Len(v) <= Storage
    BY <1>1, <2>9
  <2> QED BY <2>1, <2>2, <2>7, <2>8, <2>9, <2>10 DEF Written
<1> QED BY <1>20, <1>30, <1>40, <1>50, <1>60, <1>70 DEF Fields, WordFields, OctetFields

-----------------------------------------------------------------------------
(* Filling a packet.                                                       *)

Kept(f, p, set) ==
  \E v \in FieldValues(f) :
    /\ set = {v} /\ Present(f, p) /\ Holds(p.body, Place(f, p), Encoded(f, v))
    /\ f \in Lists => Whole(Len(v))
    /\ f = "rel_cell_list" => Len(v) <= 4 * p.body[4]

PktType ==
  /\ pkt \in [type : Int, code : Int, body : Seq(Octet), len : Nat]
  /\ Packet(pkt) /\ pkt.len = Storage /\ Len(pkt.body) = Storage
Relocates == pkt.type = REQUEST /\ pkt.code = CMD_RELOCATE

FillInv ==
  /\ PktType
  /\ given = [f \in Fields |-> given[f]]
  /\ \A f \in Fields : given[f] # {} => Kept(f, pkt, given[f])
  /\ Relocates => 4 + 4 * pkt.body[4] <= Storage
  /\ pkt.type # REQUEST =>
       \A f \in Alternatives : \A g \in Alternatives : given[f] # {} /\ given[g] # {} => f = g

(* Where the fields of fixed length lie.                                   *)
LEMMA Fixed ==
  ASSUME NEW p
  PROVE  /\ Present("metadata", p) => Place("metadata", p) = 0
         /\ Present("cell_options", p) => Place("cell_options", p) = 2
         /\ Present("num_cells", p) => Place("num_cells", p) = 3
         /\ Present("reserved", p) => Place("reserved", p) = 3
         /\ Present("offset", p) => Place("offset", p) = 4
         /\ Present("max_num_cells", p) => Place("max_num_cells", p) = 6
         /\ Present("total_num_cells", p) => Place("total_num_cells", p) = 0
         /\ Present("rel_cell_list", p) => Place("rel_cell_list", p) = 4
         /\ Place("cand_cell_list", p) = 4 + 4 * p.body[4]
BY DEF Present, Place, Has, FieldOffset

(* A field ends where the next one may begin.                              *)
LEMMA Within ==
  ASSUME NEW p, Packet(p), NEW f \in Fields, NEW v \in FieldValues(f), NEW skip \in Nat,
         f \notin Lists => skip = 0, Present(f, p), p.body[4] \in Nat,
         f = "rel_cell_list" => skip + Len(v) <= 4 * p.body[4],
         Place(f, p) + skip + Len(Encoded(f, v)) <= Storage
  PROVE  Place(f, p) + skip + Len(Encoded(f, v)) <= Limit(f, p)
<1>1. CASE f \in WordFields
  <2>1. Len(Encoded(f, v)) = 2 /\ skip = 0
    BY <1>1, EncodedType DEF WordFields, Lists
  <2>2. Storage \in 8..127
    BY PacketsAssumption
  <2>3. CASE f = "metadata"
    BY <2>1, <2>3, Fixed DEF Limit
  <2>4. CASE f = "offset"
    BY <2>1, <2>4, Fixed DEF Limit
  <2>5. CASE f = "max_num_cells"
    BY <2>1, <2>5, Fixed DEF Limit
  <2>6. CASE f = "total_num_cells"
    BY <2>1, <2>2, <2>6, Fixed DEF Limit
  <2> QED BY <1>1, <2>3, <2>4, <2>5, <2>6 DEF WordFields
<1>2. CASE f \in OctetFields
  <2>1. Len(Encoded(f, v)) = 1 /\ skip = 0
    BY <1>2, EncodedType DEF OctetFields, Lists
  <2> QED BY <1>2, <2>1, Fixed DEF OctetFields, Limit
<1>3. CASE f = "rel_cell_list"
  <2>1. Encoded(f, v) = v /\ Len(v) \in Nat
    BY <1>3, LenProperties DEF Encoded, WordFields, OctetFields, FieldValues
  <2> QED BY <1>3, <2>1, Fixed DEF Limit
<1>4. CASE f \in {"cell_list", "cand_cell_list", "payload"}
  <2>1. Limit(f, p) = Storage + 1
    BY <1>4 DEF Limit
  <2>2. Storage \in Nat
    BY PacketsAssumption
  <2>3. Place(f, p) + skip + Len(Encoded(f, v)) \in Int
    <3>1. Place(f, p) \in Nat
      BY <1>4, OffsetBound DEF Place, Present, Fields
    <3>2. Len(Encoded(f, v)) \in Nat
      BY EncodedType, LenProperties
    <3> QED BY <3>1, <3>2
  <2> QED BY <2>1, <2>2, <2>3
<1> QED BY <1>1, <1>2, <1>3, <1>4 DEF Fields, WordFields, OctetFields

(* A field's place is an offset.                                           *)
LEMMA PlaceType ==
  ASSUME NEW p, Packet(p), NEW f \in Fields, Present(f, p), p.body[4] \in Nat
  PROVE  Place(f, p) \in Nat
<1>1. CASE f = "cand_cell_list"
  BY <1>1 DEF Place
<1>2. CASE f # "cand_cell_list"
  BY <1>2, OffsetBound DEF Place, Present
<1> QED BY <1>1, <1>2

(* NumCells changes with its setter alone.                                 *)
LEMMA NumCellsKept ==
  ASSUME NEW p, Packet(p), p.len = Storage, Len(p.body) = Storage,
         p.type = REQUEST, p.code = CMD_RELOCATE, NEW f \in Fields, NEW v \in FieldValues(f),
         NEW skip \in Nat, NEW at \in Nat, at = Place(f, p) + skip, NEW q,
         Written(q, p, f, v, skip), f \notin Lists => skip = 0,
         NEW c \in Seq(Octet), c = Encoded(f, v), NEW b \in Seq(Octet), b = p.body
  PROVE  Copied(b, at, c)[4] = IF f = "num_cells" THEN v ELSE b[4]
<1>1. Present(f, p) /\ at + Len(c) <= Len(b)
  BY DEF Written
<1>2. f \in {"metadata", "cell_options", "num_cells", "rel_cell_list", "cand_cell_list"}
  BY <1>1, RelocateFields DEF Fields, Present, Has
<1>3. 4 \in 1 .. Len(b)
  BY PacketsAssumption
<1>4. Copied(b, at, c)[4] = IF 4 \in at + 1 .. at + Len(c) THEN c[4 - at] ELSE b[4]
  BY <1>1, <1>3, CopiedType
<1>5. CASE f = "num_cells"
  <2>1. at = 3 /\ c = <<v>> /\ Len(c) = 1
    BY <1>1, <1>5, Fixed, EncodedType DEF OctetFields, Lists
  <2>2. 4 \in at + 1 .. at + Len(c) /\ 4 - at = 1
    BY <2>1
  <2> QED BY <1>4, <1>5, <2>1, <2>2
<1>6. CASE f \in {"metadata", "cell_options"}
  <2>1. at + Len(c) <= 3
    <3>1. skip = 0
      BY <1>6 DEF Lists
    <3>2. CASE f = "metadata"
      <4>1. Place(f, p) = 0 /\ Len(c) = 2
        BY <1>1, <3>2, Fixed, EncodedType DEF WordFields
      <4> QED BY <3>1, <4>1
    <3>3. CASE f = "cell_options"
      <4>1. Place(f, p) = 2 /\ Len(c) = 1
        BY <1>1, <3>3, Fixed, EncodedType DEF OctetFields
      <4> QED BY <3>1, <4>1
    <3> QED BY <1>6, <3>2, <3>3
  <2> QED BY <1>4, <1>6, <2>1, LenProperties
<1>7. CASE f \in {"rel_cell_list", "cand_cell_list"}
  <2>1. p.body[4] \in Nat
    <3>1. Len(p.body) >= 4
      BY PacketsAssumption
    <3>2. PICK o \in Octet : o = p.body[4]
      BY <3>1, BodyOctet
    <3>3. o \in Nat
      BY DEF Octet
    <3> QED BY <3>2, <3>3
  <2>2. Place(f, p) >= 4
    BY <1>1, <1>7, <2>1, Fixed, SMTT(30)
  <2>3. at >= 4
    BY <1>1, <2>1, <2>2, PlaceType
  <2> QED BY <1>4, <1>7, <2>3
<1> QED BY <1>2, <1>5, <1>6, <1>7

(* Two lists of whole cells are one of whole cells.                        *)
LEMMA WholeSum ==
  ASSUME NEW a \in Nat, NEW b \in Nat, Whole(a), Whole(b)
  PROVE  Whole(a + b)
BY DEF Whole, CellLen

(* An octet is a number.                                                   *)
LEMMA OctetNat == Octet \subseteq Nat
BY DEF Octet

(* The length of what was given of a list.                                 *)
LEMMA ListGiven ==
  ASSUME NEW f, NEW v, given[f] = {v}
  PROVE  The(given[f]) = v /\ ListLen(f) = Len(v)
BY DEF The, ListLen

(* What a fill does to the packet.                                         *)
LEMMA Filled ==
  ASSUME FillInv, NEW f \in Fields, NEW v \in Values[f], Fill(f, v)
  PROVE  \E skip \in Nat, at \in Nat, c \in Seq(Octet), b \in Seq(Octet) :
           /\ skip = ListLen(f) /\ (f \notin Lists => skip = 0) /\ at = Place(f, pkt) + skip
           /\ c = Encoded(f, v) /\ b = Copied(pkt.body, at, c) /\ v \in FieldValues(f)
           /\ Written(pkt', pkt, f, v, skip) /\ at + Len(c) <= Len(pkt.body) /\ Len(b) = Storage
           /\ pkt' = [type |-> pkt.type, code |-> pkt.code, body |-> b, len |-> Storage]
           /\ Relocates => b[4] = IF f = "num_cells" THEN v ELSE pkt.body[4]
<1>1. PktType /\ Packet(pkt) /\ pkt.len = Storage /\ Len(pkt.body) = Storage /\ pkt.body \in Seq(Octet)
  BY DEF FillInv, PktType, Packet
<1>2. v \in FieldValues(f)
  BY ValuesType
<1>3. PICK skip \in Nat : skip = ListLen(f) /\ (f \notin Lists => skip = 0)
  <2>1. CASE given[f] = {}
    BY <2>1 DEF ListLen
  <2>2. CASE given[f] # {}
    <3>1. f \in Lists
      BY <2>2 DEF Fill
    <3>2. PICK u \in FieldValues(f) : given[f] = {u}
      BY <2>2 DEF FillInv, Kept
    <3>3. u \in Seq(Octet)
      BY <3>1 DEF FieldValues, Lists, WordFields, OctetFields
    <3>4. ListLen(f) = Len(u) /\ Len(u) \in Nat
      BY <3>2, <3>3, ListGiven, LenProperties
    <3> QED BY <3>1, <3>4
  <2> QED BY <2>1, <2>2
<1>4. pkt' \in Set(f, pkt, v, skip)
  BY <1>3 DEF Fill
<1>5. Written(pkt', pkt, f, v, skip)
  BY <1>1, <1>2, <1>3, <1>4, SetWrites
<1>6. PICK c \in Seq(Octet) : c = Encoded(f, v)
  BY <1>2, EncodedType
<1>7. pkt.body[4] \in Nat
  <2>1. Len(pkt.body) >= 4
    BY <1>1, PacketsAssumption
  <2>2. PICK o \in Octet : o = pkt.body[4]
    BY <1>1, <2>1, BodyOctet
  <2>3. o \in Nat
    BY OctetNat
  <2> QED BY <2>2, <2>3
<1>8. PICK at \in Nat : at = Place(f, pkt) + skip
  <2>1. Place(f, pkt) \in Nat
    BY <1>1, <1>5, <1>7, PlaceType DEF Written
  <2> QED BY <2>1
<1>9. at + Len(c) <= Len(pkt.body)
  BY <1>1, <1>5, <1>6, <1>8 DEF Written
<1>10. PICK b \in Seq(Octet) : b = Copied(pkt.body, at, c) /\ Len(b) = Storage
  BY <1>1, <1>9, CopiedType
<1>11. pkt' = [type |-> pkt.type, code |-> pkt.code, body |-> b, len |-> Storage]
  <2>1. pkt' = [pkt EXCEPT !.body = b]
    BY <1>5, <1>6, <1>8, <1>10, Zenon DEF Written
  <2>2. pkt \in [type : Int, code : Int, body : Seq(Octet), len : Nat]
    BY <1>1 DEF PktType
  <2> QED BY <1>1, <2>1, <2>2
<1>12. Relocates => b[4] = IF f = "num_cells" THEN v ELSE pkt.body[4]
  <2> SUFFICES ASSUME Relocates PROVE b[4] = IF f = "num_cells" THEN v ELSE pkt.body[4]
    OBVIOUS
  <2>1. Copied(pkt.body, at, c)[4] = IF f = "num_cells" THEN v ELSE pkt.body[4]
    BY <1>1, <1>2, <1>3, <1>5, <1>6, <1>8, NumCellsKept DEF Relocates
  <2> QED BY <1>10, <2>1
<1> QED BY <1>1, <1>2, <1>3, <1>5, <1>6, <1>8, <1>9, <1>10, <1>11, <1>12

(* The other fields stay.                                                  *)
LEMMA OthersKept ==
  ASSUME FillInv, NEW f \in Fields, NEW v \in Values[f], Fill(f, v), NEW g \in Fields, g # f, given[g] # {}
  PROVE  Kept(g, pkt', given[g])
<1>1. PICK skip \in Nat, at \in Nat, c \in Seq(Octet), b \in Seq(Octet) :
        /\ skip = ListLen(f) /\ (f \notin Lists => skip = 0) /\ at = Place(f, pkt) + skip
        /\ c = Encoded(f, v) /\ b = Copied(pkt.body, at, c) /\ v \in FieldValues(f)
        /\ Written(pkt', pkt, f, v, skip) /\ at + Len(c) <= Len(pkt.body) /\ Len(b) = Storage
        /\ pkt' = [type |-> pkt.type, code |-> pkt.code, body |-> b, len |-> Storage]
        /\ Relocates => b[4] = IF f = "num_cells" THEN v ELSE pkt.body[4]
  BY Filled
<1>2. PktType /\ Packet(pkt) /\ pkt.len = Storage /\ Len(pkt.body) = Storage /\ pkt.body \in Seq(Octet)
  BY DEF FillInv, PktType, Packet
<1>3. PICK w \in FieldValues(g) :
        /\ given[g] = {w} /\ Present(g, pkt) /\ Holds(pkt.body, Place(g, pkt), Encoded(g, w))
        /\ g \in Lists => Whole(Len(w))
        /\ g = "rel_cell_list" => Len(w) <= 4 * pkt.body[4]
  BY DEF FillInv, Kept
<1>4. PICK n \in Nat : n = pkt.body[4]
  <2>1. Len(pkt.body) >= 4
    BY <1>2, PacketsAssumption
  <2>2. PICK o \in Octet : o = pkt.body[4]
    BY <1>2, <2>1, BodyOctet
  <2>3. o \in Nat
    BY OctetNat
  <2> QED BY <2>2, <2>3
<1>5. pkt'.type = pkt.type /\ pkt'.code = pkt.code /\ pkt'.body = b
  BY <1>1
<1>6. ASSUME NEW h PROVE FieldOffset(h, pkt') = FieldOffset(h, pkt)
  BY <1>5 DEF FieldOffset, IsRequest, IsAnswer
<1>7. Present(g, pkt')
  BY <1>3, <1>6 DEF Present, Has
<1>8. CASE f = "num_cells" /\ g \in {"rel_cell_list", "cand_cell_list"}
  <2>1. Relocates
    BY <1>2, <1>3, <1>8, RelPresent DEF Present, Relocates
  <2>2. w \in Seq(Octet) /\ Encoded(g, w) = w
    BY <1>8 DEF FieldValues, Encoded, WordFields, OctetFields
  <2>3. Len(w) = 0
    <3>1. ListLen("rel_cell_list") + ListLen("cand_cell_list") = 0
      BY <1>8 DEF Fill
    <3>2. ASSUME NEW h \in {"rel_cell_list", "cand_cell_list"} PROVE ListLen(h) \in Nat
      <4>1. CASE given[h] = {}
        BY <4>1 DEF ListLen
      <4>2. CASE given[h] # {}
        <5>1. PICK u \in FieldValues(h) : given[h] = {u}
          BY <4>2 DEF FillInv, Kept, Fields
        <5>2. u \in Seq(Octet)
          BY DEF FieldValues, WordFields, OctetFields
        <5> QED BY <5>1, <5>2, ListGiven, LenProperties
      <4> QED BY <4>1, <4>2
    <3>3. ListLen(g) = Len(w)
      BY <1>3, ListGiven
    <3>4. ListLen("rel_cell_list") = 0 /\ ListLen("cand_cell_list") = 0
      BY <3>1, <3>2
    <3> QED BY <1>8, <3>3, <3>4
  <2>4. v \in Nat /\ 4 + 4 * v <= Storage
    <3>1. FieldValues(f) = {u \in Octet : 4 + 4 * u <= Storage}
      BY <1>8 DEF FieldValues, WordFields
    <3>2. v \in Octet /\ 4 + 4 * v <= Storage
      BY <1>1, <3>1, Zenon
    <3> QED BY <3>2, OctetNat
  <2>5. Place(g, pkt') \in Nat /\ Place(g, pkt') <= Storage /\ b[4] = v
    <3>1. b[4] = v
      BY <1>1, <1>8, <2>1
    <3>2. g = "rel_cell_list" => Place(g, pkt') = 4
      BY <1>7, Fixed
    <3>3. g = "cand_cell_list" => Place(g, pkt') = 4 + 4 * v
      BY <1>5, <3>1 DEF Place
    <3>4. Storage \in 8..127
      BY PacketsAssumption
    <3>5. CASE g = "rel_cell_list"
      BY <3>1, <3>2, <3>4, <3>5
    <3>6. CASE g = "cand_cell_list"
      <4>1. PICK k \in Nat : k = v
        BY <2>4
      <4>2. Place(g, pkt') = 4 + 4 * k /\ 4 + 4 * k <= Storage
        BY <2>4, <3>3, <3>6, <4>1
      <4>3. 4 + 4 * k \in Nat
        BY <4>1
      <4> QED BY <3>1, <4>2, <4>3
    <3> QED BY <1>8, <3>5, <3>6
  <2>6. Holds(b, Place(g, pkt'), w)
    BY <1>1, <2>3, <2>5 DEF Holds
  <2>7. Len(w) <= 4 * b[4]
    BY <2>3, <2>4, <2>5
  <2> QED BY <1>3, <1>5, <1>7, <2>2, <2>6, <2>7 DEF Kept
<1>9. CASE ~ (f = "num_cells" /\ g \in {"rel_cell_list", "cand_cell_list"})
  <2>1. g \in {"rel_cell_list", "cand_cell_list"} => b[4] = n
    BY <1>1, <1>2, <1>3, <1>4, <1>9, RelPresent DEF Present, Relocates
  <2>2. Place(g, pkt') = Place(g, pkt)
    BY <1>4, <1>5, <1>6, <2>1 DEF Place
  <2>3. PICK e \in Seq(Octet) : e = Encoded(g, w)
    BY EncodedType
  <2>4. PICK low \in Nat : low = Place(g, pkt)
    BY <1>2, <1>3, <1>4, PlaceType
  <2>5. low + Len(e) <= Storage
    BY <1>2, <1>3, <2>3, <2>4 DEF Holds
  <2>6. low + Len(e) <= Limit(g, pkt)
    <3>1. low + 0 = low
      BY <2>4
    <3>2. g = "rel_cell_list" => 0 + Len(w) <= 4 * pkt.body[4]
      <4>1. CASE g = "rel_cell_list"
        <5>1. w \in Seq(Octet)
          BY <4>1 DEF FieldValues, WordFields, OctetFields
        <5> QED BY <1>3, <4>1, <5>1, LenProperties
      <4> QED BY <4>1
    <3>3. Place(g, pkt) + 0 + Len(Encoded(g, w)) <= Storage
      BY <2>3, <2>4, <2>5, <3>1
    <3>4. Place(g, pkt) + 0 + Len(Encoded(g, w)) <= Limit(g, pkt)
      BY <1>2, <1>3, <1>4, <3>2, <3>3, Within
    <3> QED BY <2>3, <2>4, <3>1, <3>4
  <2>7. Present(f, pkt)
    BY <1>1 DEF Written
  <2>8. PICK floor \in Nat : floor = Place(f, pkt) /\ at = floor + skip
    BY <1>1, <1>2, <1>4, <2>7, PlaceType
  <2>9. at + Len(c) <= Limit(f, pkt)
    <3>1. f = "rel_cell_list" => skip + Len(v) <= 4 * pkt.body[4]
      <4>1. CASE f = "rel_cell_list"
        <5>1. pkt.type = REQUEST /\ pkt.code = CMD_RELOCATE
          BY <1>2, <2>7, <4>1, RelPresent DEF Present
        <5>2. pkt.len >= 4
          BY <1>2, PacketsAssumption
        <5>3. HasLists(pkt) /\ RelLen(pkt) = 4 * pkt.body[4]
          BY <5>1, <5>2, RelLenIs
        <5> QED BY <1>1, <4>1, <5>3 DEF Fill
      <4> QED BY <4>1
    <3>2. Place(f, pkt) + skip + Len(Encoded(f, v)) <= Storage
      BY <1>1 DEF Written
    <3>3. Place(f, pkt) + skip + Len(Encoded(f, v)) <= Limit(f, pkt)
      BY <1>1, <1>2, <1>4, <2>7, <3>1, <3>2, Within
    <3> QED BY <1>1, <3>3
  <2>10. Disjoint(f, g, pkt)
    <3>1. pkt.type = REQUEST \/ f \notin Alternatives \/ g \notin Alternatives
      BY DEF Fill
    <3> QED BY <1>2, <1>3, <1>4, <2>7, <3>1, Apart
  <2>11. low + Len(e) <= at \/ at + Len(c) <= low
    <3>1. Len(e) \in Nat /\ Len(c) \in Nat
      BY LenProperties
    <3>2. Limit(f, pkt) <= low \/ Limit(g, pkt) <= floor
      BY <2>4, <2>8, <2>10 DEF Disjoint
    <3>3. Limit(f, pkt) \in Int /\ Limit(g, pkt) \in Int
      <4>1. Storage \in Int
        BY PacketsAssumption
      <4> QED BY <1>4, <4>1, SMTT(30) DEF Limit
    <3>4. PICK x \in Int, y \in Int : x = Limit(f, pkt) /\ y = Limit(g, pkt)
      BY <3>3
    <3>5. PICK m \in Nat, k \in Nat : m = Len(e) /\ k = Len(c)
      BY <3>1
    <3>6. low + m <= y /\ at + k <= x /\ (x <= low \/ y <= floor)
      BY <2>6, <2>9, <3>2, <3>4, <3>5, Zenon
    <3>7. low + m <= at \/ at + k <= low
      BY <2>8, <3>6, SMTT(30)
    <3> QED BY <3>5, <3>7, Zenon
  <2>12. Holds(pkt.body, low, e)
    BY <1>3, <2>3, <2>4
  <2>13. Holds(b, low, e)
    BY <1>1, <1>2, <2>11, <2>12, CopyKeeps
  <2>14. Holds(pkt'.body, Place(g, pkt'), Encoded(g, w))
    BY <1>5, <2>2, <2>3, <2>4, <2>13, Zenon
  <2>15. g = "rel_cell_list" => Len(w) <= 4 * pkt'.body[4]
    BY <1>3, <1>4, <1>5, <2>1
  <2> QED BY <1>3, <1>7, <2>14, <2>15 DEF Kept
<1> QED BY <1>8, <1>9

(* The field set is what it was, and what was set now.                     *)
LEMMA OwnKept ==
  ASSUME FillInv, NEW f \in Fields, NEW v \in Values[f], Fill(f, v)
  PROVE  Kept(f, pkt', given'[f])
<1>1. PICK skip \in Nat, at \in Nat, c \in Seq(Octet), b \in Seq(Octet) :
        /\ skip = ListLen(f) /\ (f \notin Lists => skip = 0) /\ at = Place(f, pkt) + skip
        /\ c = Encoded(f, v) /\ b = Copied(pkt.body, at, c) /\ v \in FieldValues(f)
        /\ Written(pkt', pkt, f, v, skip) /\ at + Len(c) <= Len(pkt.body) /\ Len(b) = Storage
        /\ pkt' = [type |-> pkt.type, code |-> pkt.code, body |-> b, len |-> Storage]
        /\ Relocates => b[4] = IF f = "num_cells" THEN v ELSE pkt.body[4]
  BY Filled
<1>2. PktType /\ Packet(pkt) /\ pkt.len = Storage /\ Len(pkt.body) = Storage /\ pkt.body \in Seq(Octet)
  BY DEF FillInv, PktType, Packet
<1>3. PICK n \in Nat : n = pkt.body[4]
  <2>1. Len(pkt.body) >= 4
    BY <1>2, PacketsAssumption
  <2>2. PICK o \in Octet : o = pkt.body[4]
    BY <1>2, <2>1, BodyOctet
  <2>3. o \in Nat
    BY OctetNat
  <2> QED BY <2>2, <2>3
<1>4. pkt'.type = pkt.type /\ pkt'.code = pkt.code /\ pkt'.body = b
  BY <1>1
<1>5. ASSUME NEW h PROVE FieldOffset(h, pkt') = FieldOffset(h, pkt)
  BY <1>4 DEF FieldOffset, IsRequest, IsAnswer
<1>6. Present(f, pkt) /\ Present(f, pkt') /\ (f \in Lists => Whole(Len(v)))
  BY <1>1, <1>5 DEF Written, Present, Has
<1>7. f \in {"rel_cell_list", "cand_cell_list"} => b[4] = n /\ pkt.type = REQUEST /\ pkt.code = CMD_RELOCATE
  BY <1>1, <1>2, <1>3, <1>6, RelPresent DEF Present, Relocates
<1>8. Place(f, pkt') = Place(f, pkt)
  BY <1>3, <1>4, <1>5, <1>7 DEF Place
<1>9. PICK low \in Nat : low = Place(f, pkt)
  BY <1>2, <1>3, <1>6, PlaceType
<1>10. at = low + skip
  BY <1>1, <1>9
<1>11. Holds(b, at, c)
  BY <1>1, <1>2, CopyHolds
<1>12. f = "rel_cell_list" => skip + Len(v) <= 4 * n
  <2>1. CASE f = "rel_cell_list"
    <3>1. pkt.len >= 4
      BY <1>2, PacketsAssumption
    <3>2. HasLists(pkt) /\ RelLen(pkt) = 4 * pkt.body[4]
      BY <1>7, <2>1, <3>1, RelLenIs
    <3> QED BY <1>1, <1>3, <2>1, <3>2 DEF Fill
  <2> QED BY <2>1
<1>13. CASE given[f] = {}
  <2>1. skip = 0
    BY <1>1, <1>13 DEF ListLen
  <2>2. given'[f] = {v}
    BY <1>13 DEF Fill, FillInv, Ok
  <2>3. Holds(b, low, c)
    BY <1>10, <1>11, <2>1
  <2>4. f = "rel_cell_list" => Len(v) <= 4 * n
    <3>1. CASE f = "rel_cell_list"
      <4>1. v \in Seq(Octet)
        BY <1>1, <3>1 DEF FieldValues, WordFields, OctetFields
      <4>2. Len(v) \in Nat
        BY <4>1, LenProperties
      <4> QED BY <1>12, <2>1, <3>1, <4>2
    <3> QED BY <3>1
  <2>5. Holds(pkt'.body, Place(f, pkt'), Encoded(f, v))
    BY <1>1, <1>4, <1>8, <1>9, <2>3, Zenon
  <2>6. f = "rel_cell_list" => Len(v) <= 4 * pkt'.body[4]
    BY <1>4, <1>7, <2>4
  <2> QED BY <1>1, <1>6, <2>2, <2>5, <2>6 DEF Kept
<1>14. CASE given[f] # {}
  <2>1. f \in Lists
    BY <1>14 DEF Fill
  <2>2. PICK u \in FieldValues(f) :
          /\ given[f] = {u} /\ Holds(pkt.body, Place(f, pkt), Encoded(f, u)) /\ Whole(Len(u))
    BY <1>14, <2>1 DEF FillInv, Kept
  <2>3. FieldValues(f) = Seq(Octet) /\ f \notin WordFields \cup OctetFields
    BY <2>1 DEF FieldValues, Lists, WordFields, OctetFields
  <2>4. u \in Seq(Octet) /\ v \in Seq(Octet)
    BY <1>1, <2>2, <2>3
  <2>5. PICK uv \in Seq(Octet) : uv = u \o v /\ Len(uv) = Len(u) + Len(v)
    BY <2>4, Together
  <2>6. given'[f] = {uv}
    <3>1. The(given[f]) = u
      BY <2>2, ListGiven
    <3> QED BY <1>14, <2>5, <3>1 DEF Fill, FillInv, Ok
  <2>7. Encoded(f, u) = u /\ c = v /\ Encoded(f, uv) = uv
    BY <1>1, <2>3 DEF Encoded
  <2>8. skip = Len(u)
    BY <1>1, <2>2, ListGiven
  <2>9. Holds(b, low, u)
    <3>1. Holds(pkt.body, low, u)
      BY <1>9, <2>2, <2>7
    <3>2. low + Len(u) <= at
      BY <1>10, <2>8
    <3> QED BY <1>1, <1>2, <2>4, <3>1, <3>2, CopyKeeps
  <2>10. Holds(b, low + Len(u), v)
    BY <1>10, <1>11, <2>7, <2>8
  <2>11. Holds(b, low, uv)
    BY <2>4, <2>5, <2>9, <2>10, HoldsJoined
  <2>12. Whole(Len(uv))
    <3>1. Len(u) \in Nat /\ Len(v) \in Nat
      BY <2>4, LenProperties
    <3> QED BY <1>6, <2>1, <2>2, <2>5, <3>1, WholeSum
  <2>13. f = "rel_cell_list" => Len(uv) <= 4 * n
    BY <1>12, <2>5, <2>8
  <2>14. Holds(pkt'.body, Place(f, pkt'), Encoded(f, uv))
    BY <1>4, <1>8, <1>9, <2>7, <2>11, Zenon
  <2>15. f = "rel_cell_list" => Len(uv) <= 4 * pkt'.body[4]
    BY <1>4, <1>7, <2>13
  <2> QED BY <1>6, <2>3, <2>6, <2>12, <2>14, <2>15 DEF Kept
<1> QED BY <1>13, <1>14

(* The storage has room for the fixed fields.                              *)
LEMMA StorageType == Storage \in 8..127 /\ Storage \in Nat
<1>1. PICK s \in 8..127 : s = Storage
  BY PacketsAssumption
<1>2. s \in Nat
  OBVIOUS
<1> QED BY <1>1, <1>2

(* Filling a field keeps what the other fields were given in its place.    *)
LEMMA FillKeeps ==
  ASSUME FillInv, NEW f \in Fields, NEW v \in Values[f], Fill(f, v)
  PROVE  FillInv'
<1>1. PICK skip \in Nat, at \in Nat, c \in Seq(Octet), b \in Seq(Octet) :
        /\ skip = ListLen(f) /\ (f \notin Lists => skip = 0) /\ at = Place(f, pkt) + skip
        /\ c = Encoded(f, v) /\ b = Copied(pkt.body, at, c) /\ v \in FieldValues(f)
        /\ Written(pkt', pkt, f, v, skip) /\ at + Len(c) <= Len(pkt.body) /\ Len(b) = Storage
        /\ pkt' = [type |-> pkt.type, code |-> pkt.code, body |-> b, len |-> Storage]
        /\ Relocates => b[4] = IF f = "num_cells" THEN v ELSE pkt.body[4]
  BY Filled
<1>2. pkt \in [type : Int, code : Int, body : Seq(Octet), len : Nat] /\ Packet(pkt)
  BY DEF FillInv, PktType
<1>3. pkt'.type = pkt.type /\ pkt'.code = pkt.code /\ pkt'.body = b /\ pkt'.len = Storage
  BY <1>1
<1>4. PktType'
  <2>1. Storage \in Nat
    BY StorageType
  <2> QED BY <1>1, <1>2, <1>3, <2>1 DEF PktType, Packet
<1>5. PICK x : x = IF given[f] = {} THEN Ok(v) ELSE Ok(The(given[f]) \o v)
  OBVIOUS
<1>6. given' = [given EXCEPT ![f] = x]
  BY <1>5 DEF Fill
<1>7. given = [g \in Fields |-> given[g]]
  BY DEF FillInv
<1>8. \A g \in Fields : given'[g] = IF g = f THEN x ELSE given[g]
  BY <1>6, <1>7
<1>9. given' = [g \in Fields |-> given'[g]]
  BY <1>6, <1>7
<1>10. ASSUME NEW g \in Fields, given'[g] # {} PROVE Kept(g, pkt', given'[g])
  <2>1. CASE g = f
    BY <2>1, OwnKept
  <2>2. CASE g # f
    BY <1>8, <1>10, <2>2, OthersKept
  <2> QED BY <2>1, <2>2
<1>11. Relocates' => 4 + 4 * pkt'.body[4] <= Storage
  <2> SUFFICES ASSUME Relocates' PROVE 4 + 4 * pkt'.body[4] <= Storage
    OBVIOUS
  <2>1. Relocates
    BY <1>3 DEF Relocates
  <2>2. CASE f = "num_cells"
    <3>1. FieldValues(f) = {u \in Octet : 4 + 4 * u <= Storage}
      BY <2>2 DEF FieldValues, WordFields
    <3>2. 4 + 4 * v <= Storage
      BY <1>1, <3>1, Zenon
    <3>3. pkt'.body[4] = v
      BY <1>1, <1>3, <2>1, <2>2
    <3> QED BY <3>2, <3>3
  <2>3. CASE f # "num_cells"
    <3>1. pkt'.body[4] = pkt.body[4]
      BY <1>1, <1>3, <2>1, <2>3
    <3>2. 4 + 4 * pkt.body[4] <= Storage
      BY <2>1 DEF FillInv
    <3> QED BY <3>1, <3>2
  <2> QED BY <2>2, <2>3
<1>12. ASSUME pkt'.type # REQUEST, NEW g \in Alternatives, NEW h \in Alternatives,
              given'[g] # {}, given'[h] # {}
       PROVE  g = h
  <2>1. pkt.type # REQUEST /\ g \in Fields /\ h \in Fields
    BY <1>3, <1>12 DEF Alternatives, Fields
  <2>2. CASE f \in Alternatives
    <3>1. \A k \in Alternatives \ {f} : given[k] = {}
      BY <2>1, <2>2 DEF Fill
    <3> QED BY <1>8, <1>12, <2>1, <3>1
  <2>3. CASE f \notin Alternatives
    <3>1. given[g] # {} /\ given[h] # {}
      BY <1>8, <1>12, <2>1, <2>3
    <3> QED BY <2>1, <3>1 DEF FillInv
  <2> QED BY <2>2, <2>3
<1> QED BY <1>4, <1>9, <1>10, <1>11, <1>12 DEF FillInv

(* An empty packet was given nothing.                                      *)
LEMMA FillStart == Init => FillInv
<1> SUFFICES ASSUME Init PROVE FillInv
  OBVIOUS
<1>1. PICK k \in Kinds : pkt = Empty(k)
  BY DEF Init
<1>2. PICK b : b = [i \in 1..Storage |-> 0]
  OBVIOUS
<1>3. Storage \in 8..127
  BY PacketsAssumption
<1>4. b \in Seq(Octet) /\ Len(b) = Storage /\ b[4] = 0
  <2>1. b \in [1..Storage -> Octet] /\ b[4] = 0
    BY <1>2, <1>3 DEF Octet
  <2> QED BY <1>3, <2>1, LenProperties
<1>5. pkt = [type |-> k[1], code |-> k[2], body |-> b, len |-> Storage]
  BY <1>1, <1>2 DEF Empty
<1>6. /\ k \in ({REQUEST} \X (CMD_ADD .. CMD_CLEAR))
               \cup ({RESPONSE, CONFIRMATION} \X ({RC_SUCCESS, RC_EOL} \cup RC_ERRORS))
      /\ k = <<k[1], k[2]>> /\ k[1] \in Int /\ k[2] \in Int
  <2>1. k \in ({REQUEST} \X (CMD_ADD .. CMD_CLEAR))
              \cup ({RESPONSE, CONFIRMATION} \X ({RC_SUCCESS, RC_EOL} \cup RC_ERRORS))
    BY PacketsAssumption
  <2> QED BY <2>1 DEF REQUEST, RESPONSE, CONFIRMATION, CMD_ADD, CMD_CLEAR, RC_SUCCESS, RC_EOL, RC_ERRORS
<1>7. PktType
  <2>1. pkt.type = k[1] /\ pkt.code = k[2] /\ pkt.body = b /\ pkt.len = Storage
    BY <1>5
  <2>2. Packet(pkt)
    BY <1>3, <1>4, <1>6, <2>1 DEF Packet
  <2> QED BY <1>3, <1>4, <1>5, <1>6, <2>1, <2>2 DEF PktType
<1>8. given = None /\ \A f \in Fields : given[f] = {}
  BY DEF Init, None
<1>9. given = [f \in Fields |-> given[f]]
  BY <1>8 DEF None
<1>10. 4 + 4 * pkt.body[4] <= Storage
  BY <1>3, <1>4, <1>5
<1>11. \A f \in Alternatives : f \in Fields
  BY DEF Alternatives, Fields
<1> QED BY <1>7, <1>8, <1>9, <1>10, <1>11 DEF FillInv

-----------------------------------------------------------------------------
(* The length of the body.                                                 *)

Strings == {"cell_list", "rel_cell_list", "cand_cell_list", "payload"}

(* The body has room for the field, and a field without an end of its own  *)
(* ends with the body.                                                     *)
Reaches(f, set, len) ==
  \A v \in set : /\ Place(f, pkt) + Len(Encoded(f, v)) <= len
                 /\ f \in {"cell_list", "cand_cell_list", "payload"} =>
                      Place(f, pkt) + Len(Encoded(f, v)) = len

(* What was given of a list or a payload lies within the storage.          *)
LEMMA StringGiven ==
  ASSUME FillInv, NEW f \in Strings
  PROVE  /\ ListLen(f) \in Nat
         /\ f \in Lists => Whole(ListLen(f))
         /\ ~Present(f, pkt) => given[f] = {}
         /\ given[f] = {} => ListLen(f) = 0
         /\ given[f] # {} => /\ Place(f, pkt) + ListLen(f) <= Storage
                             /\ \A v \in given[f] : Len(Encoded(f, v)) = ListLen(f)
<1>1. f \in Fields /\ f \notin WordFields \cup OctetFields
  BY DEF Strings, Fields, WordFields, OctetFields
<1>2. CASE given[f] = {}
  <2>1. ListLen(f) = 0
    BY <1>2 DEF ListLen
  <2> QED BY <1>2, <2>1 DEF Whole, CellLen
<1>3. CASE given[f] # {}
  <2>1. PICK v \in FieldValues(f) :
          /\ given[f] = {v} /\ Present(f, pkt) /\ Holds(pkt.body, Place(f, pkt), Encoded(f, v))
          /\ f \in Lists => Whole(Len(v))
    BY <1>1, <1>3 DEF FillInv, Kept
  <2>2. v \in Seq(Octet) /\ Encoded(f, v) = v
    BY <1>1, <2>1 DEF FieldValues, Encoded, OctetFields
  <2>3. ListLen(f) = Len(v) /\ Len(v) \in Nat
    BY <2>1, <2>2, ListGiven, LenProperties
  <2>4. Place(f, pkt) + Len(v) <= Storage
    <3>1. Len(pkt.body) = Storage
      BY DEF FillInv, PktType
    <3> QED BY <2>1, <2>2, <3>1 DEF Holds
  <2> QED BY <2>1, <2>2, <2>3, <2>4
<1> QED BY <1>2, <1>3

(* The fields of fixed length that are given end where they should.        *)
LEMMA FixedGiven ==
  ASSUME FillInv, NEW f \in WordFields \cup OctetFields
  PROVE  given[f] # {} =>
           /\ Present(f, pkt)
           /\ \A v \in given[f] : Len(Encoded(f, v)) = IF f \in WordFields THEN 2 ELSE 1
<1>1. f \in Fields
  BY DEF Fields, WordFields, OctetFields
<1>2. CASE given[f] # {}
  <2>1. PICK v \in FieldValues(f) : given[f] = {v} /\ Present(f, pkt)
    BY <1>1, <1>2 DEF FillInv, Kept
  <2> QED BY <1>1, <2>1, EncodedType
<1> QED BY <1>2

(* The length of a request goes by its command.                            *)
LEMMA RequestBody ==
  ASSUME FillInv, pkt.type = REQUEST
  PROVE  /\ pkt.code \in {CMD_ADD, CMD_DELETE} => BodyLen = 4 + ListLen("cell_list")
         /\ pkt.code = CMD_RELOCATE => BodyLen = 4 + RelLen(pkt) + ListLen("cand_cell_list")
         /\ pkt.code = CMD_COUNT => BodyLen = 3
         /\ pkt.code = CMD_LIST => BodyLen = 8
         /\ pkt.code \in {CMD_SIGNAL, CMD_CLEAR} => BodyLen = 2 + ListLen("payload")
<1>1. given["total_num_cells"] = {}
  <2>1. ~Has("total_num_cells", pkt)
    BY DEF Has, FieldOffset, REQUEST, RESPONSE
  <2> QED BY <2>1 DEF FillInv, Kept, Present, Fields
<1>2. \A cmds : IsRequest(pkt, cmds) <=> pkt.code \in cmds
  BY DEF IsRequest
<1>3. /\ pkt.code \in {CMD_ADD, CMD_DELETE} => pkt.code \notin {CMD_RELOCATE} /\ pkt.code \notin {CMD_COUNT}
                                               /\ pkt.code \notin {CMD_LIST} /\ pkt.code \notin {CMD_SIGNAL, CMD_CLEAR}
      /\ pkt.code \in {CMD_RELOCATE} => pkt.code \notin {CMD_COUNT} /\ pkt.code \notin {CMD_LIST}
                                               /\ pkt.code \notin {CMD_SIGNAL, CMD_CLEAR}
      /\ pkt.code \in {CMD_COUNT} => pkt.code \notin {CMD_LIST} /\ pkt.code \notin {CMD_SIGNAL, CMD_CLEAR}
      /\ pkt.code \in {CMD_LIST} => pkt.code \notin {CMD_SIGNAL, CMD_CLEAR}
  BY DEF CMD_ADD, CMD_DELETE, CMD_RELOCATE, CMD_COUNT, CMD_LIST, CMD_SIGNAL, CMD_CLEAR
<1>4. CASE pkt.code \in {CMD_ADD, CMD_DELETE}
  <2>1. BodyLen = 4 + ListLen("cell_list")
    BY <1>1, <1>2, <1>3, <1>4 DEF BodyLen
  <2> QED BY <1>3, <1>4, <2>1
<1>5. CASE pkt.code \in {CMD_RELOCATE}
  <2>1. BodyLen = 4 + RelLen(pkt) + ListLen("cand_cell_list")
    BY <1>1, <1>2, <1>3, <1>5 DEF BodyLen
  <2> QED BY <1>3, <1>5, <2>1
<1>6. CASE pkt.code \in {CMD_COUNT}
  <2>1. BodyLen = 3
    BY <1>1, <1>2, <1>3, <1>6 DEF BodyLen
  <2> QED BY <1>3, <1>6, <2>1
<1>7. CASE pkt.code \in {CMD_LIST}
  <2>1. BodyLen = 8
    BY <1>1, <1>2, <1>3, <1>7 DEF BodyLen
  <2> QED BY <1>3, <1>7, <2>1
<1>8. CASE pkt.code \in {CMD_SIGNAL, CMD_CLEAR}
  <2>1. BodyLen = 2 + ListLen("payload")
    BY <1>1, <1>2, <1>3, <1>8 DEF BodyLen
  <2> QED BY <1>3, <1>8, <2>1
<1> QED BY <1>4, <1>5, <1>6, <1>7, <1>8

(* The field of fixed length ends within the octets it has.                *)
LEMMA FixedReaches ==
  ASSUME FillInv, NEW n \in Nat
  PROVE  /\ n >= 2 => Reaches("metadata", given["metadata"], n)
         /\ n >= 3 => Reaches("cell_options", given["cell_options"], n)
         /\ n >= 4 => Reaches("num_cells", given["num_cells"], n)
         /\ n >= 4 => Reaches("reserved", given["reserved"], n)
         /\ n >= 6 => Reaches("offset", given["offset"], n)
         /\ n >= 8 => Reaches("max_num_cells", given["max_num_cells"], n)
         /\ n >= 2 => Reaches("total_num_cells", given["total_num_cells"], n)
<1>1. ASSUME n >= 2 PROVE Reaches("metadata", given["metadata"], n)
  <2>1. "metadata" \in WordFields
    BY DEF WordFields, OctetFields
  <2>2. CASE given["metadata"] = {}
    BY <2>2 DEF Reaches
  <2>3. CASE given["metadata"] # {}
    <3>1. Place("metadata", pkt) = 0 /\ \A v \in given["metadata"] : Len(Encoded("metadata", v)) = 2
      BY <2>1, <2>3, FixedGiven, Fixed
    <3>2. \A v \in given["metadata"] : Place("metadata", pkt) + Len(Encoded("metadata", v)) <= n
      <4>1. 0 + 2 <= n
        BY <1>1
      <4> QED BY <3>1, <4>1, Zenon
    <3>3. "metadata" \notin {"cell_list", "cand_cell_list", "payload"}
      OBVIOUS
    <3> QED BY <3>2, <3>3, Zenon DEF Reaches
  <2> QED BY <2>2, <2>3
<1>2. ASSUME n >= 3 PROVE Reaches("cell_options", given["cell_options"], n)
  <2>1. "cell_options" \in OctetFields /\ "cell_options" \notin WordFields
    BY DEF WordFields, OctetFields
  <2>2. CASE given["cell_options"] = {}
    BY <2>2 DEF Reaches
  <2>3. CASE given["cell_options"] # {}
    <3>1. Place("cell_options", pkt) = 2 /\ \A v \in given["cell_options"] : Len(Encoded("cell_options", v)) = 1
      BY <2>1, <2>3, FixedGiven, Fixed
    <3>2. \A v \in given["cell_options"] : Place("cell_options", pkt) + Len(Encoded("cell_options", v)) <= n
      <4>1. 2 + 1 <= n
        BY <1>2
      <4> QED BY <3>1, <4>1, Zenon
    <3>3. "cell_options" \notin {"cell_list", "cand_cell_list", "payload"}
      OBVIOUS
    <3> QED BY <3>2, <3>3, Zenon DEF Reaches
  <2> QED BY <2>2, <2>3
<1>3. ASSUME n >= 4 PROVE Reaches("num_cells", given["num_cells"], n)
  <2>1. "num_cells" \in OctetFields /\ "num_cells" \notin WordFields
    BY DEF WordFields, OctetFields
  <2>2. CASE given["num_cells"] = {}
    BY <2>2 DEF Reaches
  <2>3. CASE given["num_cells"] # {}
    <3>1. Place("num_cells", pkt) = 3 /\ \A v \in given["num_cells"] : Len(Encoded("num_cells", v)) = 1
      BY <2>1, <2>3, FixedGiven, Fixed
    <3>2. \A v \in given["num_cells"] : Place("num_cells", pkt) + Len(Encoded("num_cells", v)) <= n
      <4>1. 3 + 1 <= n
        BY <1>3
      <4> QED BY <3>1, <4>1, Zenon
    <3>3. "num_cells" \notin {"cell_list", "cand_cell_list", "payload"}
      OBVIOUS
    <3> QED BY <3>2, <3>3, Zenon DEF Reaches
  <2> QED BY <2>2, <2>3
<1>4. ASSUME n >= 4 PROVE Reaches("reserved", given["reserved"], n)
  <2>1. "reserved" \in OctetFields /\ "reserved" \notin WordFields
    BY DEF WordFields, OctetFields
  <2>2. CASE given["reserved"] = {}
    BY <2>2 DEF Reaches
  <2>3. CASE given["reserved"] # {}
    <3>1. Place("reserved", pkt) = 3 /\ \A v \in given["reserved"] : Len(Encoded("reserved", v)) = 1
      BY <2>1, <2>3, FixedGiven, Fixed
    <3>2. \A v \in given["reserved"] : Place("reserved", pkt) + Len(Encoded("reserved", v)) <= n
      <4>1. 3 + 1 <= n
        BY <1>4
      <4> QED BY <3>1, <4>1, Zenon
    <3>3. "reserved" \notin {"cell_list", "cand_cell_list", "payload"}
      OBVIOUS
    <3> QED BY <3>2, <3>3, Zenon DEF Reaches
  <2> QED BY <2>2, <2>3
<1>5. ASSUME n >= 6 PROVE Reaches("offset", given["offset"], n)
  <2>1. "offset" \in WordFields
    BY DEF WordFields, OctetFields
  <2>2. CASE given["offset"] = {}
    BY <2>2 DEF Reaches
  <2>3. CASE given["offset"] # {}
    <3>1. Place("offset", pkt) = 4 /\ \A v \in given["offset"] : Len(Encoded("offset", v)) = 2
      BY <2>1, <2>3, FixedGiven, Fixed
    <3>2. \A v \in given["offset"] : Place("offset", pkt) + Len(Encoded("offset", v)) <= n
      <4>1. 4 + 2 <= n
        BY <1>5
      <4> QED BY <3>1, <4>1, Zenon
    <3>3. "offset" \notin {"cell_list", "cand_cell_list", "payload"}
      OBVIOUS
    <3> QED BY <3>2, <3>3, Zenon DEF Reaches
  <2> QED BY <2>2, <2>3
<1>6. ASSUME n >= 8 PROVE Reaches("max_num_cells", given["max_num_cells"], n)
  <2>1. "max_num_cells" \in WordFields
    BY DEF WordFields, OctetFields
  <2>2. CASE given["max_num_cells"] = {}
    BY <2>2 DEF Reaches
  <2>3. CASE given["max_num_cells"] # {}
    <3>1. Place("max_num_cells", pkt) = 6 /\ \A v \in given["max_num_cells"] : Len(Encoded("max_num_cells", v)) = 2
      BY <2>1, <2>3, FixedGiven, Fixed
    <3>2. \A v \in given["max_num_cells"] : Place("max_num_cells", pkt) + Len(Encoded("max_num_cells", v)) <= n
      <4>1. 6 + 2 <= n
        BY <1>6
      <4> QED BY <3>1, <4>1, Zenon
    <3>3. "max_num_cells" \notin {"cell_list", "cand_cell_list", "payload"}
      OBVIOUS
    <3> QED BY <3>2, <3>3, Zenon DEF Reaches
  <2> QED BY <2>2, <2>3
<1>7. ASSUME n >= 2 PROVE Reaches("total_num_cells", given["total_num_cells"], n)
  <2>1. "total_num_cells" \in WordFields
    BY DEF WordFields, OctetFields
  <2>2. CASE given["total_num_cells"] = {}
    BY <2>2 DEF Reaches
  <2>3. CASE given["total_num_cells"] # {}
    <3>1. Place("total_num_cells", pkt) = 0 /\ \A v \in given["total_num_cells"] : Len(Encoded("total_num_cells", v)) = 2
      BY <2>1, <2>3, FixedGiven, Fixed
    <3>2. \A v \in given["total_num_cells"] : Place("total_num_cells", pkt) + Len(Encoded("total_num_cells", v)) <= n
      <4>1. 0 + 2 <= n
        BY <1>7
      <4> QED BY <3>1, <4>1, Zenon
    <3>3. "total_num_cells" \notin {"cell_list", "cand_cell_list", "payload"}
      OBVIOUS
    <3> QED BY <3>2, <3>3, Zenon DEF Reaches
  <2> QED BY <2>2, <2>3
<1> QED BY <1>1, <1>2, <1>3, <1>4, <1>5, <1>6, <1>7

(* The length sfsb.c reckons for an add or a delete reaches what was       *)
(* given.                                                                  *)
LEMMA AddLength ==
  ASSUME FillInv, pkt.type = REQUEST, pkt.code \in {CMD_ADD, CMD_DELETE}
  PROVE  /\ BodyLen \in 0 .. Storage /\ BodyLenOk(pkt.type, pkt.code, BodyLen)
         /\ \A f \in Fields : Reaches(f, given[f], BodyLen)
<1>1. BodyLen = 4 + ListLen("cell_list")
  BY RequestBody
<1>2. PICK n \in Nat : n = ListLen("cell_list")
  BY StringGiven DEF Strings
<1>3. Place("cell_list", pkt) = 4
  BY AddFields DEF Place
<1>4. 4 + n <= Storage
  BY <1>2, <1>3, StringGiven, StorageType DEF Strings
<1>5. Whole(4 + n)
  <2>1. Whole(n) /\ Whole(4)
    BY <1>2, StringGiven DEF Strings, Lists, Whole, CellLen
  <2> QED BY <2>1, WholeSum
<1>6. ASSUME NEW f \in Fields PROVE Reaches(f, given[f], 4 + n)
  <2>1. CASE f = "cell_list"
    BY <1>2, <1>3, <2>1, StringGiven DEF Reaches, Strings
  <2>2. CASE f \in {"metadata", "cell_options", "num_cells"}
    BY <1>2, <2>2, FixedReaches
  <2>3. CASE ~Present(f, pkt)
    BY <2>3 DEF FillInv, Kept, Reaches
  <2>4. Present(f, pkt) => f \in {"metadata", "cell_options", "num_cells", "cell_list"}
    BY AddFields DEF Fields, Present, Has
  <2> QED BY <2>1, <2>2, <2>3, <2>4
<1> QED BY <1>1, <1>2, <1>4, <1>5, <1>6 DEF BodyLenOk, CMD_ADD, CMD_DELETE

(* So does that of a relocate request, with its two lists.                 *)
LEMMA RelocateLength ==
  ASSUME FillInv, pkt.type = REQUEST, pkt.code = CMD_RELOCATE
  PROVE  /\ BodyLen \in 0 .. Storage /\ BodyLenOk(pkt.type, pkt.code, BodyLen)
         /\ \A f \in Fields : Reaches(f, given[f], BodyLen)
<1>1. BodyLen = 4 + RelLen(pkt) + ListLen("cand_cell_list")
  BY RequestBody
<1>2. PICK k \in Nat : k = ListLen("cand_cell_list")
  BY StringGiven DEF Strings
<1>3. PICK n \in Nat : n = pkt.body[4]
  <2>1. Len(pkt.body) >= 4 /\ Packet(pkt)
    <3>1. Len(pkt.body) = Storage /\ Packet(pkt)
      BY DEF FillInv, PktType
    <3> QED BY <3>1, PacketsAssumption
  <2> QED BY <2>1, BodyOctet, OctetNat
<1>4. RelLen(pkt) = 4 * n /\ 4 + 4 * n <= Storage
  <2>1. pkt.len >= 4
    <3>1. pkt.len = Storage
      BY DEF FillInv, PktType
    <3>2. Storage >= 4
      BY PacketsAssumption
    <3> QED BY <3>1, <3>2
  <2> QED BY <1>3, <2>1, RelLenIs DEF FillInv, Relocates
<1>5. Place("cand_cell_list", pkt) = 4 + 4 * n
  BY <1>3 DEF Place
<1>6. 4 + 4 * n + k <= Storage
  BY <1>2, <1>4, <1>5, StringGiven, StorageType DEF Strings
<1>7. Whole(4 + 4 * n + k)
  <2>1. Whole(k)
    BY <1>2, StringGiven DEF Strings, Lists
  <2>2. Whole(4 + 4 * n)
    BY DEF Whole, CellLen
  <2>3. 4 + 4 * n \in Nat
    OBVIOUS
  <2> QED BY <2>1, <2>2, <2>3, WholeSum
<1>8. ASSUME NEW f \in Fields PROVE Reaches(f, given[f], 4 + 4 * n + k)
  <2>1. CASE f = "cand_cell_list"
    BY <1>2, <1>5, <2>1, StringGiven DEF Reaches, Strings
  <2>2. CASE f = "metadata"
    BY <2>2, FixedReaches
  <2>3. CASE f \in {"cell_options", "num_cells"}
    BY <2>3, FixedReaches
  <2>4. CASE f = "rel_cell_list"
    <3>1. CASE given[f] = {}
      BY <3>1 DEF Reaches
    <3>2. CASE given[f] # {}
      <4>1. PICK v \in FieldValues(f) : given[f] = {v} /\ Len(v) <= 4 * pkt.body[4] /\ Present(f, pkt)
        BY <2>4, <3>2 DEF FillInv, Kept
      <4>2. v \in Seq(Octet) /\ Encoded(f, v) = v /\ Len(v) \in Nat
        BY <2>4, LenProperties DEF FieldValues, Encoded, OctetFields, WordFields
      <4>3. Place(f, pkt) = 4
        BY <2>4, <4>1, Fixed
      <4> QED BY <1>3, <2>4, <4>1, <4>2, <4>3 DEF Reaches
    <3> QED BY <3>1, <3>2
  <2>5. CASE ~Present(f, pkt)
    BY <2>5 DEF FillInv, Kept, Reaches
  <2>6. Present(f, pkt) =>
          f \in {"metadata", "cell_options", "num_cells", "rel_cell_list", "cand_cell_list"}
    BY RelocateFields DEF Fields, Present, Has
  <2> QED BY <2>1, <2>2, <2>3, <2>4, <2>5, <2>6
<1>9. BodyLen = 4 + 4 * n + k /\ 4 + 4 * n + k \in 0 .. Storage
  BY <1>1, <1>2, <1>4, <1>6, StorageType
<1> QED BY <1>7, <1>8, <1>9 DEF BodyLenOk

(* So does that of the other requests.                                     *)
LEMMA RequestLength ==
  ASSUME FillInv, pkt.type = REQUEST, pkt.code \in {CMD_COUNT, CMD_LIST, CMD_SIGNAL, CMD_CLEAR}
  PROVE  /\ BodyLen \in 0 .. Storage /\ BodyLenOk(pkt.type, pkt.code, BodyLen)
         /\ \A f \in Fields : Reaches(f, given[f], BodyLen)
<1>1. PICK n \in Nat : n = ListLen("payload")
  BY StringGiven DEF Strings
<1>2. CASE pkt.code = CMD_COUNT
  <2>1. BodyLen = 3
    BY <1>2, RequestBody
  <2>2. ASSUME NEW f \in Fields PROVE Reaches(f, given[f], 3)
    <3>1. CASE f \in {"metadata", "cell_options"}
      BY <3>1, FixedReaches
    <3>2. CASE ~Present(f, pkt)
      BY <3>2 DEF FillInv, Kept, Reaches
    <3>3. Present(f, pkt) => f \in {"metadata", "cell_options"}
      BY <1>2, CountFields DEF Fields, Present, Has
    <3> QED BY <3>1, <3>2, <3>3
  <2>3. BodyLenOk(REQUEST, CMD_COUNT, 3)
    BY DEF BodyLenOk
  <2> QED BY <1>2, <2>1, <2>2, <2>3, StorageType
<1>3. CASE pkt.code = CMD_LIST
  <2>1. BodyLen = 8
    BY <1>3, RequestBody
  <2>2. ASSUME NEW f \in Fields PROVE Reaches(f, given[f], 8)
    <3>1. CASE f \in {"metadata", "cell_options", "reserved", "offset", "max_num_cells"}
      BY <3>1, FixedReaches
    <3>2. CASE ~Present(f, pkt)
      BY <3>2 DEF FillInv, Kept, Reaches
    <3>3. Present(f, pkt) => f \in {"metadata", "cell_options", "reserved", "offset", "max_num_cells"}
      BY <1>3, ListFields DEF Fields, Present, Has
    <3> QED BY <3>1, <3>2, <3>3
  <2>3. BodyLenOk(REQUEST, CMD_LIST, 8)
    BY DEF BodyLenOk
  <2> QED BY <1>3, <2>1, <2>2, <2>3, StorageType
<1>4. CASE pkt.code = CMD_SIGNAL
  <2>1. BodyLen = 2 + n
    BY <1>1, <1>4, RequestBody
  <2>2. Place("payload", pkt) = 2
    BY <1>4, SignalFields DEF Place
  <2>3. 2 + n <= Storage
    BY <1>1, <2>2, StringGiven, StorageType DEF Strings
  <2>4. ASSUME NEW f \in Fields PROVE Reaches(f, given[f], 2 + n)
    <3>1. CASE f = "metadata"
      BY <3>1, FixedReaches
    <3>2. CASE f = "payload"
      BY <1>1, <2>2, <3>2, StringGiven DEF Reaches, Strings
    <3>3. CASE ~Present(f, pkt)
      BY <3>3 DEF FillInv, Kept, Reaches
    <3>4. Present(f, pkt) => f \in {"metadata", "payload"}
      BY <1>4, SignalFields DEF Fields, Present, Has
    <3> QED BY <3>1, <3>2, <3>3, <3>4
  <2>5. BodyLenOk(REQUEST, CMD_SIGNAL, 2 + n)
    BY DEF BodyLenOk
  <2> QED BY <1>4, <2>1, <2>3, <2>4, <2>5, StorageType
<1>5. CASE pkt.code = CMD_CLEAR
  <2>1. ~Present("payload", pkt)
    BY <1>5, ClearFields DEF Present, Has
  <2>2. n = 0
    BY <1>1, <2>1, StringGiven DEF Strings
  <2>3. BodyLen = 2
    BY <1>1, <1>5, <2>2, RequestBody
  <2>4. ASSUME NEW f \in Fields PROVE Reaches(f, given[f], 2)
    <3>1. CASE f = "metadata"
      BY <3>1, FixedReaches
    <3>2. CASE ~Present(f, pkt)
      BY <3>2 DEF FillInv, Kept, Reaches
    <3>3. Present(f, pkt) => f = "metadata"
      BY <1>5, ClearFields DEF Fields, Present, Has
    <3> QED BY <3>1, <3>2, <3>3
  <2>5. BodyLenOk(REQUEST, CMD_CLEAR, 2)
    BY DEF BodyLenOk
  <2> QED BY <1>5, <2>3, <2>4, <2>5, StorageType
<1> QED BY <1>2, <1>3, <1>4, <1>5

(* So does that of an answer or a confirmation.                            *)
LEMMA AnswerLength ==
  ASSUME FillInv, Packet(pkt), pkt.type # REQUEST
  PROVE  /\ BodyLen \in 0 .. Storage /\ BodyLenOk(pkt.type, pkt.code, BodyLen)
         /\ \A f \in Fields : Reaches(f, given[f], BodyLen)
<1>1. PICK n \in Nat, k \in Nat : n = ListLen("cell_list") /\ k = ListLen("payload")
  BY StringGiven DEF Strings
<1>2. BodyLen = IF given["total_num_cells"] # {} THEN 2 ELSE n + k
  BY <1>1 DEF BodyLen, IsRequest
<1>3. pkt.type \in {RESPONSE, CONFIRMATION}
  BY PacketKinds
<1>4. CASE pkt.code = RC_SUCCESS
  <2>1. Place("cell_list", pkt) = 0 /\ Place("payload", pkt) = 0
    BY <1>3, <1>4, SuccessFields DEF Place
  <2>2. \A f \in Fields : Present(f, pkt) => f \in Alternatives
    BY <1>3, <1>4, SuccessFields DEF Fields, Present, Has, Alternatives
  <2>3. \A f \in Alternatives : \A g \in Alternatives : given[f] # {} /\ given[g] # {} => f = g
    BY DEF FillInv
  <2>4. BodyLenOk(pkt.type, pkt.code, BodyLen)
    BY <1>3, <1>4 DEF BodyLenOk
  <2>5. ASSUME NEW f \in Fields, ~Present(f, pkt) PROVE Reaches(f, given[f], BodyLen)
    BY <2>5 DEF FillInv, Kept, Reaches
  <2>6. CASE given["total_num_cells"] # {}
    <3>1. given["cell_list"] = {} /\ given["payload"] = {}
      BY <2>3, <2>6 DEF Alternatives
    <3>2. Reaches("cell_list", given["cell_list"], 2) /\ Reaches("payload", given["payload"], 2)
      BY <3>1 DEF Reaches
    <3>3. Reaches("total_num_cells", given["total_num_cells"], 2)
      BY FixedReaches
    <3>4. BodyLen = 2
      BY <1>2, <2>6
    <3> QED BY <2>2, <2>4, <2>5, <3>2, <3>3, <3>4, StorageType DEF Alternatives
  <2>7. CASE given["total_num_cells"] = {}
    <3>1. BodyLen = n + k
      BY <1>2, <2>7
    <3>2. given["cell_list"] = {} \/ given["payload"] = {}
      BY <2>3 DEF Alternatives
    <3>3. (given["cell_list"] = {} => n = 0) /\ (given["payload"] = {} => k = 0)
      BY <1>1, StringGiven DEF Strings
    <3>4. Reaches("cell_list", given["cell_list"], n + k)
      <4>1. CASE given["cell_list"] = {}
        BY <4>1 DEF Reaches
      <4>2. CASE given["cell_list"] # {}
        BY <1>1, <2>1, <3>2, <3>3, <4>2, StringGiven DEF Reaches, Strings
      <4> QED BY <4>1, <4>2
    <3>5. Reaches("payload", given["payload"], n + k)
      <4>1. CASE given["payload"] = {}
        BY <4>1 DEF Reaches
      <4>2. CASE given["payload"] # {}
        BY <1>1, <2>1, <3>2, <3>3, <4>2, StringGiven DEF Reaches, Strings
      <4> QED BY <4>1, <4>2
    <3>6. Reaches("total_num_cells", given["total_num_cells"], n + k)
      BY <2>7 DEF Reaches
    <3>7. n <= Storage /\ k <= Storage
      BY <1>1, <2>1, <3>3, StringGiven, StorageType DEF Strings
    <3> QED BY <2>2, <2>4, <2>5, <3>1, <3>2, <3>3, <3>4, <3>5, <3>6, <3>7, StorageType DEF Alternatives
  <2> QED BY <2>6, <2>7
<1>5. CASE pkt.code = RC_EOL
  <2>1. ~Present("payload", pkt) /\ ~Present("total_num_cells", pkt) /\ Place("cell_list", pkt) = 0
    BY <1>3, <1>5, EolFields DEF Place, Present, Has
  <2>2. k = 0 /\ given["total_num_cells"] = {}
    <3>1. given["total_num_cells"] = {}
      BY <2>1 DEF FillInv, Kept, Fields
    <3> QED BY <1>1, <2>1, <3>1, StringGiven DEF Strings
  <2>3. BodyLen = n
    BY <1>1, <1>2, <2>2
  <2>4. n <= Storage /\ Whole(n)
    BY <1>1, <2>1, StringGiven, StorageType DEF Strings, Lists
  <2>5. ASSUME NEW f \in Fields PROVE Reaches(f, given[f], n)
    <3>1. CASE f = "cell_list"
      BY <1>1, <2>1, <3>1, StringGiven DEF Reaches, Strings
    <3>2. CASE ~Present(f, pkt)
      BY <3>2 DEF FillInv, Kept, Reaches
    <3>3. Present(f, pkt) => f = "cell_list"
      BY <1>3, <1>5, EolFields DEF Fields, Present, Has
    <3> QED BY <3>1, <3>2, <3>3
  <2> QED BY <1>3, <1>5, <2>3, <2>4, <2>5, StorageType DEF BodyLenOk
<1>6. CASE pkt.code \in RC_ERRORS
  <2>1. \A f \in Fields : ~Present(f, pkt)
    BY <1>3, <1>6, ErrorFields DEF Fields, Present, Has
  <2>2. \A f \in Fields : given[f] = {}
    BY <2>1 DEF FillInv, Kept
  <2>3. n = 0 /\ k = 0
    BY <1>1, <2>2, StringGiven DEF Strings, Fields
  <2>4. BodyLen = 0
    BY <1>2, <2>2, <2>3 DEF Fields
  <2> QED BY <1>3, <1>6, <2>2, <2>4, StorageType DEF BodyLenOk, Reaches
<1> QED BY <1>3, <1>4, <1>5, <1>6, PacketKinds

-----------------------------------------------------------------------------
(* The getters at the other end.                                           *)

(* A packet p that came in has the value v of the field f in its body c of *)
(* len octets.                                                             *)
Lies(f, v, p, c, len) ==
  /\ v \in FieldValues(f) /\ Present(f, p) /\ Place(f, p) \in Nat
  /\ p.body = c /\ p.len = len /\ c \in Seq(Octet) /\ len \in Nat /\ Len(c) = len
  /\ Holds(c, Place(f, p), Encoded(f, v)) /\ Place(f, p) + Len(Encoded(f, v)) <= len
  /\ f \in {"cell_list", "cand_cell_list", "payload"} => Place(f, p) + Len(Encoded(f, v)) = len
  /\ f \in Lists => Whole(Len(v))

(* The two octets of a field that has two are read back.                   *)
LEMMA WordGot ==
  ASSUME NEW f \in WordFields, NEW v, NEW p, NEW c, NEW len, Lies(f, v, p, c, len)
  PROVE  Get(f, p) = {v}
<1>1. f \in Fields /\ f # "cand_cell_list" /\ f \notin OctetFields
  BY DEF Fields, WordFields, OctetFields
<1>2. PICK at \in Nat : at = Place(f, p)
  BY DEF Lies
<1>3. FieldOffset(f, p) = at /\ Has(f, p)
  BY <1>1, <1>2 DEF Lies, Place, Present
<1>4. v \in Word /\ c \in Seq(Octet) /\ v \in FieldValues(f)
  BY DEF Lies, FieldValues
<1>5. Encoded(f, v) = WRITE16(v) /\ Len(Encoded(f, v)) = 2
  BY <1>1, <1>4, EncodedType
<1>6. Holds(c, at, WRITE16(v)) /\ at + 2 <= len /\ p.body = c /\ p.len = len /\ len \in Nat
  BY <1>2, <1>5 DEF Lies
<1>7. READ16(c, at) = v
  BY <1>4, <1>6, Read16Held
<1>8. Fits(f, p, 2)
  BY <1>3, <1>6 DEF Fits
<1>9. CASE f = "metadata"
  <2>1. at = 0
    BY <1>2, <1>9, Fixed DEF Lies
  <2> QED BY <1>6, <1>7, <1>8, <1>9, <2>1 DEF Get, get_metadata, Ok
<1>10. CASE f = "offset"
  BY <1>3, <1>6, <1>7, <1>8, <1>10 DEF Get, get_offset, Ok
<1>11. CASE f = "max_num_cells"
  BY <1>3, <1>6, <1>7, <1>8, <1>11 DEF Get, get_max_num_cells, Ok
<1>12. CASE f = "total_num_cells"
  <2>1. at = 0
    BY <1>2, <1>12, Fixed DEF Lies
  <2> QED BY <1>6, <1>7, <1>8, <1>12, <2>1 DEF Get, get_total_num_cells, Ok
<1> QED BY <1>9, <1>10, <1>11, <1>12 DEF WordFields

(* So is the octet of a field that has one.                                *)
LEMMA OctetGot ==
  ASSUME NEW f \in OctetFields, NEW v, NEW p, NEW c, NEW len, Lies(f, v, p, c, len)
  PROVE  Get(f, p) = {v}
<1>1. f \in Fields /\ f # "cand_cell_list" /\ f \notin WordFields
  BY DEF Fields, WordFields, OctetFields
<1>2. PICK at \in Nat : at = Place(f, p)
  BY DEF Lies
<1>3. FieldOffset(f, p) = at /\ Has(f, p)
  BY <1>1, <1>2 DEF Lies, Place, Present
<1>4. v \in FieldValues(f) /\ c \in Seq(Octet)
  BY DEF Lies
<1>5. Encoded(f, v) = <<v>> /\ Len(Encoded(f, v)) = 1 /\ <<v>> \in Seq(Octet)
  <2>1. Encoded(f, v) = <<v>> /\ Len(Encoded(f, v)) = 1 /\ Encoded(f, v) \in Seq(Octet)
    BY <1>1, <1>4, EncodedType
  <2> QED BY <2>1
<1>6. Holds(c, at, <<v>>) /\ at + 1 <= len /\ p.body = c /\ p.len = len /\ len \in Nat
  BY <1>2, <1>5 DEF Lies
<1>7. c[at + 1] = v
  BY <1>6, OneHeld
<1>8. Octets(c, at, 1) = <<v>>
  <2>1. Octets(c, at, Len(<<v>>)) = <<v>>
    BY <1>4, <1>5, <1>6, OctetsHeld
  <2>2. Len(<<v>>) = 1
    OBVIOUS
  <2> QED BY <2>1, <2>2
<1>9. Fits(f, p, 1)
  BY <1>3, <1>6 DEF Fits
<1>10. CASE f = "num_cells"
  BY <1>3, <1>6, <1>7, <1>9, <1>10 DEF Get, get_num_cells, Ok
<1>11. {o[1] : o \in {<<v>>}} = {v}
  OBVIOUS
<1>12. CASE f = "cell_options"
  <2>1. get_cell_options(p) = {<<v>>}
    BY <1>3, <1>6, <1>8, <1>9, <1>12 DEF get_cell_options, Read, Ok
  <2> QED BY <1>11, <1>12, <2>1 DEF Get
<1>13. CASE f = "reserved"
  <2>1. get_reserved(p) = {<<v>>}
    BY <1>3, <1>6, <1>8, <1>13 DEF get_reserved, Read, Ok
  <2> QED BY <1>11, <1>13, <2>1 DEF Get
<1> QED BY <1>10, <1>12, <1>13 DEF OctetFields

(* A list of cells is the rest of the body.                                *)
LEMMA CellsGot ==
  ASSUME NEW v, NEW p, NEW c, NEW len, Lies("cell_list", v, p, c, len)
  PROVE  Get("cell_list", p) = {v}
<1>1. PICK at \in Nat : at = Place("cell_list", p)
  BY DEF Lies
<1>2. FieldOffset("cell_list", p) = at /\ Has("cell_list", p)
  BY <1>1 DEF Lies, Place, Present
<1>3. v \in Seq(Octet) /\ Encoded("cell_list", v) = v /\ Len(v) \in Nat /\ c \in Seq(Octet)
  BY LenProperties DEF Lies, FieldValues, Encoded, WordFields, OctetFields
<1>4. Holds(c, at, v) /\ at + Len(v) = len /\ p.body = c /\ p.len = len /\ len \in Nat /\ Whole(Len(v))
  BY <1>1, <1>3 DEF Lies, Lists
<1>5. len - at = Len(v) /\ len >= at + 0
  BY <1>3, <1>4
<1>6. Fits("cell_list", p, 0) /\ Whole(p.len - FieldOffset("cell_list", p))
  BY <1>2, <1>4, <1>5 DEF Fits
<1>7. Octets(c, at, Len(v)) = v
  BY <1>3, <1>4, OctetsHeld
<1>8. Read("cell_list", p, p.len - FieldOffset("cell_list", p)) = {v}
  BY <1>2, <1>4, <1>5, <1>7 DEF Read, Ok
<1> QED BY <1>6, <1>8 DEF Get, get_cell_list

(* The list of the cells to give up is as long as NumCells says.           *)
LEMMA RelGot ==
  ASSUME NEW v, NEW p, NEW c, NEW len, Lies("rel_cell_list", v, p, c, len), Packet(p),
         Len(v) = 4 * c[4], Whole(len)
  PROVE  Get("rel_cell_list", p) = {v}
<1>1. p.type = REQUEST /\ p.code = CMD_RELOCATE
  BY RelPresent DEF Lies, Present
<1>2. FieldOffset("rel_cell_list", p) = 4 /\ Place("rel_cell_list", p) = 4
  BY <1>1, RelocateFields DEF Place
<1>3. v \in Seq(Octet) /\ Encoded("rel_cell_list", v) = v /\ Len(v) \in Nat /\ c \in Seq(Octet)
  BY LenProperties DEF Lies, FieldValues, Encoded, WordFields, OctetFields
<1>4. Holds(c, 4, v) /\ 4 + Len(v) <= len /\ p.body = c /\ p.len = len /\ len \in Nat
  BY <1>2, <1>3 DEF Lies
<1>5. RelLen(p) = Len(v) /\ HasLists(p)
  BY <1>1, <1>3, <1>4, RelLenIs
<1>6. Fits("rel_cell_list", p, RelLen(p))
  BY <1>2, <1>4, <1>5 DEF Fits, HasLists
<1>7. Whole(p.len - FieldOffset("rel_cell_list", p))
  BY <1>2, <1>4 DEF Whole, CellLen
<1>8. Octets(c, 4, Len(v)) = v
  BY <1>3, <1>4, OctetsHeld
<1>9. Read("rel_cell_list", p, RelLen(p)) = {v}
  BY <1>2, <1>4, <1>5, <1>8 DEF Read, Ok
<1> QED BY <1>5, <1>6, <1>7, <1>9 DEF Get, get_rel_cell_list

(* The candidates are what comes behind it.                                *)
LEMMA CandGot ==
  ASSUME NEW v, NEW p, NEW c, NEW len, Lies("cand_cell_list", v, p, c, len), Packet(p),
         NEW n \in Nat, n = c[4]
  PROVE  Get("cand_cell_list", p) = {v}
<1>1. p.type = REQUEST /\ p.code = CMD_RELOCATE
  BY RelPresent DEF Lies, Present
<1>2. FieldOffset("rel_cell_list", p) = 4 /\ Place("cand_cell_list", p) = 4 + 4 * n
  BY <1>1, RelocateFields DEF Lies, Place
<1>3. v \in Seq(Octet) /\ Encoded("cand_cell_list", v) = v /\ Len(v) \in Nat /\ c \in Seq(Octet)
  BY LenProperties DEF Lies, FieldValues, Encoded, WordFields, OctetFields
<1>4. Holds(c, 4 + 4 * n, v) /\ 4 + 4 * n + Len(v) = len /\ p.body = c /\ p.len = len /\ len \in Nat /\ Whole(Len(v))
  BY <1>2, <1>3 DEF Lies, Lists
<1>12. PICK k \in Nat : k = Len(v)
  BY <1>3
<1>5. RelLen(p) = 4 * n /\ HasLists(p)
  <2>1. p.len >= 4
    BY <1>4, <1>12
  <2>2. p.body[4] = n
    BY <1>4
  <2> QED BY <1>1, <2>1, <2>2, RelLenIs
<1>6. Fits("rel_cell_list", p, RelLen(p))
  BY <1>2, <1>3, <1>4, <1>5 DEF Fits, HasLists
<1>7. PICK at \in Nat : at = 4 + 4 * n
  OBVIOUS
<1>8. FieldOffset("rel_cell_list", p) + RelLen(p) = at
  BY <1>2, <1>5, <1>7
<1>9. p.len - at = Len(v) /\ p.len - FieldOffset("rel_cell_list", p) - RelLen(p) = Len(v)
  <2>1. at + k = len /\ p.len = len
    BY <1>4, <1>7, <1>12
  <2>2. len - at = k /\ len - 4 - 4 * n = k
    <3>1. PICK m \in Nat : m = 4 * n
      OBVIOUS
    <3>2. PICK l \in Nat : l = len
      BY <1>4
    <3>3. l = at + k /\ at = 4 + m
      BY <1>7, <2>1, <3>1, <3>2
    <3>4. l - at = k /\ l - 4 - m = k
      BY <3>3
    <3> QED BY <3>1, <3>2, <3>4
  <2> QED BY <1>2, <1>5, <1>12, <2>1, <2>2
<1>10. Octets(c, at, Len(v)) = v
  BY <1>3, <1>4, <1>7, OctetsHeld
<1>11. get_cand_cell_list(p) = {v}
  BY <1>4, <1>5, <1>6, <1>8, <1>9, <1>10 DEF get_cand_cell_list, Ok
<1> QED BY <1>11 DEF Get

(* The getter of a payload copies all there is, as its room suffices.      *)
LEMMA PayloadGot ==
  ASSUME NEW v, NEW p, NEW c, NEW len, Lies("payload", v, p, c, len), len <= Storage
  PROVE  Get("payload", p) = {v}
<1>1. PICK at \in Nat : at = Place("payload", p)
  BY DEF Lies
<1>2. FieldOffset("payload", p) = at /\ Has("payload", p)
  BY <1>1 DEF Lies, Place, Present
<1>3. v \in Seq(Octet) /\ Encoded("payload", v) = v /\ c \in Seq(Octet)
  BY DEF Lies, FieldValues, Encoded, WordFields, OctetFields
<1>4. PICK n \in Nat : n = Len(v)
  BY <1>3, LenProperties
<1>5. Holds(c, at, v) /\ at + n = len /\ p.body = c /\ p.len = len /\ len \in Nat /\ Len(c) = len
  BY <1>1, <1>3, <1>4 DEF Lies
<1>6. PICK room \in Nat : room = Storage /\ len <= room
  BY StorageType
<1>7. Octets(c, at, n) = v
  BY <1>3, <1>4, <1>5, OctetsHeld
<1>8. (IF at + room > Len(c) THEN Len(c) - at ELSE room) = n
  BY <1>4, <1>5, <1>6
<1>9. p.len - at <= room /\ p.len - at = n
  BY <1>4, <1>5, <1>6
<1>10. get_payload(p, Storage) = {v}
  BY <1>2, <1>5, <1>6, <1>7, <1>8, <1>9 DEF get_payload, Ok
<1>11. SubSeq(v, 1, n) = v
  <2>1. 0 + n = n /\ 0 + 1 = 1 /\ Holds(v, 0, v)
    BY <1>3, <1>4, HoldsAll
  <2>2. Octets(v, 0, n) = v
    BY <1>3, <1>4, <2>1, OctetsHeld
  <2> QED BY <2>1, <2>2 DEF Octets
<1>12. {SubSeq(o, 1, n) : o \in {v}} = {v}
  BY <1>11
<1>13. Get("payload", p) = {SubSeq(o, 1, p.len - FieldOffset("payload", p)) : o \in get_payload(p, Storage)}
  BY DEF Get
<1> QED BY <1>2, <1>9, <1>10, <1>12, <1>13

-----------------------------------------------------------------------------
(* A packet is created and parsed.                                         *)

Content(seqno, len) == <<16 * pkt.type, pkt.code, Sfid, seqno>> \o Octets(pkt.body, 0, len)

(* What the other end parses.                                              *)
Parsed(seqno, len) ==
  [version |-> 0, type |-> pkt.type, code |-> pkt.code, sfid |-> Sfid, seqno |-> seqno,
   body |-> Octets(pkt.body, 0, len), len |-> len]

(* The length given suits the packet, and every field that is given.       *)
Measured(len) ==
  /\ len = BodyLen /\ len <= Storage /\ BodyLenOk(pkt.type, pkt.code, len)
  /\ \A f \in Fields : Reaches(f, given[f], len)

(* There is a length the packet is sent with, and it reaches every field.  *)
LEMMA LengthGiven == ASSUME FillInv PROVE \E len \in Nat : Measured(len)
<1>1. Packet(pkt)
  BY DEF FillInv, PktType
<1>2. \/ pkt.type = REQUEST /\ pkt.code \in {CMD_ADD, CMD_DELETE}
      \/ pkt.type = REQUEST /\ pkt.code = CMD_RELOCATE
      \/ pkt.type = REQUEST /\ pkt.code \in {CMD_COUNT, CMD_LIST, CMD_SIGNAL, CMD_CLEAR}
      \/ pkt.type # REQUEST
  <2>1. \/ pkt.type = REQUEST /\ pkt.code \in {CMD_ADD, CMD_DELETE}
        \/ pkt.type = REQUEST /\ pkt.code = CMD_RELOCATE
        \/ pkt.type = REQUEST /\ pkt.code = CMD_COUNT
        \/ pkt.type = REQUEST /\ pkt.code = CMD_LIST
        \/ pkt.type = REQUEST /\ pkt.code = CMD_SIGNAL
        \/ pkt.type = REQUEST /\ pkt.code = CMD_CLEAR
        \/ pkt.type \in {RESPONSE, CONFIRMATION}
    BY <1>1, PacketKinds
  <2>2. pkt.type \in {RESPONSE, CONFIRMATION} => pkt.type # REQUEST
    BY DEF REQUEST, RESPONSE, CONFIRMATION
  <2> QED BY <2>1, <2>2
<1>3. /\ BodyLen \in 0 .. Storage /\ BodyLenOk(pkt.type, pkt.code, BodyLen)
      /\ \A f \in Fields : Reaches(f, given[f], BodyLen)
  BY <1>1, <1>2, AddLength, RelocateLength, RequestLength, AnswerLength
<1>4. BodyLen \in Nat /\ BodyLen <= Storage
  BY <1>3, StorageType
<1> QED BY <1>3, <1>4 DEF Measured

(* sixp_pkt_create accepts the packet.                                     *)
LEMMA Created ==
  ASSUME FillInv, NEW len \in Nat, Measured(len), NEW seqno
  PROVE  create([pkt EXCEPT !.len = BodyLen], Sfid, seqno, BodyLen > 0) = {Content(seqno, len)}
<1>1. PICK p : p = [pkt EXCEPT !.len = len]
  OBVIOUS
<1>2. p.type = pkt.type /\ p.code = pkt.code /\ p.body = pkt.body /\ p.len = len
  BY <1>1 DEF FillInv, PktType
<1>3. create(p, Sfid, seqno, len > 0) = {Content(seqno, len)}
  BY <1>2 DEF create, Content, Ok
<1> QED BY <1>1, <1>3 DEF Measured

(* The octets of the packet are octets.                                    *)
LEMMA PacketOctets ==
  ASSUME FillInv
  PROVE  /\ pkt.type \in {0, 1, 2} /\ pkt.code \in Octet /\ Sfid \in Octet
         /\ 16 * pkt.type \in Octet /\ ((16 * pkt.type) \div 16) % 4 = pkt.type /\ (16 * pkt.type) % 16 = 0
<1>1. Packet(pkt)
  BY DEF FillInv, PktType
<1>2. pkt.type \in {0, 1, 2}
  BY <1>1 DEF Packet, REQUEST, RESPONSE, CONFIRMATION
<1>3. pkt.code \in Octet
  BY <1>1 DEF Packet, Octet, CMD_ADD, CMD_CLEAR, RC_SUCCESS, RC_EOL, RC_ERRORS
<1>4. ASSUME NEW t \in {0, 1, 2} PROVE 16 * t \in Octet /\ ((16 * t) \div 16) % 4 = t /\ (16 * t) % 16 = 0
  <2>1. t = 0 \/ t = 1 \/ t = 2
    OBVIOUS
  <2>2. CASE t = 0
    BY <2>2 DEF Octet
  <2>3. CASE t = 1
    BY <2>3 DEF Octet
  <2>4. CASE t = 2
    BY <2>4 DEF Octet
  <2> QED BY <2>1, <2>2, <2>3, <2>4
<1> QED BY <1>2, <1>3, <1>4, PacketsAssumption

(* sixp_pkt_parse gives back what was put in.                              *)
LEMMA PacketRead ==
  ASSUME FillInv, NEW len \in Nat, Measured(len), NEW seqno \in Octet
  PROVE  /\ Content(seqno, len) \in Seq(Octet)
         /\ Len(Content(seqno, len)) \in Size /\ Len(Content(seqno, len)) > 0
         /\ parse(Content(seqno, len)) = {Parsed(seqno, len)}
<1>1. PICK hd, body : hd = <<16 * pkt.type, pkt.code, Sfid, seqno>> /\ body = Octets(pkt.body, 0, len)
  OBVIOUS
<1>2. hd \in Seq(Octet) /\ Len(hd) = 4
  BY <1>1, PacketOctets
<1>3. body \in Seq(Octet) /\ Len(body) = len
  <2>1. pkt.body \in Seq(Octet) /\ 0 + len <= Len(pkt.body)
    BY DEF FillInv, PktType, Measured, Packet
  <2> QED BY <1>1, <2>1, OctetsType
<1>4. PICK buf \in Seq(Octet) :
        /\ buf = hd \o body /\ Len(buf) = 4 + len /\ Holds(buf, 0, hd) /\ Holds(buf, 4, body)
  BY <1>2, <1>3, Together, ZenonT(60)
<1>5. Content(seqno, len) = buf
  BY <1>1, <1>4 DEF Content
<1>6. buf[1] = 16 * pkt.type /\ buf[2] = pkt.code /\ buf[3] = Sfid /\ buf[4] = seqno
  <2>1. \A i \in 1 .. 4 : buf[0 + i] = hd[i]
    BY <1>2, <1>4, Zenon DEF Holds
  <2>2. buf[0 + 1] = hd[1] /\ buf[0 + 2] = hd[2] /\ buf[0 + 3] = hd[3] /\ buf[0 + 4] = hd[4]
    BY <2>1
  <2>3. hd[1] = 16 * pkt.type /\ hd[2] = pkt.code /\ hd[3] = Sfid /\ hd[4] = seqno
    BY <1>1
  <2> QED BY <2>2, <2>3
<1>7. From(buf, 4) = body
  BY <1>3, <1>4, FromHeld
<1>8. Len(buf) - 4 = len /\ ~(Len(buf) < 4)
  BY <1>4
<1>9. BodyLenOk(pkt.type, pkt.code, len)
  BY DEF Measured
<1>10. parse(buf) = {[version |-> 0, type |-> pkt.type, code |-> pkt.code, sfid |-> Sfid,
                      seqno |-> seqno, body |-> body, len |-> len]}
  <2>1. (buf[1] \div 16) % 4 = pkt.type /\ buf[1] % 16 = 0
    BY <1>6, PacketOctets
  <2> QED BY <1>6, <1>7, <1>8, <1>9, <2>1, Zenon DEF parse, Ok
<1>11. Len(buf) \in Size /\ Len(buf) > 0
  <2>1. len <= Storage
    BY DEF Measured
  <2>2. 4 + len < 2047 /\ 4 + len > 0 /\ 4 + len \in Nat
    BY <2>1, StorageType
  <2> QED BY <1>4, <2>2 DEF Size
<1> QED BY <1>1, <1>4, <1>5, <1>10, <1>11 DEF Parsed

(* Every field that was given is read back.                                *)
LEMMA FieldRead ==
  ASSUME FillInv, NEW len \in Nat, Measured(len), NEW seqno,
         given["rel_cell_list"] # {} => ListLen("rel_cell_list") = RelLen(pkt),
         NEW f \in Fields, given[f] # {}
  PROVE  Get(f, Parsed(seqno, len)) = given[f]
<1>1. PICK v \in FieldValues(f) :
        /\ given[f] = {v} /\ Present(f, pkt) /\ Holds(pkt.body, Place(f, pkt), Encoded(f, v))
        /\ f \in Lists => Whole(Len(v))
  BY DEF FillInv, Kept
<1>2. Packet(pkt) /\ pkt.len = Storage /\ Len(pkt.body) = Storage /\ pkt.body \in Seq(Octet)
  BY DEF FillInv, PktType, Packet
<1>3. len <= Storage /\ Reaches(f, given[f], len) /\ BodyLenOk(pkt.type, pkt.code, len)
  BY DEF Measured
<1>4. PICK p, c : p = Parsed(seqno, len) /\ c = Octets(pkt.body, 0, len)
  OBVIOUS
<1>5. p.type = pkt.type /\ p.code = pkt.code /\ p.body = c /\ p.len = len
  BY <1>4 DEF Parsed
<1>6. c \in Seq(Octet) /\ Len(c) = len /\ \A i \in 1 .. len : c[i] = pkt.body[i]
  <2>1. 0 + len <= Len(pkt.body)
    BY <1>2, <1>3
  <2>2. c \in Seq(Octet) /\ Len(c) = len /\ \A i \in 1 .. len : c[i] = pkt.body[0 + i]
    BY <1>2, <1>4, <2>1, OctetsType
  <2> QED BY <2>2
<1>7. Packet(p)
  BY <1>2, <1>5, <1>6 DEF Packet
<1>8. ASSUME NEW h PROVE FieldOffset(h, p) = FieldOffset(h, pkt)
  BY <1>5 DEF FieldOffset, IsRequest, IsAnswer
<1>9. PICK n \in Nat : n = pkt.body[4]
  <2>1. Len(pkt.body) >= 4
    BY <1>2, PacketsAssumption
  <2> QED BY <1>2, <2>1, BodyOctet, OctetNat
<1>10. Present(f, p)
  BY <1>1, <1>8 DEF Present, Has
<1>11. pkt.code = CMD_RELOCATE /\ pkt.type = REQUEST => len >= 4 /\ c[4] = n /\ Whole(len)
  <2> SUFFICES ASSUME pkt.code = CMD_RELOCATE, pkt.type = REQUEST PROVE len >= 4 /\ c[4] = n /\ Whole(len)
    OBVIOUS
  <2>1. len >= 4 /\ Whole(len)
    BY <1>3 DEF BodyLenOk, REQUEST, RESPONSE, CONFIRMATION, CMD_ADD, CMD_DELETE, CMD_RELOCATE, CMD_COUNT, CMD_LIST,
                CMD_SIGNAL, CMD_CLEAR
  <2>2. 4 \in 1 .. len
    BY <2>1
  <2> QED BY <1>6, <1>9, <2>1, <2>2
<1>12. f \in {"rel_cell_list", "cand_cell_list"} => pkt.code = CMD_RELOCATE /\ pkt.type = REQUEST
  BY <1>1, <1>2, RelPresent DEF Present
<1>13. PICK at \in Nat : at = Place(f, pkt) /\ at = Place(f, p)
  <2>1. Place(f, pkt) \in Nat
    BY <1>1, <1>2, <1>9, PlaceType
  <2>2. Place(f, p) = Place(f, pkt)
    BY <1>5, <1>8, <1>9, <1>11, <1>12 DEF Place
  <2> QED BY <2>1, <2>2
<1>14. PICK e \in Seq(Octet) : e = Encoded(f, v)
  BY EncodedType
<1>15. /\ at + Len(e) <= len
       /\ f \in {"cell_list", "cand_cell_list", "payload"} => at + Len(e) = len
  BY <1>1, <1>3, <1>13, <1>14 DEF Reaches
<1>16. Holds(c, at, e)
  BY <1>1, <1>2, <1>3, <1>4, <1>13, <1>14, <1>15, HoldsIn
<1>17. Lies(f, v, p, c, len)
  BY <1>1, <1>5, <1>6, <1>10, <1>13, <1>14, <1>15, <1>16 DEF Lies
<1> SUFFICES Get(f, p) = {v}
  BY <1>1, <1>4
<1>18. CASE f \in WordFields
  BY <1>17, <1>18, WordGot, Zenon
<1>19. CASE f \in OctetFields
  BY <1>17, <1>19, OctetGot, Zenon
<1>20. CASE f = "cell_list"
  <2>1. Lies("cell_list", v, p, c, len)
    BY <1>17, <1>20
  <2>2. Get("cell_list", p) = {v}
    BY <2>1, CellsGot, Zenon
  <2> QED BY <1>20, <2>2
<1>21. CASE f = "rel_cell_list"
  <2>1. pkt.type = REQUEST /\ pkt.code = CMD_RELOCATE
    BY <1>12, <1>21
  <2>2. pkt.len >= 4
    BY <1>2, PacketsAssumption
  <2>3. RelLen(pkt) = 4 * n
    BY <1>9, <2>1, <2>2, RelLenIs
  <2>4. ListLen(f) = Len(v)
    BY <1>1, ListGiven
  <2>5. Len(v) = 4 * c[4] /\ Whole(len)
    BY <1>1, <1>11, <1>21, <2>1, <2>3, <2>4
  <2>6. Lies("rel_cell_list", v, p, c, len)
    BY <1>17, <1>21
  <2>7. Get("rel_cell_list", p) = {v}
    BY <1>7, <2>5, <2>6, RelGot, Zenon
  <2> QED BY <1>21, <2>7
<1>22. CASE f = "cand_cell_list"
  <2>1. Lies("cand_cell_list", v, p, c, len) /\ n = c[4]
    BY <1>11, <1>12, <1>17, <1>22
  <2>2. Get("cand_cell_list", p) = {v}
    BY <1>7, <2>1, CandGot, Zenon
  <2> QED BY <1>22, <2>2
<1>23. CASE f = "payload"
  <2>1. Lies("payload", v, p, c, len)
    BY <1>17, <1>23
  <2>2. Get("payload", p) = {v}
    BY <1>3, <2>1, PayloadGot, Zenon
  <2> QED BY <1>23, <2>2
<1> QED BY <1>18, <1>19, <1>20, <1>21, <1>22, <1>23 DEF Fields, WordFields, OctetFields

-----------------------------------------------------------------------------
(* Data frames.                                                            *)

SixpSent ==
  /\ attr.pan = Pan /\ attr.receiver = Receiver
  /\ given["rel_cell_list"] # {} => ListLen("rel_cell_list") = RelLen(pkt)
  /\ \E len \in Nat, seqno \in Octet, terminated \in BOOLEAN :
       Measured(len) /\ Sent(attr, air, Wrapped(Content(seqno, len), terminated))

DataSent ==
  /\ attr.type = DATA
  /\ attr.ies => SixpSent
  /\ ~attr.ies => Sent(attr, air, DataPayload)

(* The three properties of data frames, and what they rest on: the fields  *)
(* that were given lie in the packet, and the frame on the air carries it. *)
DataInv ==
  /\ FillInv
  /\ stage # "filling" /\ attr.type = DATA => DataSent
  /\ FieldsArrive /\ HeadersAgree /\ NothingLeft

(* A frame with a 6P packet is put together.                               *)
LEMMA SixpIsSent ==
  ASSUME FillInv, NEW seqno \in Seqnos, NEW mac \in MacSeqnos, SendSixp(seqno, mac)
  PROVE  DataSent'
<1>1. UNCHANGED <<pkt, given>> /\ (given["rel_cell_list"] # {} => ListLen("rel_cell_list") = RelLen(pkt))
  BY DEF SendSixp
<1>2. PICK len \in Nat : Measured(len)
  BY LengthGiven
<1>3. PICK p : p = [pkt EXCEPT !.len = BodyLen]
  OBVIOUS
<1>4. p.len = BodyLen
  BY <1>3 DEF FillInv, PktType
<1>5. create(p, Sfid, seqno, p.len > 0) = {Content(seqno, len)}
  BY <1>2, <1>3, <1>4, Created
<1>6. PICK content \in create(p, Sfid, seqno, p.len > 0), terminated \in Terminated :
        OnAir(DataFrame(Pan, Receiver, mac, TRUE), Wrapped(content, terminated))
  BY <1>3 DEF SendSixp
<1>7. content = Content(seqno, len) /\ terminated \in BOOLEAN /\ seqno \in Octet
  BY <1>5, <1>6, PacketsAssumption
<1>8. PICK a, payload : a = DataFrame(Pan, Receiver, mac, TRUE) /\ payload = Wrapped(Content(seqno, len), terminated)
  OBVIOUS
<1>9. a.pan = Pan /\ a.receiver = Receiver /\ a.ies = TRUE /\ a.type = DATA
  BY <1>8 DEF DataFrame
<1>10. attr' = a /\ \E header \in framer_create(a, 0, a.pan) : air' = header \o payload
  BY <1>6, <1>7, <1>8 DEF OnAir
<1>11. Sent(a, air', payload)
  BY <1>8, <1>10 DEF Sent
<1>12. /\ Measured(len)' /\ Content(seqno, len)' = Content(seqno, len)
       /\ given'["rel_cell_list"] # {} => ListLen("rel_cell_list")' = RelLen(pkt')
  BY <1>1, <1>2 DEF Measured, Content, BodyLen, ListLen, Reaches, Place, Encoded
<1>13. Sent(attr', air', Wrapped(Content(seqno, len)', terminated))
  BY <1>8, <1>10, <1>11, <1>12
<1>14. SixpSent'
  BY <1>7, <1>9, <1>10, <1>12, <1>13 DEF SixpSent
<1> QED BY <1>9, <1>10, <1>14 DEF DataSent

(* So is one of the upper layers.                                          *)
LEMMA DataIsSent ==
  ASSUME NEW to \in {Receiver, Other, Null}, NEW mac \in MacSeqnos, NEW pan \in {Pan, OtherPan},
         SendData(to, mac, pan)
  PROVE  DataSent'
<1>1. PICK a : a = DataFrame(pan, to, mac, FALSE)
  OBVIOUS
<1>2. a.type = DATA /\ a.ies = FALSE
  BY <1>1 DEF DataFrame
<1>3. attr' = a /\ \E header \in framer_create(a, 0, a.pan) : air' = header \o DataPayload
  BY <1>1 DEF SendData, OnAir
<1>4. Sent(a, air', DataPayload)
  BY <1>1, <1>3 DEF Sent
<1> QED BY <1>2, <1>3, <1>4 DEF DataSent

(* A packet in its elements is a string of octets.                         *)
LEMMA WrappedOctets ==
  ASSUME FillInv, NEW len \in Nat, Measured(len), NEW seqno \in Octet, NEW terminated \in BOOLEAN
  PROVE  Wrapped(Content(seqno, len), terminated) \in Seq(Octet)
<1>1. Content(seqno, len) \in Seq(Octet) /\ Len(Content(seqno, len)) \in Size
  BY PacketRead
<1> QED BY <1>1, WrappedLaid DEF Laid

(* The node takes the frame, or lets it go.                                *)
LEMMA Reception ==
  ASSUME NEW payload \in Seq(Octet), Sent(attr, air, payload), NEW answer, Receive(answer)
  PROVE  IF attr.pan = Pan /\ attr.receiver \in {Receiver, Null}
         THEN /\ stage' = "received"
              /\ got' = [attr |-> AttrOf(attr), payload |-> payload,
                         sixp |-> IF attr.ies THEN SixpIn(payload, answer) ELSE {}]
         ELSE stage' = "dropped"
<1>1. Taken(air) <=> attr.pan = Pan /\ attr.receiver \in {Receiver, Null}
  BY SentRead
<1>2. CASE ~Taken(air)
  BY <1>1, <1>2 DEF Receive
<1>3. CASE Taken(air)
  <2>1. attr.pan = Pan /\ attr.receiver \in {Receiver, Null}
    BY <1>1, <1>3
  <2>2. /\ framer_parse(air, Pan) = {AttrOf(attr)} /\ From(air, AttrOf(attr).hdr) = payload
        /\ parse_fcf(air).ies = attr.ies
    BY <2>1, SentRead DEF Ok
  <2>3. framer_parse(air, Pan) # Fail
    BY <2>2 DEF Fail
  <2>4. /\ stage' = "received"
        /\ \E a \in framer_parse(air, Pan) :
             got' = [attr |-> a, payload |-> From(air, a.hdr),
                     sixp |-> IF parse_fcf(air).ies THEN SixpIn(From(air, a.hdr), answer) ELSE {}]
    BY <1>3, <2>3 DEF Receive
  <2>5. got' = [attr |-> AttrOf(attr), payload |-> payload,
                sixp |-> IF attr.ies THEN SixpIn(payload, answer) ELSE {}]
    BY <2>2, <2>4, Zenon
  <2> QED BY <2>1, <2>4, <2>5
<1> QED BY <1>2, <1>3

(* What arrives is as the properties say.                                  *)
LEMMA DataReceived ==
  ASSUME FillInv, DataSent, NEW answer, Receive(answer)
  PROVE  FieldsArrive' /\ HeadersAgree' /\ NothingLeft'
<1>1. attr' = attr /\ pkt' = pkt /\ given' = given /\ attr.type = DATA
  BY DEF Receive, DataSent
<1>2. PICK payload \in Seq(Octet) :
        /\ Sent(attr, air, payload) /\ (~attr.ies => payload = DataPayload)
        /\ attr.ies =>
             /\ attr.pan = Pan /\ attr.receiver = Receiver
             /\ given["rel_cell_list"] # {} => ListLen("rel_cell_list") = RelLen(pkt)
             /\ \E len \in Nat, seqno \in Octet, terminated \in BOOLEAN :
                  Measured(len) /\ payload = Wrapped(Content(seqno, len), terminated)
  <2>1. CASE attr.ies
    <3>1. PICK len \in Nat, seqno \in Octet, terminated \in BOOLEAN :
            Measured(len) /\ Sent(attr, air, Wrapped(Content(seqno, len), terminated))
      BY <2>1 DEF DataSent, SixpSent
    <3>2. Wrapped(Content(seqno, len), terminated) \in Seq(Octet)
      BY <3>1, WrappedOctets
    <3> QED BY <2>1, <3>1, <3>2 DEF DataSent, SixpSent
  <2>2. CASE ~attr.ies
    BY <2>2, HeadersAssumption DEF DataSent
  <2> QED BY <2>1, <2>2
<1>3. CASE ~ (attr.pan = Pan /\ attr.receiver \in {Receiver, Null})
  <2>1. stage' = "dropped" /\ ~attr.ies
    BY <1>2, <1>3, Reception
  <2> QED BY <1>1, <1>3, <2>1 DEF FieldsArrive, HeadersAgree, NothingLeft, Arrived
<1>4. CASE attr.pan = Pan /\ attr.receiver \in {Receiver, Null}
  <2>1. PICK sixp : sixp = IF attr.ies THEN SixpIn(payload, answer) ELSE {}
    OBVIOUS
  <2>2. stage' = "received" /\ got' = [attr |-> AttrOf(attr), payload |-> payload, sixp |-> sixp]
    BY <1>2, <1>4, <2>1, Reception
  <2>3. got'.attr = AttrOf(attr) /\ got'.payload = payload /\ got'.sixp = sixp
    BY <2>2
  <2>4. PICK h : h = hdrlen(Params(attr, 0, Pan))
    OBVIOUS
  <2>5. /\ got'.attr.hdr = h /\ got'.attr.sender = Sender /\ got'.attr.receiver = attr.receiver
        /\ got'.attr.type = DATA
        /\ got'.attr.seqno = IF attr.receiver = Null THEN NoSeqno ELSE attr.seqno
    BY <2>3, <2>4 DEF AttrOf
  <2>6. HeadersAgree'
    BY <1>1, <1>2, <1>4, <2>2, <2>3, <2>4, <2>5 DEF HeadersAgree, Arrived
  <2>7. CASE ~attr.ies
    <3>1. sixp = {}
      BY <2>1, <2>7
    <3> QED BY <1>1, <2>3, <2>6, <2>7, <3>1 DEF FieldsArrive, NothingLeft, Arrived
  <2>8. CASE attr.ies
    <3>1. PICK len \in Nat, seqno \in Octet, terminated \in BOOLEAN :
            Measured(len) /\ payload = Wrapped(Content(seqno, len), terminated)
      BY <1>2, <2>8
    <3>2. /\ Content(seqno, len) \in Seq(Octet)
          /\ Len(Content(seqno, len)) \in Size /\ Len(Content(seqno, len)) > 0
          /\ parse(Content(seqno, len)) = {Parsed(seqno, len)}
      BY <3>1, PacketRead
    <3>3. PICK s : /\ SixpIn(payload, answer) = {s} /\ s.pkt = parse(Content(seqno, len))
                   /\ s.up = <<>> \/ s.answered
      BY <3>1, <3>2, SixpRead
    <3>4. got'.sixp = {s} /\ s.pkt = {Parsed(seqno, len)}
      BY <2>1, <2>3, <2>8, <3>2, <3>3
    <3>5. NothingLeft'
      BY <1>1, <2>8, <3>3, <3>4 DEF NothingLeft
    <3>6. PICK p : p = Parsed(seqno, len)
      OBVIOUS
    <3>7. <<p.type, p.code, p.sfid>> = <<pkt'.type, pkt'.code, Sfid>>
      BY <1>1, <3>6 DEF Parsed
    <3>8. \A f \in Fields : given'[f] # {} => Get(f, p) = given'[f]
      BY <1>1, <1>2, <2>8, <3>1, <3>6, FieldRead
    <3>9. FieldsArrive'
      BY <2>2, <3>4, <3>6, <3>7, <3>8 DEF FieldsArrive
    <3> QED BY <2>6, <3>5, <3>9
  <2> QED BY <2>7, <2>8
<1> QED BY <1>3, <1>4

(* Nothing is on the air at first.                                         *)
LEMMA DataInvInit == Init => DataInv
<1>1. Init => stage = "filling"
  BY DEF Init
<1> QED BY <1>1, FillStart DEF DataInv, FieldsArrive, HeadersAgree, NothingLeft, Arrived

(* Every step keeps the invariant of the data frames.                      *)
LEMMA DataInvNext ==
  ASSUME DataInv, [Next]_vars
  PROVE  DataInv'
<1>1. ASSUME UNCHANGED <<pkt, given>> PROVE FillInv'
  BY <1>1 DEF DataInv, FillInv, PktType, Relocates, Kept, Packet, Present, Place
<1>2. ASSUME UNCHANGED <<pkt, given, attr, air>>, DataSent PROVE DataSent'
  BY <1>2, ZenonT(60) DEF DataSent, SixpSent, Measured, Content, BodyLen, ListLen, Reaches, Place
<1>3. ASSUME stage' \in {"filling", "air"} PROVE FieldsArrive' /\ HeadersAgree' /\ NothingLeft'
  BY <1>3 DEF FieldsArrive, HeadersAgree, NothingLeft, Arrived
<1>4. ASSUME stage' \in {"filling", "air", "received", "dropped"}, attr'.type # DATA
      PROVE FieldsArrive' /\ HeadersAgree' /\ NothingLeft'
  BY <1>4 DEF FieldsArrive, HeadersAgree, NothingLeft, Arrived
<1>5. CASE UNCHANGED vars
  BY <1>1, <1>2, <1>5 DEF DataInv, FieldsArrive, HeadersAgree, NothingLeft, Arrived, vars
<1>6. CASE Next /\ stage # "filling"
  <2>1. UNCHANGED <<pkt, given, attr, air>> /\ stage' \in {"received", "dropped"} /\ stage = "air"
    BY <1>6, FromAir
  <2>2. CASE attr.type = DATA
    <3>1. PICK answer \in Answers : Receive(answer)
      BY <1>6, <2>2, FromAir
    <3>2. DataSent /\ FillInv
      BY <1>6, <2>2 DEF DataInv
    <3>3. FieldsArrive' /\ HeadersAgree' /\ NothingLeft'
      BY <3>1, <3>2, DataReceived
    <3> QED BY <1>1, <1>2, <2>1, <3>2, <3>3 DEF DataInv
  <2>3. CASE attr.type # DATA
    <3>1. attr'.type # DATA
      BY <2>1, <2>3
    <3> QED BY <1>1, <1>4, <2>1, <3>1 DEF DataInv
  <2> QED BY <2>2, <2>3
<1>7. CASE Next /\ stage = "filling"
  <2>1. CASE \E f \in Fields : \E v \in Values[f] : Fill(f, v)
    <3>1. stage' = "filling" /\ FillInv'
      BY <2>1, FillStays, FillKeeps DEF DataInv
    <3> QED BY <1>3, <3>1 DEF DataInv
  <2>2. CASE stage' = "air" /\ \E k \in Seqnos, mac \in MacSeqnos : SendSixp(k, mac)
    <3>1. PICK k \in Seqnos, mac \in MacSeqnos : SendSixp(k, mac)
      BY <2>2
    <3>2. DataSent' /\ UNCHANGED <<pkt, given>>
      BY <3>1, SixpIsSent DEF DataInv, SendSixp
    <3> QED BY <1>1, <1>3, <2>2, <3>2 DEF DataInv
  <2>3. CASE stage' = "air" /\ \E to \in {Receiver, Other, Null}, mac \in MacSeqnos, pan \in {Pan, OtherPan} :
                                SendData(to, mac, pan)
    <3>1. PICK to \in {Receiver, Other, Null}, mac \in MacSeqnos, pan \in {Pan, OtherPan} : SendData(to, mac, pan)
      BY <2>3
    <3>2. DataSent' /\ UNCHANGED <<pkt, given>>
      BY <3>1, DataIsSent DEF SendData
    <3> QED BY <1>1, <1>3, <2>3, <3>2 DEF DataInv
  <2>4. CASE stage' = "air" /\ attr'.type = BEACON /\ \E b \in Beacons : SendBeacon(b)
    <3>1. UNCHANGED <<pkt, given>> /\ attr'.type # DATA
      BY <2>4 DEF SendBeacon, BEACON, DATA
    <3> QED BY <1>1, <1>3, <2>4, <3>1 DEF DataInv
  <2>5. CASE stage' = "air" /\ attr'.type = ACK /\ \E d \in Drifts, nack \in BOOLEAN : SendAck(d, nack)
    <3>1. UNCHANGED <<pkt, given>> /\ attr'.type # DATA
      BY <2>5 DEF SendAck, ACK, DATA
    <3> QED BY <1>1, <1>3, <2>5, <3>1 DEF DataInv
  <2> QED BY <1>7, <2>1, <2>2, <2>3, <2>4, <2>5, FromFilling
<1> QED BY <1>5, <1>6, <1>7

(* It holds in every state.                                                *)
LEMMA DataInvariant == Spec => []DataInv
BY DataInvInit, DataInvNext, PTL DEF Spec

(* Whatever a scheduling function sets in a packet, in whatever order, for *)
(* any values, storage and addresses, is what the other end reads.         *)
THEOREM FieldsAlwaysArrive == Spec => []FieldsArrive
<1>1. DataInv => FieldsArrive
  BY DEF DataInv
<1> QED BY <1>1, DataInvariant, PTL

(* A node takes what is meant for it and reads the header as it was sent.  *)
THEOREM HeadersAlwaysAgree == Spec => []HeadersAgree
<1>1. DataInv => HeadersAgree
  BY DEF DataInv
<1> QED BY <1>1, DataInvariant, PTL

(* sixtop_input leaves nothing of a 6P packet behind.                      *)
THEOREM NothingIsLeft == Spec => []NothingLeft
<1>1. DataInv => NothingLeft
  BY DEF DataInv
<1> QED BY <1>1, DataInvariant, PTL

-----------------------------------------------------------------------------
(* Beacons.                                                                *)

RoundsOf(buf, f) == \A l \in Loop : f[l] = Round(buf, l, f)

(* Where a round is after an element in another: in it, or behind it.      *)
Behind(left, at) == IF left = 0 THEN In("PAYLOAD", at) ELSE Nested(left, at)

(* From here on the elements of the set are found, and the end there.      *)
FoundAll(rest, set, end) ==
  \E s \in Seq(set) : rest = Ok([ies |-> s, end |-> end]) /\ {s[i] : i \in DOMAIN s} = set

(* The octets s are a nested element that is parsed to e.                  *)
Sub(s, e) ==
  /\ s \in Seq(Octet) /\ Len(s) > 0 /\ Len(s) < 300
  /\ \A buf \in Seq(Octet), at \in Nat, nested \in Nat : \A f :
       RoundsOf(buf, f) /\ Holds(buf, at, s) /\ nested >= Len(s) =>
         f[Nested(nested, at)] = FoundIn(Ok(e), f[Behind(nested - Len(s), at + Len(s))])

(* An element more is found.                                               *)
LEMMA FoundMore ==
  ASSUME NEW rest, NEW set, NEW end, FoundAll(rest, set, end), NEW e
  PROVE  /\ FoundAll(Found(e, rest), set \cup {e}, end)
         /\ FoundAll(FoundIn(Ok(e), rest), set \cup {e}, end)
<1>1. PICK s \in Seq(set) : rest = Ok([ies |-> s, end |-> end]) /\ {s[i] : i \in DOMAIN s} = set
  BY DEF FoundAll
<1>2. PICK all : all = set \cup {e}
  OBVIOUS
<1>3. PICK d \in Seq(all) : d = <<e>> /\ Len(d) = 1 /\ d[1] = e
  <2>1. e \in all
    BY <1>2
  <2>2. <<e>> \in Seq(all) /\ Len(<<e>>) = 1 /\ <<e>>[1] = e
    BY <2>1
  <2> QED BY <2>2, Zenon
<1>4. s \in Seq(all)
  <2>1. Len(s) \in Nat /\ DOMAIN s = 1 .. Len(s) /\ s = [i \in 1 .. Len(s) |-> s[i]]
    BY LenProperties
  <2>2. \A i \in 1 .. Len(s) : s[i] \in all
    BY <1>2, ElementOfSeq
  <2> QED BY <2>1, <2>2
<1>5. PICK k \in Nat : k = Len(s) /\ DOMAIN s = 1 .. k
  BY LenProperties
<1>6. PICK t : t = d \o s
  OBVIOUS
<1>7. /\ t \in Seq(all) /\ Len(t) = 1 + k
      /\ \A i \in 1 .. 1 + k : t[i] = IF i <= 1 THEN d[i] ELSE s[i - 1]
  BY <1>3, <1>4, <1>5, <1>6, ConcatProperties
<1>8. DOMAIN t = 1 .. 1 + k
  BY <1>7, LenProperties
<1>9. {t[i] : i \in DOMAIN t} = all
  <2>1. ASSUME NEW i \in 1 .. 1 + k PROVE t[i] \in all
    BY <1>7, ElementOfSeq
  <2>2. t[1] = e /\ 1 \in 1 .. 1 + k
    BY <1>3, <1>5, <1>7
  <2>3. ASSUME NEW x \in set PROVE \E i \in 1 .. 1 + k : t[i] = x
    <3>1. PICK i \in 1 .. k : s[i] = x
      BY <1>1, <1>5
    <3>2. i + 1 \in 1 .. 1 + k /\ ~ (i + 1 <= 1) /\ (i + 1) - 1 = i
      BY <1>5
    <3>3. t[i + 1] = s[i]
      BY <1>7, <3>2
    <3> QED BY <3>1, <3>2, <3>3
  <2>4. all \subseteq {t[i] : i \in DOMAIN t}
    BY <1>2, <1>8, <2>2, <2>3
  <2>5. {t[i] : i \in DOMAIN t} \subseteq all
    BY <1>8, <2>1
  <2> QED BY <2>4, <2>5
<1>10. Found(e, rest) = Ok([ies |-> t, end |-> end]) /\ FoundIn(Ok(e), rest) = Ok([ies |-> t, end |-> end])
  <2>1. t = <<e>> \o s
    BY <1>3, <1>6
  <2>2. /\ Found(e, Ok([ies |-> s, end |-> end])) = Ok([ies |-> <<e>> \o s, end |-> end])
        /\ FoundIn(Ok(e), Ok([ies |-> s, end |-> end])) = Ok([ies |-> <<e>> \o s, end |-> end])
    BY FoundOne
  <2> QED BY <1>1, <2>1, <2>2, Zenon
<1> QED BY <1>2, <1>7, <1>9, <1>10 DEF FoundAll

(* The descriptors of nested elements.                                     *)
ShortWord(id, len) == id * 256 + len
LongWord(id, len) == id * 2048 + len + 32768

(* The descriptors of the nested elements, as words.                       *)
LEMMA NestedDescriptors ==
  /\ \A id \in {26, 27, 28}, len \in Octet :
       /\ mlme_short_ie_descriptor(id, len) = WRITE16(ShortWord(id, len)) /\ ShortWord(id, len) \in Word
       /\ ShortWord(id, len) < 32768 /\ ShortWord(id, len) % 256 = len /\ ShortWord(id, len) \div 256 = id
  /\ \A len \in {n \in Nat : n < 2048} :
       /\ mlme_long_ie_descriptor(9, len) = WRITE16(LongWord(9, len)) /\ LongWord(9, len) \in Word
       /\ LongWord(9, len) >= 32768 /\ LongWord(9, len) % 2048 = len
       /\ (LongWord(9, len) % 32768) \div 2048 = 9
  /\ \A len \in {n \in Nat : n < 2048} :
       /\ ie_mlme(len) = WRITE16(LongWord(1, len)) /\ LongWord(1, len) \in Word
       /\ LongWord(1, len) >= 32768 /\ LongWord(1, len) % 2048 = len
       /\ (LongWord(1, len) % 32768) \div 2048 = 1
<1>1. ASSUME NEW id \in {26, 27, 28}, NEW len \in Octet
      PROVE  /\ mlme_short_ie_descriptor(id, len) = WRITE16(ShortWord(id, len)) /\ ShortWord(id, len) \in Word
             /\ ShortWord(id, len) < 32768 /\ ShortWord(id, len) % 256 = len /\ ShortWord(id, len) \div 256 = id
  <2>1. len \in Nat /\ len < 256
    BY SMT DEF Octet
  <2>2. PICK w \in Nat : w = ShortWord(id, len) /\ w = id * 256 + len
    BY <2>1, SMT DEF ShortWord
  <2>3. w < 32768 /\ w % 256 = len /\ w \div 256 = id
    BY <2>1, <2>2, SMT
  <2>4. (len % 256) + (id % 128) * 256 = w
    BY <2>1, <2>2, SMT
  <2>5. mlme_short_ie_descriptor(id, len) = WRITE16(w)
    BY <2>4, SMT DEF mlme_short_ie_descriptor
  <2>6. w \in Word
    BY <2>3, SMT DEF Word
  <2> QED BY <2>2, <2>3, <2>5, <2>6, SMT
<1>2. ASSUME NEW len \in {n \in Nat : n < 2048}, NEW id \in {1, 9}
      PROVE  /\ WRITE16((len % 2048) + (id % 16) * 2048 + 32768) = WRITE16(LongWord(id, len))
             /\ LongWord(id, len) \in Word
             /\ LongWord(id, len) >= 32768 /\ LongWord(id, len) % 2048 = len
             /\ (LongWord(id, len) % 32768) \div 2048 = id
  <2>1. len \in Nat /\ len < 2048
    BY SMT
  <2>2. PICK w \in Nat : w = LongWord(id, len) /\ w = id * 2048 + len + 32768
    BY <2>1, SMT DEF LongWord
  <2>3. w >= 32768 /\ w % 2048 = len /\ (w % 32768) \div 2048 = id
    BY <2>1, <2>2, SMT
  <2>4. (len % 2048) + (id % 16) * 2048 + 32768 = w
    BY <2>1, <2>2, SMT
  <2>6. w \in Word
    BY <2>1, <2>2, SMT DEF Word
  <2> QED BY <2>2, <2>3, <2>4, <2>6, SMT
<1>3. /\ \A len : mlme_long_ie_descriptor(9, len) = WRITE16((len % 2048) + (9 % 16) * 2048 + 32768)
      /\ \A len : ie_mlme(len) = WRITE16((len % 2048) + (1 % 16) * 2048 + 32768)
  BY SMT DEF mlme_long_ie_descriptor, ie_mlme, payload_ie_descriptor, MLME
<1> QED BY <1>1, <1>2, <1>3, SMT

(* A nested element of the short form is what its content is parsed to.     *)
LEMMA ShortSub ==
  ASSUME NEW id \in {26, 27, 28}, NEW len \in Octet, NEW content \in Seq(Octet), Len(content) = len, NEW e,
         \A buf \in Seq(Octet), at \in Nat : Holds(buf, at, content) => parse_mlme_short_ie(buf, at, len, id) = Ok(e)
  PROVE  Sub(mlme_short_ie_descriptor(id, len) \o content, e)
<1>1. PICK n \in Nat : n = len /\ n < 256
  BY SMT DEF Octet
<1>2. PICK w \in Word : /\ w = ShortWord(id, len) /\ mlme_short_ie_descriptor(id, len) = WRITE16(w)
                      /\ w < 32768 /\ w % 256 = n /\ w \div 256 = id
  BY <1>1, NestedDescriptors, SMT
<1>3. PICK d \in Seq(Octet) : d = WRITE16(w) /\ Len(d) = 2
  BY WordWritten
<1>4. PICK s \in Seq(Octet) : s = d \o content /\ Len(s) = 2 + n
  <2>1. PICK s \in Seq(Octet) : s = d \o content /\ Len(s) = Len(d) + Len(content)
    BY Together
  <2> QED BY <1>1, <1>3, <2>1
<1>5. ASSUME NEW buf \in Seq(Octet), NEW at \in Nat, NEW nested \in Nat, NEW f,
             RoundsOf(buf, f), Holds(buf, at, s), nested >= Len(s)
      PROVE  f[Nested(nested, at)] = FoundIn(Ok(e), f[Behind(nested - Len(s), at + Len(s))])
  <2>1. Holds(buf, at, d) /\ Holds(buf, at + 2, content)
    BY <1>3, <1>4, <1>5, HoldsBoth
  <2>2. READ16(buf, at) = w
    BY <1>3, <2>1, Read16Held
  <2>3. at + 2 + n <= Len(buf) /\ Len(buf) \in Nat
    BY <1>1, <2>1, LenProperties DEF Holds
  <2>4. PICK l \in Loop : l = Nested(nested, at) /\ l.at = at /\ l.state = "MLME" /\ l.nested = nested
    <3>1. /\ Nested(nested, at) \in Loop /\ Nested(nested, at).at = at
          /\ Nested(nested, at).state = "MLME" /\ Nested(nested, at).nested = nested
      BY DEF Nested, Loop
    <3> QED BY <3>1, Zenon
  <2>5. f[l] = Round(buf, l, f)
    BY <1>5 DEF RoundsOf
  <2>6. PICK next \in Nat : next = at + 2
    OBVIOUS
  <2>7. Round(buf, l, f) = MlmeElement(buf, w, next, nested, f)
    <3>1. ~ (at >= Len(buf)) /\ ~ (Len(buf) - at < 2)
      BY <2>3
    <3> QED BY <2>2, <2>4, <2>6, <3>1, SMT DEF Round
  <2>8. PICK left \in Nat : left = nested - (2 + n)
    BY <1>4, <1>5
  <2>9. MlmeElement(buf, w, next, nested, f) = FoundIn(parse_mlme_short_ie(buf, next, n, id), f[Behind(left, next + n)])
    <3>1. ~ (n > Len(buf) - next \/ left < 0)
      BY <2>3, <2>6, <2>8
    <3>2. ~ (w >= 32768) /\ n = w % 256
      BY <1>2, SMT DEF Word
    <3>3. MlmeElement(buf, w, next, nested, f)
            = IF n > Len(buf) - next \/ left < 0 THEN Fail
              ELSE FoundIn(parse_mlme_short_ie(buf, next, n, w \div 256),
                           f[IF left = 0 THEN In("PAYLOAD", next + n) ELSE Nested(left, next + n)])
      BY <2>8, <3>2, SMT DEF MlmeElement
    <3>4. w \div 256 = id
      BY <1>2
    <3> QED BY <3>1, <3>3, <3>4 DEF Behind
  <2>10. parse_mlme_short_ie(buf, next, n, id) = Ok(e)
    BY <1>1, <2>1, <2>6
  <2>11. nested - Len(s) = left /\ at + Len(s) = next + n
    BY <1>1, <1>4, <2>6, <2>8
  <2> QED BY <2>4, <2>5, <2>7, <2>9, <2>10, <2>11, Zenon
<1>6. Sub(s, e)
  <2>1. Len(s) > 0 /\ Len(s) < 300
    BY <1>1, <1>4
  <2> QED BY <1>5, <2>1 DEF Sub
<1>7. mlme_short_ie_descriptor(id, len) \o content = s
  <2>1. mlme_short_ie_descriptor(id, len) = WRITE16(w)
    BY <1>2
  <2> QED BY <1>3, <1>4, <2>1, Zenon
<1> QED BY <1>6, <1>7, Zenon

(* A nested element of the long form is what its content is parsed to.      *)
LEMMA LongSub ==
  ASSUME NEW id, id = 9, NEW len \in {m \in Nat : m < 290}, NEW content \in Seq(Octet), Len(content) = len, NEW e,
         \A buf \in Seq(Octet), at \in Nat : Holds(buf, at, content) => parse_mlme_long_ie(buf, at, len, id) = Ok(e)
  PROVE  Sub(mlme_long_ie_descriptor(id, len) \o content, e)
<1>1. PICK n \in Nat : n = len /\ n < 290
  BY SMT DEF Octet
<1>2. PICK w \in Word : /\ w = LongWord(id, len) /\ mlme_long_ie_descriptor(id, len) = WRITE16(w)
                      /\ w >= 32768 /\ w % 2048 = n /\ (w % 32768) \div 2048 = id
  <2>1. len \in {m \in Nat : m < 2048}
    BY <1>1, SMT
  <2> QED BY <1>1, <2>1, NestedDescriptors, SMT
<1>3. PICK d \in Seq(Octet) : d = WRITE16(w) /\ Len(d) = 2
  BY WordWritten
<1>4. PICK s \in Seq(Octet) : s = d \o content /\ Len(s) = 2 + n
  <2>1. PICK s \in Seq(Octet) : s = d \o content /\ Len(s) = Len(d) + Len(content)
    BY Together
  <2> QED BY <1>1, <1>3, <2>1
<1>5. ASSUME NEW buf \in Seq(Octet), NEW at \in Nat, NEW nested \in Nat, NEW f,
             RoundsOf(buf, f), Holds(buf, at, s), nested >= Len(s)
      PROVE  f[Nested(nested, at)] = FoundIn(Ok(e), f[Behind(nested - Len(s), at + Len(s))])
  <2>1. Holds(buf, at, d) /\ Holds(buf, at + 2, content)
    BY <1>3, <1>4, <1>5, HoldsBoth
  <2>2. READ16(buf, at) = w
    BY <1>3, <2>1, Read16Held
  <2>3. at + 2 + n <= Len(buf) /\ Len(buf) \in Nat
    BY <1>1, <2>1, LenProperties DEF Holds
  <2>4. PICK l \in Loop : l = Nested(nested, at) /\ l.at = at /\ l.state = "MLME" /\ l.nested = nested
    <3>1. /\ Nested(nested, at) \in Loop /\ Nested(nested, at).at = at
          /\ Nested(nested, at).state = "MLME" /\ Nested(nested, at).nested = nested
      BY DEF Nested, Loop
    <3> QED BY <3>1, Zenon
  <2>5. f[l] = Round(buf, l, f)
    BY <1>5 DEF RoundsOf
  <2>6. PICK next \in Nat : next = at + 2
    OBVIOUS
  <2>7. Round(buf, l, f) = MlmeElement(buf, w, next, nested, f)
    <3>1. ~ (at >= Len(buf)) /\ ~ (Len(buf) - at < 2)
      BY <2>3
    <3> QED BY <2>2, <2>4, <2>6, <3>1, SMT DEF Round
  <2>8. PICK left \in Nat : left = nested - (2 + n)
    BY <1>4, <1>5
  <2>9. MlmeElement(buf, w, next, nested, f) = FoundIn(parse_mlme_long_ie(buf, next, n, id), f[Behind(left, next + n)])
    <3>1. ~ (n > Len(buf) - next \/ left < 0)
      BY <2>3, <2>6, <2>8
    <3>2. w >= 32768 /\ n = w % 2048 /\ (w % 32768) \div 2048 = id
      BY <1>2, SMT DEF Word
    <3>3. MlmeElement(buf, w, next, nested, f)
            = IF n > Len(buf) - next \/ left < 0 THEN Fail
              ELSE FoundIn(parse_mlme_long_ie(buf, next, n, (w % 32768) \div 2048),
                           f[IF left = 0 THEN In("PAYLOAD", next + n) ELSE Nested(left, next + n)])
      BY <2>8, <3>2, SMT DEF MlmeElement
    <3>4. MlmeElement(buf, w, next, nested, f)
            = FoundIn(parse_mlme_long_ie(buf, next, n, (w % 32768) \div 2048),
                      f[IF left = 0 THEN In("PAYLOAD", next + n) ELSE Nested(left, next + n)])
      BY <3>1, <3>3
    <3>5. (w % 32768) \div 2048 = id
      BY <3>2
    <3> QED BY <3>4, <3>5 DEF Behind
  <2>10. parse_mlme_long_ie(buf, next, n, id) = Ok(e)
    BY <1>1, <2>1, <2>6
  <2>11. nested - Len(s) = left /\ at + Len(s) = next + n
    BY <1>1, <1>4, <2>6, <2>8
  <2> QED BY <2>4, <2>5, <2>7, <2>9, <2>10, <2>11, Zenon
<1>6. Sub(s, e)
  <2>1. Len(s) > 0 /\ Len(s) < 300
    BY <1>1, <1>4
  <2> QED BY <1>5, <2>1 DEF Sub
<1>7. mlme_long_ie_descriptor(id, len) \o content = s
  <2>1. mlme_long_ie_descriptor(id, len) = WRITE16(w)
    BY <1>2
  <2> QED BY <1>3, <1>4, <2>1, Zenon
<1> QED BY <1>6, <1>7, Zenon

Announced(b) ==
  /\ b.asn \in Seq(Octet) /\ Len(b.asn) = 5
  /\ b.priority \in Octet /\ b.timeslot \in Octet /\ b.hopping \in Octet
  /\ b.timing \in [1 .. 12 -> Word] /\ b.list \in Seq(Octet)
  /\ b.slotframes \in Seq([handle : Octet, size : Word, links : Seq(Link)])

(* Strings of octets are strung together in any order.                     *)
LEMMA OctetsAssociative ==
  ASSUME NEW s \in Seq(Octet), NEW t \in Seq(Octet), NEW u \in Seq(Octet)
  PROVE  (s \o t) \o u = s \o (t \o u)
BY ConcatAssociative

(* What is assumed of the beacons, and of the sizes their elements have.   *)
LEMMA BeaconsAnnounce ==
  /\ \A b \in Beacons : Announced(b)
  /\ MaxLinks \in Nat /\ MaxLinks <= 50 /\ MaxHopping \in Nat /\ MaxHopping < 256 /\ TimeElements = 12
<1>1. ASSUME NEW b \in Beacons PROVE Announced(b)
  BY ElementsAssumption DEF Announced
<1>2. MaxLinks \in 0..50 /\ MaxHopping \in 0..255 /\ TimeElements = 12
  BY ElementsAssumption DEF Octet
<1> QED BY <1>1, <1>2

(* The ASN and the join priority                                           *)
SyncOf(b) == [ie |-> "sync", asn |-> b.asn, priority |-> b.priority]

(* The ASN and the join priority are read back.                            *)
LEMMA SyncSub ==
  ASSUME NEW b, Announced(b)
  PROVE  Sub(ie_tsch_synchronization(b.asn, b.priority), SyncOf(b))
<1>1. PICK asn \in Seq(Octet), last \in Seq(Octet) :
        asn = b.asn /\ Len(asn) = 5 /\ last = <<b.priority>> /\ Len(last) = 1
  <2>1. <<b.priority>> \in Seq(Octet) /\ Len(<<b.priority>>) = 1
    BY DEF Announced
  <2> QED BY <2>1, Zenon DEF Announced
<1>2. PICK content \in Seq(Octet) : content = asn \o last /\ Len(content) = 6
  <2>1. PICK s \in Seq(Octet) : s = asn \o last /\ Len(s) = Len(asn) + Len(last)
    BY Together
  <2>2. Len(s) = 6
    BY <1>1, <2>1
  <2> QED BY <2>1, <2>2, Zenon
<1>3. ASSUME NEW buf \in Seq(Octet), NEW at \in Nat, Holds(buf, at, content)
      PROVE  parse_mlme_short_ie(buf, at, 6, 26) = Ok(SyncOf(b))
  <2>1. Holds(buf, at, asn) /\ Holds(buf, at + 5, last)
    BY <1>1, <1>2, <1>3, HoldsBoth
  <2>2. Octets(buf, at, 5) = b.asn
    BY <1>1, <2>1, OctetsHeld
  <2>3. buf[at + 6] = b.priority
    <3>1. buf[at + 5 + 1] = b.priority
      BY <1>1, <2>1, OneHeld
    <3>2. at + 5 + 1 = at + 6
      OBVIOUS
    <3> QED BY <3>1, <3>2
  <2>4. parse_mlme_short_ie(buf, at, 6, 26)
          = Ok([ie |-> "sync", asn |-> Octets(buf, at, 5), priority |-> buf[at + 6]])
    BY DEF parse_mlme_short_ie, TSCH_SLOTFRAME_AND_LINK, TSCH_SYNCHRONIZATION, TSCH_TIMESLOT
  <2> QED BY <2>2, <2>3, <2>4 DEF SyncOf
<1>4. 6 \in Octet
  BY DEF Octet
<1>5. Sub(mlme_short_ie_descriptor(26, 6) \o content, SyncOf(b))
  BY <1>2, <1>3, <1>4, ShortSub
<1>6. PICK d \in Seq(Octet) : d = mlme_short_ie_descriptor(26, 6)
  BY <1>4, NestedDescriptors, WordWritten
<1>7. d \o content = (d \o asn) \o last
  <2>1. (d \o asn) \o last = d \o (asn \o last)
    BY OctetsAssociative
  <2> QED BY <1>2, <2>1
<1>8. ie_tsch_synchronization(b.asn, b.priority) = (d \o asn) \o last
  BY <1>1, <1>6, Zenon DEF ie_tsch_synchronization, TSCH_SYNCHRONIZATION
<1> QED BY <1>5, <1>6, <1>7, <1>8, Zenon

(* A number of sixteen bits is its two octets.                             *)
LEMMA WordOctets ==
  ASSUME NEW v \in Word
  PROVE  /\ (v % 256) + 256 * ((v \div 256) % 256) = v
         /\ v % 256 \in Octet /\ (v \div 256) % 256 \in Octet
<1>1. (v % 256) + 256 * ((v \div 256) % 256) = v
  BY DEF Word
<1>2. v % 256 \in Octet /\ (v \div 256) % 256 \in Octet
  BY SMT DEF Word, Octet
<1> QED BY <1>1, <1>2

(* The octets of the timing                                                *)
TimingOctets(timing) == [i \in 1 .. 2 * 12 |-> WRITE16(timing[(i + 1) \div 2])[2 - (i % 2)]]

(* The octets of the timing are those of its words, one after the other.   *)
LEMMA TimingWritten ==
  ASSUME NEW timing \in [1 .. 12 -> Word]
  PROVE  /\ TimingOctets(timing) \in Seq(Octet) /\ Len(TimingOctets(timing)) = 24
         /\ \A i \in 1 .. 12 : /\ TimingOctets(timing)[2 * i - 1] = timing[i] % 256
                               /\ TimingOctets(timing)[2 * i] = (timing[i] \div 256) % 256
<1>1. \A v : WRITE16(v)[1] = v % 256 /\ WRITE16(v)[2] = (v \div 256) % 256
  BY DEF WRITE16
<1>2. PICK t : t = TimingOctets(timing) /\ t = [i \in 1 .. 24 |-> WRITE16(timing[(i + 1) \div 2])[2 - (i % 2)]]
  <2>1. 2 * 12 = 24
    OBVIOUS
  <2> QED BY <2>1 DEF TimingOctets
<1>3. ASSUME NEW i \in 1 .. 12 PROVE t[2 * i - 1] = timing[i] % 256 /\ t[2 * i] = (timing[i] \div 256) % 256
  <2>1. /\ 2 * i - 1 \in 1 .. 24 /\ ((2 * i - 1) + 1) \div 2 = i /\ 2 - ((2 * i - 1) % 2) = 1
        /\ 2 * i \in 1 .. 24 /\ (2 * i + 1) \div 2 = i /\ 2 - ((2 * i) % 2) = 2
    OBVIOUS
  <2>2. t[2 * i - 1] = WRITE16(timing[i])[1] /\ t[2 * i] = WRITE16(timing[i])[2]
    BY <1>2, <2>1
  <2> QED BY <1>1, <2>2
<1>4. ASSUME NEW j \in 1 .. 24 PROVE t[j] \in Octet
  <2>1. PICK i \in 1 .. 12 : j = 2 * i - 1 \/ j = 2 * i
    <3>1. (j + 1) \div 2 \in 1 .. 12 /\ (j = 2 * ((j + 1) \div 2) - 1 \/ j = 2 * ((j + 1) \div 2))
      OBVIOUS
    <3> QED BY <3>1
  <2>2. PICK v \in Word : v = timing[i]
    OBVIOUS
  <2>3. v % 256 \in Octet /\ (v \div 256) % 256 \in Octet
    BY SMT DEF Word, Octet
  <2> QED BY <1>3, <2>1, <2>2, <2>3
<1>5. t \in [1 .. 24 -> Octet]
  BY <1>2, <1>4
<1>6. t \in Seq(Octet) /\ Len(t) = 24
  <2>1. t \in Seq(Octet)
    <3>1. t = [i \in 1 .. 24 |-> t[i]] /\ 24 \in Nat
      BY <1>2
    <3> QED BY <1>4, <3>1
  <2>2. DOMAIN t = 1 .. 24 /\ DOMAIN t = 1 .. Len(t) /\ Len(t) \in Nat
    BY <1>5, <2>1, LenProperties
  <2> QED BY <2>1, <2>2
<1> QED BY <1>2, <1>3, <1>6

(* The timing of the slots                                                 *)
TimeslotRead(b, e) ==
  e.ie = "timeslot" /\ e.id = b.timeslot /\ (b.timeslot # 0 => e.timing = b.timing)

(* The timing of the slots is read back.                                   *)
LEMMA TimeslotSub ==
  ASSUME NEW b, Announced(b)
  PROVE  \E e : TimeslotRead(b, e) /\ Sub(ie_tsch_timeslot(b.timeslot, b.timing), e)
<1>1. CASE b.timeslot = 0
  <2>1. PICK content \in Seq(Octet) : content = <<0>> /\ Len(content) = 1
    <3>1. <<0>> \in Seq(Octet) /\ Len(<<0>>) = 1
      BY DEF Octet
    <3> QED BY <3>1, Zenon
  <2>2. PICK none : none = [i \in 1 .. 0 |-> 0]
    OBVIOUS
  <2>3. PICK e : e = [ie |-> "timeslot", id |-> 0, timing |-> none]
    OBVIOUS
  <2>4. ASSUME NEW buf \in Seq(Octet), NEW at \in Nat, Holds(buf, at, content)
        PROVE  parse_mlme_short_ie(buf, at, 1, 28) = Ok(e)
    <3>1. buf[at + 1] = 0
      BY <2>1, <2>4, OneHeld
    <3>2. [i \in 1 .. 0 |-> READ16(buf, at + 2 * i - 1)] = none
      BY <2>2
    <3>3. parse_mlme_short_ie(buf, at, 1, 28)
            = Ok([ie |-> "timeslot", id |-> buf[at + 1], timing |-> [i \in 1 .. 0 |-> READ16(buf, at + 2 * i - 1)]])
      BY DEF parse_mlme_short_ie, TSCH_SLOTFRAME_AND_LINK, TSCH_SYNCHRONIZATION, TSCH_TIMESLOT
    <3> QED BY <2>3, <3>1, <3>2, <3>3
  <2>5. 1 \in Octet
    BY DEF Octet
  <2>6. Sub(mlme_short_ie_descriptor(28, 1) \o content, e)
    BY <2>1, <2>4, <2>5, ShortSub
  <2>7. ie_tsch_timeslot(b.timeslot, b.timing) = mlme_short_ie_descriptor(28, 1) \o content
    BY <1>1, <2>1 DEF ie_tsch_timeslot, TSCH_TIMESLOT
  <2> QED BY <1>1, <2>3, <2>6, <2>7 DEF TimeslotRead
<1>2. CASE b.timeslot # 0
  <2>1. PICK one \in Seq(Octet), id \in Octet : id = b.timeslot /\ one = <<id>> /\ Len(one) = 1
    <3>1. b.timeslot \in Octet
      BY DEF Announced
    <3>2. <<b.timeslot>> \in Seq(Octet) /\ Len(<<b.timeslot>>) = 1
      BY <3>1
    <3> QED BY <3>1, <3>2, Zenon
  <2>2. PICK timing \in [1 .. 12 -> Word] : timing = b.timing
    BY DEF Announced
  <2>3. PICK t \in Seq(Octet) :
          /\ t = TimingOctets(timing) /\ Len(t) = 24
          /\ \A i \in 1 .. 12 : t[2 * i - 1] = timing[i] % 256 /\ t[2 * i] = (timing[i] \div 256) % 256
    <3>1. /\ TimingOctets(timing) \in Seq(Octet) /\ Len(TimingOctets(timing)) = 24
          /\ \A i \in 1 .. 12 : /\ TimingOctets(timing)[2 * i - 1] = timing[i] % 256
                                /\ TimingOctets(timing)[2 * i] = (timing[i] \div 256) % 256
      BY <2>2, TimingWritten, ZenonT(60)
    <3> QED BY <3>1, ZenonT(60)
  <2>4. PICK content \in Seq(Octet) : content = one \o t /\ Len(content) = 25
    <3>1. PICK s \in Seq(Octet) : s = one \o t /\ Len(s) = Len(one) + Len(t)
      BY Together
    <3>2. Len(s) = 25
      BY <2>1, <2>3, <3>1
    <3> QED BY <3>1, <3>2, Zenon
  <2>5. PICK e : e = [ie |-> "timeslot", id |-> id, timing |-> timing]
    OBVIOUS
  <2>6. ASSUME NEW buf \in Seq(Octet), NEW at \in Nat, Holds(buf, at, content)
        PROVE  parse_mlme_short_ie(buf, at, 25, 28) = Ok(e)
    <3>1. Holds(buf, at, one) /\ Holds(buf, at + 1, t)
      BY <2>1, <2>4, <2>6, HoldsBoth
    <3>2. buf[at + 1] = id
      BY <2>1, <3>1, OneHeld
    <3>3. \A j \in 1 .. 24 : buf[at + 1 + j] = t[j]
      BY <2>3, <3>1 DEF Holds
    <3>4. ASSUME NEW i \in 1 .. 12 PROVE READ16(buf, at + 2 * i - 1) = timing[i]
      <4>1. PICK m \in Nat : m = at + 2 * i - 1 /\ 2 * i - 1 \in 1 .. 24 /\ 2 * i \in 1 .. 24
        OBVIOUS
      <4>2. m + 1 = at + 1 + (2 * i - 1) /\ m + 2 = at + 1 + 2 * i
        BY <4>1
      <4>6. buf[at + 1 + (2 * i - 1)] = t[2 * i - 1] /\ buf[at + 1 + 2 * i] = t[2 * i]
        BY <3>3, <4>1
      <4>3. buf[m + 1] = timing[i] % 256 /\ buf[m + 2] = (timing[i] \div 256) % 256
        BY <2>3, <4>2, <4>6
      <4>4. timing[i] \in Word
        BY <2>2
      <4> QED BY <4>1, <4>3, <4>4, WordOctets DEF READ16
    <3>5. [i \in 1 .. 12 |-> READ16(buf, at + 2 * i - 1)] = timing
      BY <3>4
    <3>6. parse_mlme_short_ie(buf, at, 25, 28)
            = Ok([ie |-> "timeslot", id |-> buf[at + 1],
                  timing |-> [i \in 1 .. 12 |-> READ16(buf, at + 2 * i - 1)]])
      BY BeaconsAnnounce DEF parse_mlme_short_ie, TSCH_SLOTFRAME_AND_LINK, TSCH_SYNCHRONIZATION, TSCH_TIMESLOT
    <3> QED BY <2>5, <3>2, <3>5, <3>6
  <2>7. 25 \in Octet
    BY DEF Octet
  <2>8. Sub(mlme_short_ie_descriptor(28, 25) \o content, e)
    BY <2>4, <2>6, <2>7, ShortSub
  <2>9. PICK d \in Seq(Octet) : d = mlme_short_ie_descriptor(28, 25)
    BY <2>7, NestedDescriptors, WordWritten
  <2>10. d \o content = (d \o one) \o t
    <3>1. (d \o one) \o t = d \o (one \o t)
      BY OctetsAssociative
    <3> QED BY <2>4, <3>1
  <2>11. ie_tsch_timeslot(b.timeslot, b.timing) = (d \o one) \o t
    <3>1. t = [i \in 1 .. 2 * TimeElements |-> WRITE16(timing[(i + 1) \div 2])[2 - (i % 2)]]
      BY <2>3, BeaconsAnnounce, Zenon DEF TimingOctets
    <3>2. ie_tsch_timeslot(b.timeslot, b.timing)
            = mlme_short_ie_descriptor(28, 25) \o <<b.timeslot>>
              \o [i \in 1 .. 2 * TimeElements |-> WRITE16(b.timing[(i + 1) \div 2])[2 - (i % 2)]]
      BY <1>2, Zenon DEF ie_tsch_timeslot, TSCH_TIMESLOT
    <3> QED BY <2>1, <2>2, <2>9, <3>1, <3>2, Zenon
  <2>12. TimeslotRead(b, e)
    BY <2>1, <2>2, <2>5 DEF TimeslotRead
  <2> QED BY <2>8, <2>9, <2>10, <2>11, <2>12, Zenon
<1> QED BY <1>1, <1>2

(* Three strings, and five, strung together from the front or from the back *)
InRow(s, t, u) == (s \o t) \o u = s \o (t \o u)
FiveInRow(d, s, t, u, v) == d \o (((s \o t) \o u) \o v) = (((d \o s) \o t) \o u) \o v

(* Three strings come to the same from either end.                         *)
LEMMA RowOfThree ==
  ASSUME NEW s \in Seq(Octet), NEW t \in Seq(Octet), NEW u \in Seq(Octet)
  PROVE  InRow(s, t, u)
BY OctetsAssociative DEF InRow

(* So do five.                                                             *)
LEMMA RowOfFive ==
  ASSUME NEW d \in Seq(Octet), NEW s \in Seq(Octet), NEW t \in Seq(Octet), NEW u \in Seq(Octet),
         NEW v \in Seq(Octet)
  PROVE  FiveInRow(d, s, t, u, v)
<1>1. PICK st \in Seq(Octet) : st = s \o t
  BY Together
<1>2. PICK stu \in Seq(Octet) : stu = st \o u
  BY Together
<1>3. InRow(d, stu, v) /\ InRow(d, st, u) /\ InRow(d, s, t)
  BY RowOfThree
<1>4. (d \o stu) \o v = d \o (stu \o v) /\ (d \o st) \o u = d \o (st \o u) /\ (d \o s) \o t = d \o (s \o t)
  BY <1>3, Zenon DEF InRow
<1>5. d \o (((s \o t) \o u) \o v) = (((d \o s) \o t) \o u) \o v
  BY <1>1, <1>2, <1>4, Zenon
<1> QED BY <1>5, Zenon DEF FiveInRow

(* The hopping sequence                                                    *)
HoppingRead(b, e) ==
  e.ie = "hopping" /\ e.id = b.hopping /\ (b.hopping # 0 => e.list = b.list)

(* The hopping sequence is read back.                                      *)
LEMMA HoppingSub ==
  ASSUME NEW b, Announced(b), NEW s \in ie_tsch_channel_hopping_sequence(b.hopping, b.list)
  PROVE  \E e : HoppingRead(b, e) /\ Sub(s, e)
<1>1. PICK list \in Seq(Octet), n \in Nat : list = b.list /\ n = Len(list) /\ n <= MaxHopping /\ n < 256
  <2>1. b.list \in Seq(Octet) /\ Len(b.list) \in Nat
    BY LenProperties DEF Announced
  <2>2. ~ (Len(b.list) > MaxHopping)
    BY DEF ie_tsch_channel_hopping_sequence, Fail
  <2>3. Len(b.list) <= MaxHopping /\ Len(b.list) < 256
    BY <2>1, <2>2, BeaconsAnnounce
  <2> QED BY <2>1, <2>3
<1>2. CASE b.hopping = 0
  <2>1. PICK content \in Seq(Octet) : content = <<0>> /\ Len(content) = 1
    <3>1. <<0>> \in Seq(Octet) /\ Len(<<0>>) = 1
      BY DEF Octet
    <3> QED BY <3>1, Zenon
  <2>2. s = mlme_long_ie_descriptor(9, 1) \o content
    BY <1>1, <1>2, <2>1, BeaconsAnnounce DEF ie_tsch_channel_hopping_sequence, Ok, TSCH_CHANNEL_HOPPING_SEQUENCE
  <2>3. PICK e : e = [ie |-> "hopping", id |-> 0, list |-> <<>>]
    OBVIOUS
  <2>4. ASSUME NEW buf \in Seq(Octet), NEW at \in Nat, Holds(buf, at, content)
        PROVE  parse_mlme_long_ie(buf, at, 1, 9) = Ok(e)
    <3>1. buf[at + 1] = 0
      BY <2>1, <2>4, OneHeld
    <3>2. ~ (1 > 1) /\ 1 > 0 /\ 1 # 12 + 0
      OBVIOUS
    <3>3. parse_mlme_long_ie(buf, at, 1, 9) = Ok([ie |-> "hopping", id |-> buf[at + 1], list |-> <<>>])
      BY <3>2, SMT DEF parse_mlme_long_ie, TSCH_CHANNEL_HOPPING_SEQUENCE
    <3> QED BY <2>3, <3>1, <3>3
  <2>5. Sub(mlme_long_ie_descriptor(9, 1) \o content, e)
    <3>1. PICK len \in {m \in Nat : m < 290} : len = 1
      OBVIOUS
    <3>2. \A buf \in Seq(Octet), at \in Nat : Holds(buf, at, content) => parse_mlme_long_ie(buf, at, len, 9) = Ok(e)
      BY <2>4, <3>1, Zenon
    <3>3. Len(content) = len
      BY <2>1, <3>1, Zenon
    <3>4. Sub(mlme_long_ie_descriptor(9, len) \o content, e)
      BY <3>2, <3>3, LongSub
    <3> QED BY <3>1, <3>4, Zenon
  <2>6. HoppingRead(b, e)
    BY <1>2, <2>3 DEF HoppingRead
  <2> QED BY <2>2, <2>5, <2>6
<1>3. CASE b.hopping # 0
  <2>1. PICK one \in Seq(Octet) : one = <<b.hopping, 0, 0, 0, 0, 0, 0, 0>> /\ Len(one) = 8 /\ one[1] = b.hopping
    <3>1. b.hopping \in Octet /\ 0 \in Octet
      BY DEF Announced, Octet
    <3>2. /\ <<b.hopping, 0, 0, 0, 0, 0, 0, 0>> \in Seq(Octet) /\ Len(<<b.hopping, 0, 0, 0, 0, 0, 0, 0>>) = 8
          /\ <<b.hopping, 0, 0, 0, 0, 0, 0, 0>>[1] = b.hopping
      BY <3>1
    <3> QED BY <3>2, Zenon
  <2>2. n \in Word /\ 0 \in Word
    BY <1>1, SMT DEF Word
  <2>3. PICK count \in Seq(Octet), fin \in Seq(Octet) :
          count = WRITE16(n) /\ Len(count) = 2 /\ fin = WRITE16(0) /\ Len(fin) = 2
    BY <2>2, WordWritten
  <2>4. PICK a \in Seq(Octet) : a = one \o count /\ Len(a) = 10
    <3>1. PICK u \in Seq(Octet) : u = one \o count /\ Len(u) = Len(one) + Len(count)
      BY Together
    <3>2. Len(u) = 10
      BY <2>1, <2>3, <3>1
    <3> QED BY <3>1, <3>2, Zenon
  <2>5. PICK c \in Seq(Octet) : c = a \o list /\ Len(c) = 10 + n
    <3>1. PICK u \in Seq(Octet) : u = a \o list /\ Len(u) = Len(a) + Len(list)
      BY Together
    <3>2. Len(u) = 10 + n
      <4>1. Len(list) = n /\ Len(a) = 10
        BY <1>1, <2>4, Zenon
      <4>2. Len(u) = Len(a) + Len(list)
        BY <3>1, Zenon
      <4> QED BY <4>1, <4>2
    <3> QED BY <3>1, <3>2, Zenon
  <2>6. PICK content \in Seq(Octet) : content = c \o fin /\ Len(content) = 12 + n
    <3>1. PICK u \in Seq(Octet) : u = c \o fin /\ Len(u) = Len(c) + Len(fin)
      BY Together
    <3>2. Len(u) = 12 + n
      <4>1. Len(fin) = 2 /\ Len(c) = 10 + n
        BY <2>3, <2>5, Zenon
      <4>2. Len(u) = Len(c) + Len(fin)
        BY <3>1, Zenon
      <4> QED BY <4>1, <4>2
    <3> QED BY <3>1, <3>2, Zenon
  <2>7. PICK e : e = [ie |-> "hopping", id |-> b.hopping, list |-> list]
    OBVIOUS
  <2>8. ASSUME NEW buf \in Seq(Octet), NEW at \in Nat, Holds(buf, at, content)
        PROVE  parse_mlme_long_ie(buf, at, 12 + n, 9) = Ok(e)
    <3>1. Holds(buf, at, c)
      BY <2>6, <2>8, HoldsBoth
    <3>2. Holds(buf, at, a) /\ Holds(buf, at + Len(a), list)
      BY <2>5, <3>1, HoldsBoth
    <3>3. Holds(buf, at, one) /\ Holds(buf, at + Len(one), count)
      BY <2>4, <3>2, HoldsBoth
    <3>4. PICK p \in Nat, q \in Nat : p = at + 10 /\ q = at + 8 /\ Holds(buf, p, list) /\ Holds(buf, q, count)
      BY <2>1, <2>4, <3>2, <3>3, SMTT(30)
    <3>5. READ16(buf, q) = n
      BY <2>2, <2>3, <3>4, Read16Held
    <3>6. Octets(buf, p, n) = list
      BY <1>1, <3>4, OctetsHeld
    <3>7. buf[at + 1] = b.hopping
      <4>1. 1 \in 1 .. Len(one)
        BY <2>1
      <4>2. buf[at + 1] = one[1]
        BY <3>3, <4>1 DEF Holds
      <4> QED BY <2>1, <4>2
    <3>8. parse_mlme_long_ie(buf, at, 12 + n, 9) = Ok([ie |-> "hopping", id |-> buf[at + 1], list |-> Octets(buf, p, n)])
      <4>1. 12 + n > 0 /\ 12 + n > 1 /\ n <= MaxHopping
        BY <1>1
      <4> QED BY <3>4, <3>5, <4>1, SMT DEF parse_mlme_long_ie, TSCH_CHANNEL_HOPPING_SEQUENCE
    <3> QED BY <2>7, <3>6, <3>7, <3>8
  <2>9. PICK len \in {m \in Nat : m < 290} : len = 12 + n
    BY <1>1
  <2>10. Sub(mlme_long_ie_descriptor(9, len) \o content, e)
    BY <2>6, <2>8, <2>9, LongSub
  <2>11. PICK d \in Seq(Octet) : d = mlme_long_ie_descriptor(9, len)
    <3>1. len \in {m \in Nat : m < 2048}
      BY <2>9, SMT
    <3> QED BY <3>1, NestedDescriptors, WordWritten
  <2>12. d \o content = (((d \o one) \o count) \o list) \o fin
    <3>1. d \in Seq(Octet) /\ one \in Seq(Octet) /\ count \in Seq(Octet) /\ list \in Seq(Octet) /\ fin \in Seq(Octet)
      OBVIOUS
    <3>2. FiveInRow(d, one, count, list, fin)
      BY <3>1, RowOfFive
    <3> QED BY <2>4, <2>5, <2>6, <3>2, Zenon DEF FiveInRow
  <2>13. s = (((d \o one) \o count) \o list) \o fin
    <3>1. s \in Ok(mlme_long_ie_descriptor(9, 12 + Len(b.list))
                   \o <<b.hopping, 0, 0, 0, 0, 0, 0, 0>> \o WRITE16(Len(b.list)) \o b.list \o WRITE16(0))
      BY <1>1, <1>3, BeaconsAnnounce DEF ie_tsch_channel_hopping_sequence, TSCH_CHANNEL_HOPPING_SEQUENCE
    <3> QED BY <1>1, <2>1, <2>3, <2>9, <2>11, <3>1, Zenon DEF Ok
  <2>14. HoppingRead(b, e)
    BY <1>1, <2>7 DEF HoppingRead
  <2> QED BY <2>10, <2>11, <2>12, <2>13, <2>14, Zenon
<1> QED BY <1>2, <1>3

(* The octets of a link                                                    *)
LEMMA LinkWritten ==
  ASSUME NEW l \in Link
  PROVE  \E s \in Seq(Octet) :
           /\ s = WRITE16(l.timeslot) \o WRITE16(l.channel_offset) \o <<l.options>> /\ Len(s) = 5
           /\ s[1] = l.timeslot % 256 /\ s[2] = (l.timeslot \div 256) % 256
           /\ s[3] = l.channel_offset % 256 /\ s[4] = (l.channel_offset \div 256) % 256
           /\ s[5] = l.options
<1>1. l.timeslot \in Word /\ l.channel_offset \in Word /\ l.options \in Octet
  BY DEF Link
<1>2. PICK t \in Seq(Octet), c \in Seq(Octet) :
        t = WRITE16(l.timeslot) /\ Len(t) = 2 /\ c = WRITE16(l.channel_offset) /\ Len(c) = 2
  BY <1>1, WordWritten
<1>3. t[1] = l.timeslot % 256 /\ t[2] = (l.timeslot \div 256) % 256
  BY <1>2 DEF WRITE16
<1>4. c[1] = l.channel_offset % 256 /\ c[2] = (l.channel_offset \div 256) % 256
  BY <1>2 DEF WRITE16
<1>5. PICK o \in Seq(Octet) : o = <<l.options>> /\ Len(o) = 1 /\ o[1] = l.options
  <2>1. <<l.options>> \in Seq(Octet) /\ Len(<<l.options>>) = 1 /\ <<l.options>>[1] = l.options
    BY <1>1
  <2> QED BY <2>1, Zenon
<1>6. PICK a \in Seq(Octet) : a = t \o c /\ Len(a) = Len(t) + Len(c) /\ Holds(a, 0, t) /\ Holds(a, Len(t), c)
  BY Together
<1>7. PICK s \in Seq(Octet) : s = a \o o /\ Len(s) = Len(a) + Len(o) /\ Holds(s, 0, a) /\ Holds(s, Len(a), o)
  BY Together
<1>8. Len(a) = 4 /\ Len(s) = 5
  BY <1>2, <1>5, <1>6, <1>7
<1>9. \A i \in 1 .. 4 : s[0 + i] = a[i]
  BY <1>7, <1>8 DEF Holds
<1>10. s[1] = a[1] /\ s[2] = a[2] /\ s[3] = a[3] /\ s[4] = a[4]
  <2>1. s[0 + 1] = a[1] /\ s[0 + 2] = a[2] /\ s[0 + 3] = a[3] /\ s[0 + 4] = a[4]
    BY <1>9
  <2> QED BY <2>1
<1>11. a[0 + 1] = t[1] /\ a[0 + 2] = t[2] /\ a[2 + 1] = c[1] /\ a[2 + 2] = c[2]
  BY <1>2, <1>6 DEF Holds
<1>12. s[4 + 1] = o[1]
  BY <1>5, <1>7, <1>8 DEF Holds
<1>13. s[1] = t[1] /\ s[2] = t[2] /\ s[3] = c[1] /\ s[4] = c[2] /\ s[5] = o[1]
  BY <1>10, <1>11, <1>12
<1>14. s = WRITE16(l.timeslot) \o WRITE16(l.channel_offset) \o <<l.options>>
  <2>1. a = WRITE16(l.timeslot) \o WRITE16(l.channel_offset)
    <3>1. t = WRITE16(l.timeslot) /\ c = WRITE16(l.channel_offset) /\ a = t \o c
      BY <1>2, <1>6, Zenon
    <3> QED BY <3>1
  <2>2. o = <<l.options>> /\ s = a \o o
    BY <1>5, <1>7, Zenon
  <2> QED BY <2>1, <2>2
<1>15. /\ s[1] = l.timeslot % 256 /\ s[2] = (l.timeslot \div 256) % 256
       /\ s[3] = l.channel_offset % 256 /\ s[4] = (l.channel_offset \div 256) % 256
       /\ s[5] = l.options
  BY <1>3, <1>4, <1>5, <1>13, ZenonT(60)
<1>16. s \in Seq(Octet) /\ Len(s) = 5
  BY <1>7, <1>8
<1> QED BY <1>14, <1>15, <1>16, Zenon

(* and of all links                                                        *)
LinkAt(o, at, l) ==
  /\ o[at + 1] = l.timeslot % 256 /\ o[at + 2] = (l.timeslot \div 256) % 256
  /\ o[at + 3] = l.channel_offset % 256 /\ o[at + 4] = (l.channel_offset \div 256) % 256
  /\ o[at + 5] = l.options

(* The octets of the links are those of each link, one after the other.    *)
LEMMA LinksWritten ==
  ASSUME NEW links \in Seq(Link), NEW k \in Nat, k = Len(links)
  PROVE  /\ LinkOctets(links) \in Seq(Octet) /\ Len(LinkOctets(links)) = 5 * k
         /\ \A i \in 1 .. k : LinkAt(LinkOctets(links), 5 * (i - 1), links[i])
<1>1. PICK n \in Nat : n = 5 * k
  OBVIOUS
<1> DEFINE Five(l) == WRITE16(l.timeslot) \o WRITE16(l.channel_offset) \o <<l.options>>
<1>2. PICK o : o = LinkOctets(links) /\ o = [j \in 1 .. n |-> Five(links[1 + (j - 1) \div 5])[1 + ((j - 1) % 5)]]
  BY <1>1 DEF LinkOctets
<1>3. \A i \in 1 .. k : links[i] \in Link
  BY ElementOfSeq
<1>4. ASSUME NEW i \in 1 .. k, NEW r \in 1 .. 5
      PROVE  5 * (i - 1) + r \in 1 .. n /\ o[5 * (i - 1) + r] = Five(links[i])[r]
  <2>1. PICK j \in Nat : j = 5 * (i - 1) + r
    OBVIOUS
  <2>2. j \in 1 .. n
    BY <1>1, <2>1
  <2>3. 1 + (j - 1) \div 5 = i /\ 1 + ((j - 1) % 5) = r
    BY <2>1
  <2>4. o[j] = Five(links[1 + (j - 1) \div 5])[1 + ((j - 1) % 5)]
    BY <1>2, <2>2, Zenon
  <2> QED BY <2>1, <2>2, <2>3, <2>4, Zenon
<1>5. ASSUME NEW i \in 1 .. k
      PROVE  LinkAt(o, 5 * (i - 1), links[i]) /\ \A r \in 1 .. 5 : o[5 * (i - 1) + r] \in Octet
  <2>1. PICK s \in Seq(Octet) :
           /\ s = Five(links[i]) /\ Len(s) = 5
           /\ s[1] = links[i].timeslot % 256 /\ s[2] = (links[i].timeslot \div 256) % 256
           /\ s[3] = links[i].channel_offset % 256 /\ s[4] = (links[i].channel_offset \div 256) % 256
           /\ s[5] = links[i].options
    BY <1>3, LinkWritten
  <2> HIDE DEF Five
  <2>2. ASSUME NEW r \in 1 .. 5 PROVE o[5 * (i - 1) + r] = s[r] /\ s[r] \in Octet
    <3>1. r \in 1 .. Len(s)
      BY <2>1
    <3> QED BY <1>4, <2>1, <3>1, ElementOfSeq, ZenonT(60)
  <2>3. \A r \in 1 .. 5 : o[5 * (i - 1) + r] \in Octet
    BY <2>2
  <2>4. /\ o[5 * (i - 1) + 1] = s[1] /\ o[5 * (i - 1) + 2] = s[2] /\ o[5 * (i - 1) + 3] = s[3]
        /\ o[5 * (i - 1) + 4] = s[4] /\ o[5 * (i - 1) + 5] = s[5]
    BY <2>2
  <2>5. LinkAt(o, 5 * (i - 1), links[i])
    BY <2>1, <2>4 DEF LinkAt
  <2> QED BY <2>3, <2>5
<1> HIDE DEF Five
<1>6. ASSUME NEW j \in 1 .. n PROVE o[j] \in Octet
  <2>1. PICK i \in 1 .. k, r \in 1 .. 5 : j = 5 * (i - 1) + r
    <3>1. /\ 1 + (j - 1) \div 5 \in 1 .. k /\ 1 + ((j - 1) % 5) \in 1 .. 5
          /\ j = 5 * ((1 + (j - 1) \div 5) - 1) + (1 + ((j - 1) % 5))
      BY <1>1
    <3> QED BY <3>1
  <2> QED BY <1>5, <2>1
<1>7. o \in Seq(Octet) /\ Len(o) = n
  <2>1. o = [j \in 1 .. n |-> o[j]]
    BY <1>2
  <2>2. o \in Seq(Octet)
    BY <1>6, <2>1
  <2>3. DOMAIN o = 1 .. n /\ DOMAIN o = 1 .. Len(o) /\ Len(o) \in Nat
    BY <2>1, <2>2, LenProperties
  <2> QED BY <2>2, <2>3
<1> QED BY <1>1, <1>2, <1>5, <1>7

(* The links are read back from behind the head of the element.            *)
LEMMA LinksRead ==
  ASSUME NEW links \in Seq(Link), NEW k \in Nat, k = Len(links), NEW buf \in Seq(Octet), NEW at \in Nat,
         Holds(buf, at + 5, LinkOctets(links))
  PROVE  [i \in 1 .. k |-> [timeslot |-> READ16(buf, at + 5 * i), options |-> buf[at + 5 * i + 5],
                            channel_offset |-> READ16(buf, at + 5 * i + 2)]] = links
<1>1. PICK o : /\ o = LinkOctets(links) /\ Len(o) = 5 * k
               /\ \A i \in 1 .. k : LinkAt(o, 5 * (i - 1), links[i])
  BY LinksWritten
<1>2. PICK n \in Nat : n = 5 * k
  OBVIOUS
<1>3. \A j \in 1 .. n : buf[at + 5 + j] = o[j]
  BY <1>1, <1>2 DEF Holds
<1>4. ASSUME NEW i \in 1 .. k
      PROVE  [timeslot |-> READ16(buf, at + 5 * i), options |-> buf[at + 5 * i + 5],
              channel_offset |-> READ16(buf, at + 5 * i + 2)] = links[i]
  <2>1. PICK p \in Nat, q \in Nat : p = 5 * (i - 1) /\ q = 5 * i
    OBVIOUS
  <2>2. q = p + 5 /\ p + 5 <= n
    BY <1>2, <2>1
  <2>3. p + 1 \in 1 .. n /\ p + 2 \in 1 .. n /\ p + 3 \in 1 .. n /\ p + 4 \in 1 .. n /\ p + 5 \in 1 .. n
    BY <2>2
  <2>4. /\ buf[at + 5 + (p + 1)] = o[p + 1] /\ buf[at + 5 + (p + 2)] = o[p + 2]
        /\ buf[at + 5 + (p + 3)] = o[p + 3] /\ buf[at + 5 + (p + 4)] = o[p + 4]
        /\ buf[at + 5 + (p + 5)] = o[p + 5]
    BY <1>3, <2>3
  <2>5. /\ at + 5 + (p + 1) = at + q + 1 /\ at + 5 + (p + 2) = at + q + 2 /\ at + 5 + (p + 3) = at + q + 2 + 1
        /\ at + 5 + (p + 4) = at + q + 2 + 2 /\ at + 5 + (p + 5) = at + q + 5
    BY <2>2
  <2>6. PICK l \in Link : l = links[i]
    BY ElementOfSeq
  <2>7. LinkAt(o, p, l)
    BY <1>1, <2>1, <2>6
  <2>8. /\ buf[at + q + 1] = l.timeslot % 256 /\ buf[at + q + 2] = (l.timeslot \div 256) % 256
        /\ buf[at + q + 2 + 1] = l.channel_offset % 256 /\ buf[at + q + 2 + 2] = (l.channel_offset \div 256) % 256
        /\ buf[at + q + 5] = l.options
    BY <2>4, <2>5, <2>7 DEF LinkAt
  <2>9. l.timeslot \in Word /\ l.channel_offset \in Word /\ l = [timeslot |-> l.timeslot, channel_offset |-> l.channel_offset, options |-> l.options]
    BY DEF Link
  <2>10. READ16(buf, at + q) = l.timeslot
    <3>1. (l.timeslot % 256) + 256 * ((l.timeslot \div 256) % 256) = l.timeslot
      BY <2>9, WordOctets
    <3> QED BY <2>8, <3>1, Zenon DEF READ16
  <2>11. READ16(buf, at + q + 2) = l.channel_offset
    <3>1. (l.channel_offset % 256) + 256 * ((l.channel_offset \div 256) % 256) = l.channel_offset
      BY <2>9, WordOctets
    <3> QED BY <2>8, <3>1, Zenon DEF READ16
  <2>12. [timeslot |-> READ16(buf, at + q), options |-> buf[at + q + 5],
          channel_offset |-> READ16(buf, at + q + 2)] = l
    BY <2>8, <2>9, <2>10, <2>11
  <2> QED BY <2>1, <2>6, <2>12, Zenon
<1>5. links = [i \in 1 .. k |-> links[i]]
  BY LenProperties
<1> QED BY <1>4, <1>5

(* The slotframe                                                           *)
SlotframeRead(b, e) ==
  \/ b.slotframes = <<>> /\ e.ie = "none"
  \/ /\ Len(b.slotframes) = 1 /\ e.ie = "slotframe"
     /\ [handle |-> e.handle, size |-> e.size, links |-> e.links] = b.slotframes[1]

(* The slotframe and its links are read back.                              *)
LEMMA SlotframeSub ==
  ASSUME NEW b, Announced(b), NEW s \in ie_tsch_slotframe_and_link(b.slotframes)
  PROVE  \E e : SlotframeRead(b, e) /\ Sub(s, e)
<1>1. CASE b.slotframes = <<>>
  <2>1. PICK content \in Seq(Octet) : content = <<0>> /\ Len(content) = 1
    <3>1. <<0>> \in Seq(Octet) /\ Len(<<0>>) = 1
      BY DEF Octet
    <3> QED BY <3>1, Zenon
  <2>2. s = mlme_short_ie_descriptor(27, 1) \o content
    BY <1>1, <2>1 DEF ie_tsch_slotframe_and_link, Ok, TSCH_SLOTFRAME_AND_LINK
  <2>3. PICK e : e = [ie |-> "none"]
    OBVIOUS
  <2>4. ASSUME NEW buf \in Seq(Octet), NEW at \in Nat, Holds(buf, at, content)
        PROVE  parse_mlme_short_ie(buf, at, 1, 27) = Ok(e)
    <3>1. buf[at + 1] = 0
      BY <2>1, <2>4, OneHeld
    <3>2. parse_mlme_short_ie(buf, at, 1, 27) = parse_slotframe_and_link(buf, at, 1)
      BY DEF parse_mlme_short_ie, TSCH_SLOTFRAME_AND_LINK, TSCH_SYNCHRONIZATION, TSCH_TIMESLOT
    <3> QED BY <2>3, <3>1, <3>2 DEF parse_slotframe_and_link
  <2>5. PICK len \in Octet : len = 1
    BY DEF Octet
  <2>6. Sub(mlme_short_ie_descriptor(27, len) \o content, e)
    <3>1. \A buf \in Seq(Octet), at \in Nat : Holds(buf, at, content) => parse_mlme_short_ie(buf, at, len, 27) = Ok(e)
      BY <2>4, <2>5, Zenon
    <3>2. Len(content) = len
      BY <2>1, <2>5, Zenon
    <3> QED BY <3>1, <3>2, ShortSub
  <2> QED BY <1>1, <2>2, <2>3, <2>5, <2>6 DEF SlotframeRead
<1>2. CASE b.slotframes # <<>>
  <2>1. PICK sf \in [handle : Octet, size : Word, links : Seq(Link)] :
          sf = b.slotframes[1] /\ Len(b.slotframes) = 1
    <3>1. b.slotframes \in Seq([handle : Octet, size : Word, links : Seq(Link)])
      BY DEF Announced
    <3>2. Len(b.slotframes) \in Nat /\ Len(b.slotframes) # 0
      BY <1>2, <3>1, LenProperties, EmptySeq
    <3>3. ~ (Len(b.slotframes) > 1)
      BY <1>2 DEF ie_tsch_slotframe_and_link, Fail
    <3>6. PICK m : m = Len(b.slotframes)
      OBVIOUS
    <3>7. m \in Nat /\ m # 0 /\ ~ (m > 1)
      BY <3>2, <3>3, <3>6, Zenon
    <3>8. m = 1
      BY <3>7
    <3>4. Len(b.slotframes) = 1
      BY <3>6, <3>8
    <3>5. b.slotframes[1] \in [handle : Octet, size : Word, links : Seq(Link)]
      <4>1. 1 \in 1 .. Len(b.slotframes)
        BY <3>4
      <4>2. PICK S : S = [handle : Octet, size : Word, links : Seq(Link)]
        OBVIOUS
      <4>3. b.slotframes \in Seq(S)
        BY <3>1, <4>2, Zenon
      <4>4. b.slotframes[1] \in S
        BY <4>1, <4>3, ElementOfSeq
      <4> QED BY <4>2, <4>4, Zenon
    <3> QED BY <3>4, <3>5
  <2>2. PICK handle \in Octet, size \in Word, links \in Seq(Link) :
          handle = sf.handle /\ size = sf.size /\ links = sf.links /\ sf = [handle |-> handle, size |-> size, links |-> links]
    BY <2>1
  <2>3. PICK k \in Nat : k = Len(links) /\ k <= MaxLinks /\ k <= 50
    <3>1. Len(links) \in Nat
      BY LenProperties
    <3>2. ~ (Len(links) > MaxLinks)
      BY <1>2, <2>1, <2>2 DEF ie_tsch_slotframe_and_link, Fail
    <3>3. MaxLinks \in Nat /\ MaxLinks <= 50
      BY BeaconsAnnounce
    <3> QED BY <3>1, <3>2, <3>3
  <2>4. PICK len \in Octet, n \in Nat : len = 5 + n /\ n = 5 * k
    <3>1. PICK n \in Nat : n = 5 * k /\ n <= 250
      BY <2>3
    <3>2. 5 + n \in Octet
      BY <3>1 DEF Octet
    <3> QED BY <3>1, <3>2
  <2>5. PICK head \in Seq(Octet), count \in Seq(Octet) :
          /\ head = <<1, handle>> /\ Len(head) = 2 /\ head[1] = 1 /\ head[2] = handle
          /\ count = <<k>> /\ Len(count) = 1
    <3>1. k \in Octet /\ 1 \in Octet
      <4>1. k \in Nat /\ k <= 50
        BY <2>3
      <4> QED BY <4>1 DEF Octet
    <3>2. /\ <<1, handle>> \in Seq(Octet) /\ Len(<<1, handle>>) = 2 /\ <<1, handle>>[1] = 1 /\ <<1, handle>>[2] = handle
          /\ <<k>> \in Seq(Octet) /\ Len(<<k>>) = 1
      BY <3>1
    <3> QED BY <3>2, Zenon
  <2>6. PICK w \in Seq(Octet) : w = WRITE16(size) /\ Len(w) = 2
    BY WordWritten
  <2>7. PICK o \in Seq(Octet) : o = LinkOctets(links) /\ Len(o) = n
    <3>1. LinkOctets(links) \in Seq(Octet) /\ Len(LinkOctets(links)) = 5 * k
      BY <2>3, LinksWritten
    <3> QED BY <2>4, <3>1, Zenon
  <2>8. PICK a \in Seq(Octet) : a = head \o w /\ Len(a) = 4
    <3>1. PICK u \in Seq(Octet) : u = head \o w /\ Len(u) = Len(head) + Len(w)
      BY Together
    <3>2. Len(u) = 4
      BY <2>5, <2>6, <3>1
    <3> QED BY <3>1, <3>2, Zenon
  <2>9. PICK c \in Seq(Octet) : c = a \o count /\ Len(c) = 5
    <3>1. PICK u \in Seq(Octet) : u = a \o count /\ Len(u) = Len(a) + Len(count)
      BY Together
    <3>2. Len(u) = 5
      BY <2>5, <2>8, <3>1
    <3> QED BY <3>1, <3>2, Zenon
  <2>10. PICK content \in Seq(Octet) : content = c \o o /\ Len(content) = len
    <3>1. PICK u \in Seq(Octet) : u = c \o o /\ Len(u) = Len(c) + Len(o)
      BY Together
    <3>2. Len(c) = 5 /\ Len(o) = n
      BY <2>7, <2>9, Zenon
    <3>3. Len(u) = len
      BY <2>4, <3>1, <3>2
    <3> QED BY <3>1, <3>3, Zenon
  <2>11. PICK e : e = [ie |-> "slotframe", handle |-> handle, size |-> size, links |-> links]
    OBVIOUS
  <2>12. ASSUME NEW buf \in Seq(Octet), NEW at \in Nat, Holds(buf, at, content)
         PROVE  parse_mlme_short_ie(buf, at, len, 27) = Ok(e)
    <3>1. Holds(buf, at, c) /\ Holds(buf, at + 5, o)
      BY <2>9, <2>10, <2>12, HoldsBoth
    <3>2. Holds(buf, at, a) /\ Holds(buf, at + 4, count)
      BY <2>8, <2>9, <3>1, HoldsBoth
    <3>3. Holds(buf, at, head) /\ Holds(buf, at + 2, w)
      BY <2>5, <2>8, <3>2, HoldsBoth
    <3>4. buf[at + 1] = 1 /\ buf[at + 2] = handle
      <4>1. \A j \in 1 .. 2 : buf[at + j] = head[j]
        BY <2>5, <3>3 DEF Holds
      <4> QED BY <2>5, <4>1
    <3>5. READ16(buf, at + 2) = size
      BY <2>6, <3>3, Read16Held
    <3>6. buf[at + 5] = k
      <4>1. buf[at + 4 + 1] = k
        BY <2>5, <3>2, OneHeld
      <4>2. at + 4 + 1 = at + 5
        OBVIOUS
      <4> QED BY <4>1, <4>2
    <3>7. [i \in 1 .. k |-> [timeslot |-> READ16(buf, at + 5 * i), options |-> buf[at + 5 * i + 5],
                             channel_offset |-> READ16(buf, at + 5 * i + 2)]] = links
      BY <2>3, <2>7, <3>1, LinksRead
    <3>8. parse_mlme_short_ie(buf, at, len, 27) = parse_slotframe_and_link(buf, at, len)
      BY DEF parse_mlme_short_ie, TSCH_SLOTFRAME_AND_LINK, TSCH_SYNCHRONIZATION, TSCH_TIMESLOT
    <3>9. ~ (len < 1) /\ len = 5 + 5 * k
      BY <2>4
    <3>10. parse_slotframe_and_link(buf, at, len)
             = Ok([ie |-> "slotframe", handle |-> buf[at + 2], size |-> READ16(buf, at + 2),
                   links |-> [i \in 1 .. k |->
                     [timeslot |-> READ16(buf, at + 5 * i), options |-> buf[at + 5 * i + 5],
                      channel_offset |-> READ16(buf, at + 5 * i + 2)]]])
      <4>1. buf[at + 1] = 1 /\ ~ (buf[at + 1] = 0)
        BY <3>4
      <4> QED BY <2>3, <3>6, <3>9, <4>1, Zenon DEF parse_slotframe_and_link
    <3> QED BY <2>11, <3>4, <3>5, <3>7, <3>8, <3>10, Zenon
  <2>13. Sub(mlme_short_ie_descriptor(27, len) \o content, e)
    <3>1. \A buf \in Seq(Octet), at \in Nat : Holds(buf, at, content) => parse_mlme_short_ie(buf, at, len, 27) = Ok(e)
      BY <2>12
    <3> QED BY <2>10, <3>1, ShortSub
  <2>14. PICK d \in Seq(Octet) : d = mlme_short_ie_descriptor(27, len)
    BY NestedDescriptors, WordWritten
  <2>15. d \o content = (((d \o head) \o w) \o count) \o o
    <3>1. d \in Seq(Octet) /\ head \in Seq(Octet) /\ w \in Seq(Octet) /\ count \in Seq(Octet) /\ o \in Seq(Octet)
      OBVIOUS
    <3>2. FiveInRow(d, head, w, count, o)
      BY <3>1, RowOfFive
    <3> QED BY <2>8, <2>9, <2>10, <3>2, Zenon DEF FiveInRow
  <2>16. s = (((d \o head) \o w) \o count) \o o
    <3>1. s \in Ok(mlme_short_ie_descriptor(27, 5 + 5 * Len(sf.links))
                  \o <<1, sf.handle>> \o WRITE16(sf.size) \o <<Len(sf.links)>>
                  \o LinkOctets(sf.links))
      <4>1. ~ (Len(b.slotframes) > 1 \/ Len(sf.links) > MaxLinks)
        BY <2>1, <2>2, <2>3, BeaconsAnnounce
      <4> QED BY <1>2, <2>1, <4>1, Zenon DEF ie_tsch_slotframe_and_link, TSCH_SLOTFRAME_AND_LINK
    <3>2. s = mlme_short_ie_descriptor(27, 5 + 5 * Len(sf.links))
                  \o <<1, sf.handle>> \o WRITE16(sf.size) \o <<Len(sf.links)>>
                  \o LinkOctets(sf.links)
      BY <3>1, Zenon DEF Ok
    <3>3. 5 + 5 * Len(sf.links) = len
      BY <2>2, <2>3, <2>4
    <3> QED BY <2>2, <2>3, <2>5, <2>6, <2>7, <2>14, <3>2, <3>3, Zenon
  <2>17. SlotframeRead(b, e)
    BY <2>1, <2>2, <2>11 DEF SlotframeRead
  <2> QED BY <2>13, <2>14, <2>15, <2>16, <2>17, Zenon
<1> QED BY <1>1, <1>2

(* A nested element, and what is found behind it.                          *)
LEMMA SubFound ==
  ASSUME NEW buf \in Seq(Octet), NEW f, RoundsOf(buf, f), NEW s \in Seq(Octet), NEW e, Sub(s, e),
         NEW at \in Nat, Holds(buf, at, s), NEW more \in Nat, NEW set, NEW end,
         FoundAll(f[Behind(more, at + Len(s))], set, end)
  PROVE  FoundAll(f[Nested(Len(s) + more, at)], set \cup {e}, end)
<1>1. PICK len \in Nat, nested \in Nat : len = Len(s) /\ nested = len + more
  <2>1. Len(s) \in Nat
    BY LenProperties
  <2>2. Len(s) + more \in Nat
    BY <2>1
  <2> QED BY <2>1, <2>2, Zenon
<1>2. nested >= len /\ nested - len = more
  BY <1>1
<1>3. f[Nested(nested, at)] = FoundIn(Ok(e), f[Behind(nested - len, at + len)])
  <2>1. \A b2 \in Seq(Octet), a2 \in Nat, n2 \in Nat : \A g :
          RoundsOf(b2, g) /\ Holds(b2, a2, s) /\ n2 >= Len(s) =>
            g[Nested(n2, a2)] = FoundIn(Ok(e), g[Behind(n2 - Len(s), a2 + Len(s))])
    BY DEF Sub
  <2>2. nested \in Nat /\ at \in Nat /\ buf \in Seq(Octet) /\ Holds(buf, at, s) /\ RoundsOf(buf, f) /\ nested >= Len(s)
    BY <1>1, <1>2
  <2>3. f[Nested(nested, at)] = FoundIn(Ok(e), f[Behind(nested - Len(s), at + Len(s))])
    BY <2>1, <2>2, ZenonT(60)
  <2> QED BY <1>1, <2>3, Zenon
<1>4. FoundAll(FoundIn(Ok(e), f[Behind(more, at + len)]), set \cup {e}, end)
  BY <1>1, FoundMore
<1> QED BY <1>1, <1>2, <1>3, <1>4, Zenon

(* The octets of a beacon                                                  *)
BeaconOctets(subs) == ie_header_list_termination_1 \o ie_mlme(Len(subs)) \o subs

(* What its sub-elements are                                               *)
LEMMA Strung ==
  ASSUME NEW b \in Beacons, NEW subs \in SubElements(b)
  PROVE  \E y \in Seq(Octet), t \in Seq(Octet), h \in Seq(Octet), g \in Seq(Octet) :
           /\ subs = y \o t \o h \o g
           /\ Sub(y, SyncOf(b)) /\ (\E e : TimeslotRead(b, e) /\ Sub(t, e))
           /\ (\E e : HoppingRead(b, e) /\ Sub(h, e)) /\ (\E e : SlotframeRead(b, e) /\ Sub(g, e))
<1>1. Announced(b)
  BY BeaconsAnnounce
<1>2. PICK g \in ie_tsch_slotframe_and_link(b.slotframes),
           h \in ie_tsch_channel_hopping_sequence(b.hopping, b.list) :
        subs = ie_tsch_synchronization(b.asn, b.priority) \o ie_tsch_timeslot(b.timeslot, b.timing) \o h \o g
  BY Zenon DEF SubElements
<1>3. PICK y, t : y = ie_tsch_synchronization(b.asn, b.priority) /\ t = ie_tsch_timeslot(b.timeslot, b.timing)
  OBVIOUS
<1>4. Sub(y, SyncOf(b))
  BY <1>1, <1>3, SyncSub
<1>5. PICK e1 : TimeslotRead(b, e1) /\ Sub(t, e1)
  BY <1>1, <1>3, TimeslotSub
<1>6. PICK e2 : HoppingRead(b, e2) /\ Sub(h, e2)
  BY <1>1, HoppingSub
<1>7. PICK e3 : SlotframeRead(b, e3) /\ Sub(g, e3)
  BY <1>1, SlotframeSub
<1>8. y \in Seq(Octet) /\ t \in Seq(Octet) /\ h \in Seq(Octet) /\ g \in Seq(Octet)
  BY <1>4, <1>5, <1>6, <1>7 DEF Sub
<1>9. subs = y \o t \o h \o g
  BY <1>2, <1>3, Zenon
<1> QED BY <1>4, <1>5, <1>6, <1>7, <1>8, <1>9, Zenon

(* The header of a beacon's octets: the end of the header elements, and    *)
(* the MLME element, whose content is nested.                              *)
Mlme(w, n) == w >= 32768 /\ w % 2048 = n /\ (w % 32768) \div 2048 = 1

(* The parser finds the end of the header elements, then the nested ones.  *)
LEMMA BeaconBegins ==
  ASSUME NEW subs \in Seq(Octet), Len(subs) \in Size
  PROVE  \E buf \in Seq(Octet) :
           /\ buf = BeaconOctets(subs) /\ Len(buf) = 4 + Len(subs) /\ Holds(buf, 4, subs)
           /\ \A f : RoundsOf(buf, f) => f[In("HEADER", 0)] = Found(HeaderEnd, f[Nested(Len(subs), 4)])
<1>1. PICK n \in Nat : n = Len(subs) /\ n \in Size
  BY LenProperties
<1>2. PICK w \in Word : /\ w = LongWord(1, n) /\ ie_mlme(n) = WRITE16(w)
                      /\ Mlme(w, n)
  <2>1. n \in {m \in Nat : m < 2048}
    BY <1>1, SMT DEF Size
  <2> QED BY <1>1, <2>1, NestedDescriptors, SMT DEF Mlme
<1>3. PICK v \in Word : v = HeaderEndWord /\ ie_header_list_termination_1 = WRITE16(v)
  BY Descriptors
<1>4. PICK d1 \in Seq(Octet), d2 \in Seq(Octet) :
        d1 = WRITE16(v) /\ Len(d1) = 2 /\ d2 = WRITE16(w) /\ Len(d2) = 2
  BY WordWritten
<1>5. PICK a \in Seq(Octet) : a = d1 \o d2 /\ Len(a) = 4
  <2>1. PICK u \in Seq(Octet) : u = d1 \o d2 /\ Len(u) = Len(d1) + Len(d2)
    <3>1. d1 \in Seq(Octet) /\ d2 \in Seq(Octet)
      BY <1>4
    <3> QED BY <3>1, Together
  <2>3. Len(d1) = 2 /\ Len(d2) = 2
    BY <1>4, Zenon
  <2>2. Len(u) = 4
    BY <2>1, <2>3
  <2> QED BY <2>1, <2>2, Zenon
<1>6. PICK buf \in Seq(Octet) : buf = a \o subs /\ Len(buf) = 4 + n /\ Holds(buf, 0, a) /\ Holds(buf, 4, subs)
  <2>1. PICK u \in Seq(Octet) :
          u = a \o subs /\ Len(u) = Len(a) + Len(subs) /\ Holds(u, 0, a) /\ Holds(u, Len(a), subs)
    <3>1. a \in Seq(Octet) /\ subs \in Seq(Octet)
      BY <1>5
    <3> QED BY <3>1, Together
  <2>3. Len(a) = 4 /\ Len(subs) = n
    BY <1>1, <1>5, Zenon
  <2>2. Len(u) = 4 + n /\ Holds(u, 4, subs)
    BY <2>1, <2>3
  <2> QED BY <2>1, <2>2, Zenon
<1>7. READ16(buf, 0) = v /\ READ16(buf, 2) = w
  <2>0. d1 \in Seq(Octet) /\ d2 \in Seq(Octet) /\ buf \in Seq(Octet) /\ 0 \in Nat /\ Holds(buf, 0, d1 \o d2)
    BY <1>4, <1>5, <1>6, Zenon
  <2>1. Holds(buf, 0, d1) /\ Holds(buf, 0 + Len(d1), d2)
    BY <2>0, HoldsBoth
  <2>2. Holds(buf, 2, d2)
    <3>1. 0 + Len(d1) = 2
      BY <1>4
    <3> QED BY <2>1, <3>1
  <2>3. Holds(buf, 0, WRITE16(v)) /\ Holds(buf, 2, WRITE16(w))
    BY <1>4, <2>1, <2>2, Zenon
  <2>4. READ16(buf, 0) = v
    BY <2>3, Read16Held
  <2>5. READ16(buf, 2) = w
    BY <2>3, Read16Held
  <2> QED BY <2>4, <2>5
<1>8. buf = BeaconOctets(subs)
  <2>1. d1 = ie_header_list_termination_1 /\ d2 = ie_mlme(Len(subs))
    <3>1. d1 = ie_header_list_termination_1
      BY <1>3, <1>4, Zenon
    <3>2. ie_mlme(n) = WRITE16(w) /\ d2 = WRITE16(w) /\ n = Len(subs)
      BY <1>1, <1>2, <1>4
    <3> QED BY <3>1, <3>2, Zenon
  <2> QED BY <1>5, <1>6, <2>1, Zenon DEF BeaconOctets
<1>9. ASSUME NEW f, RoundsOf(buf, f) PROVE f[In("HEADER", 0)] = Found(HeaderEnd, f[Nested(n, 4)])
  <2>0. \A l \in Loop : f[l] = Round(buf, l, f)
    BY <1>9 DEF RoundsOf
  <2>1. In("HEADER", 0) \in Loop /\ In("HEADER", 0).at = 0 /\ In("HEADER", 0).state = "HEADER"
    BY DEF In, Loop
  <2>2. f[In("HEADER", 0)] = Round(buf, In("HEADER", 0), f)
    BY <2>0, <2>1, Zenon
  <2>3. Round(buf, In("HEADER", 0), f) = HeaderElement(buf, v, 2, f)
    BY <1>6, <1>7, <2>1, SMT DEF Round
  <2>4. v % 128 = 0 /\ (v % 32768) \div 128 = 126 /\ ~ (v >= 32768)
    BY <1>3, SMT DEF HeaderEndWord
  <2>5. HeaderElement(buf, v, 2, f) = Found(HeaderEnd, f[In("PAYLOAD", 2)])
    BY <2>4, SMT DEF HeaderElement, LIST_TERMINATION_1, HeaderEnd
  <2>6. In("PAYLOAD", 2) \in Loop /\ In("PAYLOAD", 2).at = 2 /\ In("PAYLOAD", 2).state = "PAYLOAD"
    BY DEF In, Loop
  <2>7. f[In("PAYLOAD", 2)] = Round(buf, In("PAYLOAD", 2), f)
    BY <2>0, <2>6, Zenon
  <2>8. Round(buf, In("PAYLOAD", 2), f) = PayloadElement(buf, w, 4, f)
    BY <1>6, <1>7, <2>6, SMT DEF Round
  <2>9. PayloadElement(buf, w, 4, f) = f[Nested(n, 4)]
    <3>1. ~ (w < 32768) /\ w % 2048 = n /\ (w % 32768) \div 2048 = 1
      BY <1>2, SMT DEF Word, Mlme
    <3> QED BY <3>1, SMT DEF PayloadElement, MLME
  <2> QED BY <2>2, <2>3, <2>5, <2>7, <2>8, <2>9
<1> QED BY <1>1, <1>6, <1>8, <1>9, Zenon

(* A joining node finds all of them, and the end behind the last.          *)
LEMMA BeaconRead ==
  ASSUME NEW b \in Beacons, NEW subs \in SubElements(b)
  PROVE  \E e1, e2, e3 :
           /\ TimeslotRead(b, e1) /\ HoppingRead(b, e2) /\ SlotframeRead(b, e3)
           /\ FoundAll(ParsedFrom(BeaconOctets(subs)), {HeaderEnd, SyncOf(b), e1, e2, e3}, Len(BeaconOctets(subs)))
<1>1. PICK y \in Seq(Octet), t \in Seq(Octet), h \in Seq(Octet), g \in Seq(Octet) :
        /\ subs = y \o t \o h \o g
        /\ Sub(y, SyncOf(b)) /\ (\E e : TimeslotRead(b, e) /\ Sub(t, e))
        /\ (\E e : HoppingRead(b, e) /\ Sub(h, e)) /\ (\E e : SlotframeRead(b, e) /\ Sub(g, e))
  BY Strung
<1>2. PICK e1, e2, e3 :
        /\ TimeslotRead(b, e1) /\ Sub(t, e1) /\ HoppingRead(b, e2) /\ Sub(h, e2)
        /\ SlotframeRead(b, e3) /\ Sub(g, e3)
  BY <1>1, Zenon
<1>3. PICK ny \in Nat, nt \in Nat, nh \in Nat, ng \in Nat :
        /\ ny = Len(y) /\ nt = Len(t) /\ nh = Len(h) /\ ng = Len(g)
        /\ ny > 0 /\ nt > 0 /\ nh > 0 /\ ng > 0 /\ ny < 300 /\ nt < 300 /\ nh < 300 /\ ng < 300
  BY <1>1, <1>2, LenProperties DEF Sub
<1>4. PICK yt \in Seq(Octet) : yt = y \o t /\ Len(yt) = ny + nt
  <2>1. PICK u \in Seq(Octet) : u = y \o t /\ Len(u) = Len(y) + Len(t)
    BY Together
  <2> QED BY <1>3, <2>1, Zenon
<1>5. PICK yth \in Seq(Octet) : yth = yt \o h /\ Len(yth) = ny + nt + nh
  <2>1. PICK u \in Seq(Octet) : u = yt \o h /\ Len(u) = Len(yt) + Len(h)
    BY Together
  <2> QED BY <1>3, <1>4, <2>1, Zenon
<1>6. PICK all \in Seq(Octet) : all = yth \o g /\ Len(all) = ny + nt + nh + ng
  <2>1. PICK u \in Seq(Octet) : u = yth \o g /\ Len(u) = Len(yth) + Len(g)
    BY Together
  <2> QED BY <1>3, <1>5, <2>1, Zenon
<1>7. all = subs
  BY <1>1, <1>4, <1>5, <1>6, Zenon
<1>8. Len(all) \in Size
  BY <1>3, <1>6, SMT DEF Size
<1>9. PICK buf \in Seq(Octet) :
        /\ buf = BeaconOctets(all) /\ Len(buf) = 4 + Len(all) /\ Holds(buf, 4, all)
        /\ \A f : RoundsOf(buf, f) => f[In("HEADER", 0)] = Found(HeaderEnd, f[Nested(Len(all), 4)])
  <2>1. PICK v \in Seq(Octet) : v = all
    BY <1>6
  <2>2. Len(v) \in Size
    BY <1>8, <2>1, Zenon
  <2>3. \E u \in Seq(Octet) :
           /\ u = BeaconOctets(v) /\ Len(u) = 4 + Len(v) /\ Holds(u, 4, v)
           /\ \A f : RoundsOf(u, f) => f[In("HEADER", 0)] = Found(HeaderEnd, f[Nested(Len(v), 4)])
    BY <2>2, BeaconBegins
  <2> QED BY <2>1, <2>3, Zenon
<1>10. PICK f : ParsedFrom(buf) = f[In("HEADER", 0)] /\ RoundsOf(buf, f)
  BY Rounds DEF RoundsOf
<1>11. PICK at \in Nat, bt \in Nat, ct \in Nat, end \in Nat :
         at = 4 + ny /\ bt = at + nt /\ ct = bt + nh /\ end = ct + ng
  OBVIOUS
<1>12. Holds(buf, 4, yth) /\ Holds(buf, ct, g)
  <2>1. Holds(buf, 4, yth) /\ Holds(buf, 4 + Len(yth), g)
    BY <1>6, <1>9, HoldsBoth
  <2>2. 4 + Len(yth) = ct
    BY <1>5, <1>11
  <2> QED BY <2>1, <2>2
<1>13. Holds(buf, 4, yt) /\ Holds(buf, bt, h)
  <2>1. Holds(buf, 4, yt) /\ Holds(buf, 4 + Len(yt), h)
    BY <1>5, <1>12, HoldsBoth
  <2>2. 4 + Len(yt) = bt
    BY <1>4, <1>11
  <2> QED BY <2>1, <2>2
<1>14. Holds(buf, 4, y) /\ Holds(buf, at, t)
  <2>1. Holds(buf, 4, y) /\ Holds(buf, 4 + Len(y), t)
    BY <1>4, <1>13, HoldsBoth
  <2>2. 4 + Len(y) = at
    BY <1>3, <1>11
  <2> QED BY <2>1, <2>2
<1>15. Len(buf) = end
  BY <1>6, <1>9, <1>11
<1>16. FoundAll(f[Behind(0, ct + Len(g))], {}, end)
  <2>1. ct + Len(g) = end
    BY <1>3, <1>11
  <2>2. PICK l \in Loop : l = In("PAYLOAD", end) /\ l.at = end
    <3>1. In("PAYLOAD", end) \in Loop /\ In("PAYLOAD", end).at = end
      BY DEF In, Loop
    <3> QED BY <3>1, Zenon
  <2>3. f[l] = Round(buf, l, f)
    BY <1>10 DEF RoundsOf
  <2>4. Round(buf, l, f) = Ended(end)
    BY <1>15, <2>2, SMTT(30) DEF Round
  <2>5. Behind(0, end) = l
    BY <2>2 DEF Behind
  <2>6. FoundAll(Ended(end), {}, end)
    <3>1. <<>> \in Seq({}) /\ {<<>>[i] : i \in DOMAIN <<>>} = {}
      OBVIOUS
    <3> QED BY <3>1, Zenon DEF FoundAll, Ended
  <2> QED BY <2>1, <2>3, <2>4, <2>5, <2>6
<1>17. PICK m1 \in Nat, m2 \in Nat, m3 \in Nat, m4 \in Nat :
         /\ m4 = ng /\ m3 = nh + m4 /\ m2 = nt + m3 /\ m1 = ny + m2
         /\ m4 # 0 /\ m3 # 0 /\ m2 # 0 /\ m1 = Len(all)
  <2>1. /\ nh + ng \in Nat /\ nt + (nh + ng) \in Nat /\ ny + (nt + (nh + ng)) \in Nat
        /\ ng # 0 /\ nh + ng # 0 /\ nt + (nh + ng) # 0 /\ ny + (nt + (nh + ng)) = ny + nt + nh + ng
    BY <1>3
  <2>2. ny + (nt + (nh + ng)) = Len(all)
    BY <1>6, <2>1, Zenon
  <2> QED BY <2>1, <2>2, Zenon
<1>18. FoundAll(f[Nested(m4, ct)], {e3}, end)
  <2>1. FoundAll(f[Nested(Len(g) + 0, ct)], {} \cup {e3}, end)
    BY <1>2, <1>10, <1>12, <1>16, SubFound
  <2>2. Len(g) + 0 = m4
    BY <1>3, <1>17
  <2>3. {} \cup {e3} = {e3}
    OBVIOUS
  <2> QED BY <2>1, <2>2, <2>3, Zenon
<1>19. FoundAll(f[Nested(m3, bt)], {e3} \cup {e2}, end)
  <2>1. Behind(m4, bt + Len(h)) = Nested(m4, ct)
    BY <1>3, <1>11, <1>17 DEF Behind
  <2>2. FoundAll(f[Behind(m4, bt + Len(h))], {e3}, end)
    BY <1>18, <2>1, Zenon
  <2>3. FoundAll(f[Nested(Len(h) + m4, bt)], {e3} \cup {e2}, end)
    BY <1>2, <1>10, <1>13, <2>2, SubFound
  <2> QED BY <1>3, <1>17, <2>3, Zenon
<1>20. FoundAll(f[Nested(m2, at)], ({e3} \cup {e2}) \cup {e1}, end)
  <2>1. Behind(m3, at + Len(t)) = Nested(m3, bt)
    BY <1>3, <1>11, <1>17 DEF Behind
  <2>2. FoundAll(f[Behind(m3, at + Len(t))], {e3} \cup {e2}, end)
    BY <1>19, <2>1, Zenon
  <2>3. FoundAll(f[Nested(Len(t) + m3, at)], ({e3} \cup {e2}) \cup {e1}, end)
    BY <1>2, <1>10, <1>14, <2>2, SubFound
  <2> QED BY <1>3, <1>17, <2>3, Zenon
<1>21. FoundAll(f[Nested(m1, 4)], (({e3} \cup {e2}) \cup {e1}) \cup {SyncOf(b)}, end)
  <2>1. Behind(m2, 4 + Len(y)) = Nested(m2, at)
    BY <1>3, <1>11, <1>17 DEF Behind
  <2>2. FoundAll(f[Behind(m2, 4 + Len(y))], ({e3} \cup {e2}) \cup {e1}, end)
    BY <1>20, <2>1, Zenon
  <2>3. FoundAll(f[Nested(Len(y) + m2, 4)], (({e3} \cup {e2}) \cup {e1}) \cup {SyncOf(b)}, end)
    BY <1>1, <1>10, <1>14, <2>2, SubFound
  <2> QED BY <1>3, <1>17, <2>3, Zenon
<1>22. ParsedFrom(buf) = Found(HeaderEnd, f[Nested(m1, 4)])
  BY <1>9, <1>10, <1>17
<1>23. FoundAll(ParsedFrom(buf), ((({e3} \cup {e2}) \cup {e1}) \cup {SyncOf(b)}) \cup {HeaderEnd}, end)
  <2>1. PICK set : set = (({e3} \cup {e2}) \cup {e1}) \cup {SyncOf(b)}
    OBVIOUS
  <2>2. PICK rest : rest = f[Nested(m1, 4)]
    OBVIOUS
  <2>3. FoundAll(rest, set, end)
    BY <1>21, <2>1, <2>2, Zenon
  <2>4. FoundAll(Found(HeaderEnd, rest), set \cup {HeaderEnd}, end)
    BY <2>3, FoundMore
  <2> QED BY <1>22, <2>1, <2>2, <2>4, Zenon
<1>24. ((({e3} \cup {e2}) \cup {e1}) \cup {SyncOf(b)}) \cup {HeaderEnd} = {HeaderEnd, SyncOf(b), e1, e2, e3}
  <2>1. PICK x, z : x = SyncOf(b) /\ z = HeaderEnd
    OBVIOUS
  <2>2. ((({e3} \cup {e2}) \cup {e1}) \cup {x}) \cup {z} = {z, x, e1, e2, e3}
    OBVIOUS
  <2> QED BY <2>1, <2>2, Zenon
<1>25. FoundAll(ParsedFrom(BeaconOctets(subs)), {HeaderEnd, SyncOf(b), e1, e2, e3}, Len(BeaconOctets(subs)))
  BY <1>7, <1>9, <1>15, <1>23, <1>24, Zenon
<1> QED BY <1>2, <1>25, Zenon

(* The beacon on the air is what its sender announces.                     *)
BeaconSent ==
  \E b \in Beacons : \E subs \in SubElements(b) :
    attr = [type |-> BEACON, beacon |-> b] /\ air = BeaconOctets(subs)

BeaconInv == (stage # "filling" /\ attr.type = BEACON => BeaconSent) /\ BeaconArrives

(* The slotframes that are read are those that were announced.             *)
LEMMA SlotframesFound ==
  ASSUME NEW b, Announced(b), NEW e1, TimeslotRead(b, e1), NEW e2, HoppingRead(b, e2), NEW e3, SlotframeRead(b, e3),
         NEW set, set = {HeaderEnd, SyncOf(b), e1, e2, e3}
  PROVE  {[handle |-> e.handle, size |-> e.size, links |-> e.links] : e \in {x \in set : x.ie = "slotframe"}}
           = {b.slotframes[i] : i \in DOMAIN b.slotframes}
<1>1. HeaderEnd.ie = "header" /\ SyncOf(b).ie = "sync" /\ e1.ie = "timeslot" /\ e2.ie = "hopping"
  BY DEF HeaderEnd, SyncOf, TimeslotRead, HoppingRead
<1>2. PICK h, y : h = HeaderEnd /\ y = SyncOf(b)
  OBVIOUS
<1>3. set = {h, y, e1, e2, e3} /\ h.ie # "slotframe" /\ y.ie # "slotframe" /\ e1.ie # "slotframe" /\ e2.ie # "slotframe"
  BY <1>1, <1>2
<1>4. CASE b.slotframes = <<>> /\ e3.ie = "none"
  <2>1. {x \in set : x.ie = "slotframe"} = {}
    BY <1>3, <1>4
  <2>2. {b.slotframes[i] : i \in DOMAIN b.slotframes} = {}
    <3>1. DOMAIN b.slotframes = {}
      BY <1>4
    <3> QED BY <3>1, Zenon
  <2> QED BY <2>1, <2>2, Zenon
<1>5. CASE /\ Len(b.slotframes) = 1 /\ e3.ie = "slotframe"
           /\ [handle |-> e3.handle, size |-> e3.size, links |-> e3.links] = b.slotframes[1]
  <2>1. {x \in set : x.ie = "slotframe"} = {e3}
    BY <1>3, <1>5
  <2>2. DOMAIN b.slotframes = {1}
    <3>1. PICK n \in Nat : n = Len(b.slotframes) /\ DOMAIN b.slotframes = 1 .. n
      BY LenProperties DEF Announced
    <3>2. 1 .. n = {1}
      BY <1>5, <3>1
    <3> QED BY <3>1, <3>2, Zenon
  <2>3. {b.slotframes[i] : i \in DOMAIN b.slotframes} = {b.slotframes[1]}
    BY <2>2, Zenon
  <2>4. {[handle |-> e.handle, size |-> e.size, links |-> e.links] : e \in {e3}}
          = {[handle |-> e3.handle, size |-> e3.size, links |-> e3.links]}
    BY Zenon
  <2> QED BY <1>5, <2>1, <2>3, <2>4, Zenon
<1> QED BY <1>4, <1>5 DEF SlotframeRead

(* What is announced is among what is read.                                *)
Reads(b, ies) ==
  /\ [ie |-> "sync", asn |-> b.asn, priority |-> b.priority] \in ies
  /\ \E e \in ies : e.ie = "timeslot" /\ e.id = b.timeslot /\ (b.timeslot # 0 => e.timing = b.timing)
  /\ \E e \in ies : e.ie = "hopping" /\ e.id = b.hopping /\ (b.hopping # 0 => e.list = b.list)
  /\ {[handle |-> e.handle, size |-> e.size, links |-> e.links] :
        e \in {x \in ies : x.ie = "slotframe"}} = {b.slotframes[i] : i \in DOMAIN b.slotframes}

(* A beacon that was sent is received, with all that it announces.         *)
LEMMA BeaconReceived ==
  ASSUME BeaconSent, ReceiveElements
  PROVE  BeaconArrives'
<1>b. PICK b \in Beacons : \E subs \in SubElements(b) :
        attr = [type |-> BEACON, beacon |-> b] /\ air = BeaconOctets(subs)
  BY Zenon DEF BeaconSent
<1>1. PICK subs \in SubElements(b) : attr = [type |-> BEACON, beacon |-> b] /\ air = BeaconOctets(subs)
  BY <1>b, Zenon
<1>2. PICK e1, e2, e3 :
        /\ TimeslotRead(b, e1) /\ HoppingRead(b, e2) /\ SlotframeRead(b, e3)
        /\ FoundAll(ParsedFrom(air), {HeaderEnd, SyncOf(b), e1, e2, e3}, Len(air))
  BY <1>1, BeaconRead
<1>3. PICK set : set = {HeaderEnd, SyncOf(b), e1, e2, e3}
  OBVIOUS
<1>4. PICK s \in Seq(set) : ParsedFrom(air) = Ok([ies |-> s, end |-> Len(air)]) /\ {s[i] : i \in DOMAIN s} = set
  BY <1>2, <1>3, Zenon DEF FoundAll
<1>5. PICK r : r = [ies |-> s, end |-> Len(air)]
  OBVIOUS
<1>6. ParsedFrom(air) = {r}
  BY <1>4, <1>5, Zenon DEF Ok
<1>7. stage' = "received" /\ got' = r /\ attr' = attr /\ air' = air
  BY <1>6 DEF ReceiveElements, Fail
<1>8. r.ies = s /\ r.end = Len(air) /\ attr.beacon = b
  BY <1>1, <1>5
<1>9. {got'.ies[i] : i \in DOMAIN got'.ies} = set /\ got'.end = Len(air') /\ attr'.beacon = b
  BY <1>4, <1>7, <1>8, Zenon
<1>10. [ie |-> "sync", asn |-> b.asn, priority |-> b.priority] \in set
  BY <1>3 DEF SyncOf
<1>11. \E e \in set : e.ie = "timeslot" /\ e.id = b.timeslot /\ (b.timeslot # 0 => e.timing = b.timing)
  BY <1>2, <1>3 DEF TimeslotRead
<1>12. \E e \in set : e.ie = "hopping" /\ e.id = b.hopping /\ (b.hopping # 0 => e.list = b.list)
  BY <1>2, <1>3 DEF HoppingRead
<1>13. {[handle |-> e.handle, size |-> e.size, links |-> e.links] : e \in {x \in set : x.ie = "slotframe"}}
           = {b.slotframes[i] : i \in DOMAIN b.slotframes}
  BY <1>2, <1>3, BeaconsAnnounce, SlotframesFound
<1>14. Reads(b, set)
  BY <1>10, <1>11, <1>12, <1>13, Zenon DEF Reads
<1>15. Reads(attr'.beacon, {got'.ies[i] : i \in DOMAIN got'.ies})
  BY <1>9, <1>14, Zenon
<1>16. stage' = "received" /\ got'.end = Len(air')
  BY <1>7, <1>9
<1> QED BY <1>15, <1>16, Zenon DEF BeaconArrives, Reads

(* A node that joins reads what the beacon announced, whatever that is.    *)
THEOREM BeaconsArrive == Spec => []BeaconArrives
<1>1. Init => BeaconInv
  BY DEF Init, BeaconInv, BeaconArrives, Arrived
<1>2. ASSUME BeaconInv, [Next]_vars PROVE BeaconInv'
  <2>1. CASE UNCHANGED vars
    BY <1>2, <2>1 DEF BeaconInv, BeaconSent, BeaconArrives, Arrived, vars
  <2>2. CASE Next /\ stage # "filling"
    <3>1. stage = "air" /\ UNCHANGED <<attr, air>>
      BY <2>2, FromAir
    <3>2. attr.type = BEACON => BeaconSent /\ ReceiveElements
      BY <1>2, <2>2, FromAir DEF BeaconInv, BEACON, DATA
    <3>3. BeaconArrives'
      BY <3>1, <3>2, BeaconReceived DEF BeaconArrives, Arrived
    <3> QED BY <2>2, <3>1, <3>2, <3>3 DEF BeaconInv, BeaconSent
  <2>3. CASE Next /\ stage = "filling"
    <3>1. CASE stage' = "filling"
      BY <3>1 DEF BeaconInv, BeaconArrives, Arrived
    <3>2. CASE \E b \in Beacons : SendBeacon(b)
      <4>1. BeaconSent'
        BY <3>2, Zenon DEF SendBeacon, BeaconSent, BeaconOctets
      <4>2. stage' = "air"
        BY <3>2 DEF SendBeacon
      <4>3. BeaconArrives'
        BY <4>2 DEF BeaconArrives, Arrived
      <4> QED BY <4>1, <4>3 DEF BeaconInv
    <3>3. CASE stage' = "air" /\ attr'.type \in {DATA, ACK}
      BY <3>3 DEF BeaconInv, BeaconArrives, Arrived, DATA, BEACON, ACK
    <3> QED BY <2>3, <3>1, <3>2, <3>3, FromFilling, FillStays
  <2> QED BY <1>2, <2>1, <2>2, <2>3
<1>3. BeaconInv => BeaconArrives
  BY DEF BeaconInv
<1> QED BY <1>1, <1>2, <1>3, PTL DEF Spec
=============================================================================
