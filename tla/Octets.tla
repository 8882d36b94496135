------------------------------- MODULE Octets -------------------------------
(***************************************************************************)
(* Octets of a buffer as the codecs read and write them. A buffer is a     *)
(* sequence of numbers below 256; offsets count from 0, as in C. What a    *)
(* function may fail to return is a set of at most one value.              *)
(***************************************************************************)
EXTENDS Integers, Sequences

Octet == 0..255
Word == {n \in Nat : n < 65536}
Fail == {}
Ok(v) == {v}
The(option) == CHOOSE v \in option : TRUE

Bit(b) == IF b THEN 1 ELSE 0
WRITE16(v) == <<v % 256, (v \div 256) % 256>>
READ16(buf, at) == buf[at + 1] + 256 * buf[at + 2]

(* len octets of buf from offset at, and what follows offset at            *)
Octets(buf, at, len) == SubSeq(buf, at + 1, at + len)
From(buf, at) == SubSeq(buf, at + 1, Len(buf))

(* memcpy(buf + at, octets, Len(octets)), inside buf                       *)
Copied(buf, at, octets) ==
  [i \in DOMAIN buf |->
     IF i \in at + 1 .. at + Len(octets) THEN octets[i - at] ELSE buf[i]]

Reversed(s) == [i \in DOMAIN s |-> s[Len(s) + 1 - i]]
=============================================================================
