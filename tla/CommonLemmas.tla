---------------------------- MODULE CommonLemmas ----------------------------
(***************************************************************************)
(* Facts about numbers and sequences that the proofs cite: least elements, *)
(* induction over a set of numbers, functions defined along an interval,   *)
(* remainders by a divisor that is not a numeral, and what Append, Head    *)
(* and Tail do to the places of a sequence.                                *)
(***************************************************************************)
EXTENDS Integers, Sequences, SequenceTheorems, FiniteSetTheorems, TLAPS

(* A set of finite sets has an element that no other is a part of.         *)
LEMMA LeastFiniteSet ==
  ASSUME NEW S, NEW T, T \subseteq FiniteSubsetsOf(S), T # {}
  PROVE  \E x \in T : \A y \in T : ~ (y \subseteq x /\ y # x)
<1>1. PICK x \in T : \A y \in T : ~ (<<y, x>> \in StrictSubsetOrdering(S))
  BY FS_StrictSubsetOrderingWellFounded, WFMin, Zenon
<1>2. \A y \in T : y \in SUBSET S
  BY DEF FiniteSubsetsOf
<1>3. ASSUME NEW y \in T, y \subseteq x, y # x PROVE FALSE
  <2>1. <<y, x>> \in (SUBSET S) \X (SUBSET S)
    BY <1>2
  <2>2. <<y, x>> \in StrictSubsetOrdering(S)
    BY <2>1, <1>3 DEF StrictSubsetOrdering
  <2> QED BY <2>2, <1>1
<1> QED BY <1>3

(* A set of natural numbers has a least element: that of the intervals up  *)
(* to its elements.                                                        *)
LEMMA LeastNumber ==
  ASSUME NEW T \in SUBSET Nat, T # {}
  PROVE  \E x \in T : \A y \in T : x <= y
<1> DEFINE U == {1 .. t : t \in T}
<1>1. U \subseteq FiniteSubsetsOf(Nat)
  <2> SUFFICES ASSUME NEW t \in T PROVE 1 .. t \in SUBSET Nat /\ IsFiniteSet(1 .. t)
    BY DEF FiniteSubsetsOf
  <2> QED BY FS_Interval
<1>2. U # {}
  OBVIOUS
<1>3. \E x \in U : \A y \in U : ~ (y \subseteq x /\ y # x)
  <2> HIDE DEF U
  <2> QED BY <1>1, <1>2, LeastFiniteSet
<1>4. PICK m \in T : \A y \in U : ~ (y \subseteq 1 .. m /\ y # 1 .. m)
  BY <1>3
<1>5. \A y \in T : m <= y
  <2> SUFFICES ASSUME NEW y \in T, y < m PROVE FALSE
    OBVIOUS
  <2>1. 1 .. y \in U
    OBVIOUS
  <2>2. 1 .. y \subseteq 1 .. m
    OBVIOUS
  <2>3. m \in 1 .. m /\ m \notin 1 .. y
    OBVIOUS
  <2> QED BY <2>1, <2>2, <2>3, <1>4
<1> QED BY <1>5

(* Induction, over the set of the numbers that have the property.          *)
LEMMA Induction ==
  ASSUME NEW S, 0 \in S, \A n \in Nat : n \in S => n + 1 \in S
  PROVE  Nat \subseteq S
<1> SUFFICES ASSUME Nat \ S # {} PROVE FALSE
  OBVIOUS
<1>1. PICK x \in Nat \ S : \A y \in Nat \ S : x <= y
  BY LeastNumber
<1>2. x # 0 /\ x - 1 \in Nat
  OBVIOUS
<1>3. x - 1 \in S
  BY <1>1, <1>2
<1> QED BY <1>2, <1>3

(* A function on 0 .. n whose values follow from each other.               *)
Follows(f, V, n, first, step) ==
  /\ f \in [0 .. n -> V]
  /\ f[0] = first
  /\ \A i \in 1 .. n : f[i] = step[<<f[i - 1], i>>]

(* There is one for every first value and step.                            *)
LEMMA Recursion ==
  ASSUME NEW V, NEW n \in Nat, NEW first \in V, NEW step \in [V \X (1 .. n) -> V]
  PROVE  \E f : Follows(f, V, n, first, step)
<1> DEFINE Upto(k) == \E f \in [0 .. k -> V] :
               f[0] = first /\ \A i \in 1 .. k : f[i] = step[<<f[i - 1], i>>]
           S == {k \in Nat : k <= n => Upto(k)}
<1>1. 0 \in S
  <2> DEFINE f == [i \in 0 .. 0 |-> first]
  <2>1. f \in [0 .. 0 -> V] /\ f[0] = first /\ 1 .. 0 = {}
    OBVIOUS
  <2>2. Upto(0)
    <3> HIDE DEF f
    <3> QED BY <2>1
  <2> QED BY <2>2
<1>2. \A k \in Nat : k \in S => k + 1 \in S
  <2> SUFFICES ASSUME NEW k \in Nat, k + 1 <= n, Upto(k) PROVE Upto(k + 1)
    OBVIOUS
  <2>1. PICK f \in [0 .. k -> V] :
           f[0] = first /\ \A i \in 1 .. k : f[i] = step[<<f[i - 1], i>>]
    OBVIOUS
  <2> DEFINE last == step[<<f[k], k + 1>>]
             g == [i \in 0 .. k + 1 |-> IF i = k + 1 THEN last ELSE f[i]]
  <2>2. last \in V
    <3>1. f[k] \in V /\ k + 1 \in 1 .. n
      OBVIOUS
    <3> QED BY <3>1
  <2>3. g \in [0 .. k + 1 -> V]
    <3> HIDE DEF last
    <3> QED BY <2>2
  <2>4. g[0] = first
    BY <2>1
  <2>5. ASSUME NEW i \in 1 .. k + 1 PROVE g[i] = step[<<g[i - 1], i>>]
    <3>1. i - 1 \in 0 .. k /\ g[i - 1] = f[i - 1]
      OBVIOUS
    <3>2. CASE i = k + 1
      <4>1. g[i] = last /\ i - 1 = k
        BY <3>2
      <4> QED BY <4>1, <3>1, <3>2
    <3>3. CASE i # k + 1
      <4>1. i \in 1 .. k /\ g[i] = f[i]
        BY <3>3
      <4> QED BY <4>1, <3>1, <2>1
    <3> QED BY <3>2, <3>3
  <2> QED BY <2>3, <2>4, <2>5
<1>3. n \in S
  <2> HIDE DEF S
  <2> QED BY <1>1, <1>2, Induction
<1> QED BY <1>3 DEF Follows
-----------------------------------------------------------------------------
(* A product grows with its factors.                                       *)
LEMMA ProductOrder ==
  ASSUME NEW a \in Nat, NEW b \in Nat, NEW w \in Nat, a <= b
  PROVE  a * w <= b * w
OBVIOUS

(* Quotient and remainder are unique.                                      *)
LEMMA Remainder ==
  ASSUME NEW w \in Nat \ {0}, NEW a \in Int, NEW q \in Int, NEW r \in 0 .. w - 1,
         a = q * w + r
  PROVE  a % w = r
OBVIOUS

(* Quotient and remainder exist.                                           *)
LEMMA Division ==
  ASSUME NEW w \in Nat \ {0}, NEW a \in Int
  PROVE  a % w \in 0 .. w - 1 /\ \E q \in Int : a = q * w + (a % w)
<1> DEFINE Divided(b) == \E q \in Int, r \in 0 .. w - 1 : b = q * w + r
           S == {b \in Nat : Divided(b)}
<1>1. Nat \subseteq S
  <2>1. 0 \in S
    <3>1. 0 = 0 * w + 0 /\ 0 \in 0 .. w - 1
      OBVIOUS
    <3> QED BY <3>1
  <2>2. ASSUME NEW b \in Nat, Divided(b) PROVE Divided(b + 1)
    <3>1. PICK q \in Int, r \in 0 .. w - 1 : b = q * w + r
      BY <2>2
    <3>2. CASE r = w - 1
      <4>1. b + 1 = (q + 1) * w + 0 /\ 0 \in 0 .. w - 1
        BY <3>1, <3>2
      <4> QED BY <4>1
    <3>3. CASE r # w - 1
      <4>1. b + 1 = q * w + (r + 1) /\ r + 1 \in 0 .. w - 1
        BY <3>1, <3>3
      <4> QED BY <4>1
    <3> QED BY <3>2, <3>3
  <2>3. \A b \in Nat : b \in S => b + 1 \in S
    <3> HIDE DEF Divided
    <3> QED BY <2>2
  <2> HIDE DEF S
  <2> QED BY <2>1, <2>3, Induction
<1>2. Divided(a)
  <2>1. CASE a \in Nat
    BY <1>1, <2>1
  <2>2. CASE a \notin Nat
    <3>1. PICK q \in Int, r \in 0 .. w - 1 : - a = q * w + r
      <4>1. - a \in Nat
        BY <2>2
      <4>2. Divided(- a)
        <5> HIDE DEF Divided
        <5> QED BY <4>1, <1>1
      <4> QED BY <4>2
    <3>2. CASE r = 0
      <4>1. - q \in Int /\ a = (- q) * w + 0 /\ 0 \in 0 .. w - 1
        BY <3>1, <3>2
      <4> QED BY <4>1
    <3>3. CASE r # 0
      <4>1. - q - 1 \in Int /\ a = (- q - 1) * w + (w - r) /\ w - r \in 0 .. w - 1
        BY <3>1, <3>3
      <4> QED BY <4>1, Zenon
    <3> QED BY <3>2, <3>3
  <2> QED BY <2>1, <2>2
<1>3. PICK q \in Int, r \in 0 .. w - 1 : a = q * w + r
  BY <1>2
<1>4. a % w = r
  BY <1>3, Remainder, Zenon
<1>5. a = q * w + (a % w)
  BY <1>3, <1>4, Zenon
<1> QED BY <1>4, <1>5, Zenon

(* Numbers that differ by a multiple of w have the same remainder.         *)
LEMMA SameRemainder ==
  ASSUME NEW w \in Nat \ {0}, NEW a \in Int, NEW b \in Int, NEW k \in Int,
         b = a + k * w
  PROVE  b % w = a % w
<1>1. PICK q \in Int : a % w \in 0 .. w - 1 /\ a = q * w + (a % w)
  BY Division, Zenon
<1>2. PICK r \in 0 .. w - 1 : r = a % w
  BY <1>1
<1>3. b = (q + k) * w + r
  <2>1. a = q * w + r
    BY <1>1, <1>2, Zenon
  <2> QED BY <2>1
<1>4. b % w = r
  <2>1. q + k \in Int
    OBVIOUS
  <2> QED BY <1>3, <2>1, Remainder, Zenon
<1> QED BY <1>2, <1>4, Zenon

(* Remainders of sums and differences.                                     *)
LEMMA RemainderOfSum ==
  ASSUME NEW w \in Nat \ {0}, NEW a \in Int, NEW b \in Int
  PROVE  /\ ((a % w) + b) % w = (a + b) % w
         /\ ((a % w) - b) % w = (a - b) % w
<1>1. PICK q \in Int : a % w \in 0 .. w - 1 /\ a = q * w + (a % w)
  BY Division, Zenon
<1>2. PICK r \in 0 .. w - 1 : r = a % w
  BY <1>1
<1>3. a = q * w + r
  BY <1>1, <1>2, Zenon
<1>4. a + b = (r + b) + q * w /\ a - b = (r - b) + q * w
  BY <1>3
<1>5. a + b \in Int /\ r + b \in Int /\ a - b \in Int /\ r - b \in Int
  OBVIOUS
<1>6. (a + b) % w = (r + b) % w
  BY <1>4, <1>5, SameRemainder, Zenon
<1>7. (a - b) % w = (r - b) % w
  BY <1>4, <1>5, SameRemainder, Zenon
<1> QED BY <1>2, <1>6, <1>7, Zenon

(* The remainder of what is less than the divisor.                         *)
LEMMA SmallRemainder ==
  ASSUME NEW w \in Nat \ {0}, NEW a \in 0 .. w - 1
  PROVE  a % w = a
<1>1. a = 0 * w + a
  OBVIOUS
<1> QED BY <1>1, Remainder
-----------------------------------------------------------------------------
(* The places of a sequence.                                               *)
LEMMA Places ==
  ASSUME NEW S, NEW s \in Seq(S)
  PROVE  /\ Len(s) \in Nat /\ DOMAIN s = 1 .. Len(s)
         /\ \A i \in DOMAIN s : s[i] \in S
BY LenProperties

(* A sequence of elements of a set that are in another.                    *)
LEMMA Widened ==
  ASSUME NEW S, NEW T, NEW s \in Seq(S), \A i \in DOMAIN s : s[i] \in T
  PROVE  s \in Seq(T)
<1>1. Len(s) \in Nat /\ DOMAIN s = 1 .. Len(s)
  BY LenProperties
<1>2. s = [i \in 1 .. Len(s) |-> s[i]]
  BY <1>1
<1>3. \A i \in 1 .. Len(s) : s[i] \in T
  BY <1>1
<1> QED BY <1>1, <1>2, <1>3, IsASeq

(* One more at the end.                                                    *)
LEMMA Appended ==
  ASSUME NEW S, NEW s \in Seq(S), NEW e \in S
  PROVE  /\ Append(s, e) \in Seq(S) /\ Len(Append(s, e)) = Len(s) + 1
         /\ DOMAIN Append(s, e) = 1 .. Len(s) + 1
         /\ \A i \in DOMAIN s : Append(s, e)[i] = s[i]
         /\ Append(s, e)[Len(s) + 1] = e
BY LenProperties

(* The first one taken.                                                    *)
LEMMA HeadTaken ==
  ASSUME NEW S, NEW s \in Seq(S), s # <<>>
  PROVE  /\ Head(s) = s[1] /\ 1 \in DOMAIN s /\ Head(s) \in S
         /\ Tail(s) \in Seq(S) /\ Len(Tail(s)) = Len(s) - 1
         /\ DOMAIN Tail(s) = 1 .. Len(s) - 1
         /\ \A i \in DOMAIN Tail(s) : i + 1 \in DOMAIN s /\ Tail(s)[i] = s[i + 1]
<1>1. Len(s) \in Nat \ {0} /\ DOMAIN s = 1 .. Len(s)
  BY LenProperties, EmptySeq
<1>2. Tail(s) \in Seq(S) /\ Len(Tail(s)) = Len(s) - 1
  BY HeadTailProperties
<1>3. DOMAIN Tail(s) = 1 .. Len(s) - 1
  BY <1>2, LenProperties
<1>4. \A i \in 1 .. Len(Tail(s)) : Tail(s)[i] = s[i + 1]
  BY HeadTailProperties
<1>5. Head(s) = s[1] /\ Head(s) \in S
  BY <1>1, ElementOfSeq
<1> QED BY <1>1, <1>2, <1>3, <1>4, <1>5
-----------------------------------------------------------------------------
(* Sequences put together.                                                 *)

(* A sequence after another: what is first stays first.                    *)
LEMMA FirstOfConcat ==
  ASSUME NEW S, NEW s \in Seq(S), NEW t \in Seq(S), s # <<>>
  PROVE  s \o t # <<>> /\ Tail(s \o t) = Tail(s) \o t
<1>1. /\ s \o t \in Seq(S) /\ Len(s \o t) = Len(s) + Len(t) /\ Len(s) \in Nat \ {0} /\ Len(t) \in Nat
      /\ \A i \in 1 .. Len(s) + Len(t) : (s \o t)[i] = IF i <= Len(s) THEN s[i] ELSE t[i - Len(s)]
  BY ConcatProperties, LenProperties, EmptySeq
<1>2. s \o t # <<>>
  BY <1>1, EmptySeq
<1>3. PICK c, u : c = s \o t /\ u = Tail(s)
  OBVIOUS
<1>4. PICK k \in Nat, l \in Nat : k = Len(s) /\ l = Len(t) /\ k > 0
  BY <1>1
<1>5. /\ Tail(c) \in Seq(S) /\ Len(Tail(c)) = k + l - 1
      /\ \A i \in 1 .. k + l - 1 : Tail(c)[i] = c[i + 1]
  BY <1>1, <1>2, <1>3, <1>4, HeadTailProperties
<1>6. u \in Seq(S) /\ Len(u) = k - 1 /\ \A i \in 1 .. k - 1 : u[i] = s[i + 1]
  BY <1>3, <1>4, HeadTailProperties
<1>7. /\ u \o t \in Seq(S) /\ Len(u \o t) = k - 1 + l
      /\ \A i \in 1 .. k - 1 + l : (u \o t)[i] = IF i <= k - 1 THEN u[i] ELSE t[i - (k - 1)]
  <2>1. /\ u \o t \in Seq(S) /\ Len(u \o t) = Len(u) + Len(t)
        /\ \A i \in 1 .. Len(u) + Len(t) : (u \o t)[i] = IF i <= Len(u) THEN u[i] ELSE t[i - Len(u)]
    BY <1>6, ConcatProperties, Zenon
  <2>2. Len(u) = k - 1 /\ Len(t) = l
    BY <1>4, <1>6
  <2> QED BY <2>1, <2>2
<1>8. ASSUME NEW i \in 1 .. k + l - 1 PROVE Tail(c)[i] = (u \o t)[i]
  <2>1. /\ i + 1 \in 1 .. k + l /\ i \in 1 .. k - 1 + l
        /\ c[i + 1] = IF i + 1 <= k THEN s[i + 1] ELSE t[i + 1 - k]
    BY <1>1, <1>3, <1>4
  <2>2. CASE i <= k - 1
    <3>1. (u \o t)[i] = u[i] /\ u[i] = s[i + 1] /\ i + 1 <= k
      BY <1>6, <1>7, <2>1, <2>2
    <3> QED BY <1>5, <2>1, <3>1
  <2>3. CASE ~ (i <= k - 1)
    <3>1. (u \o t)[i] = t[i - (k - 1)] /\ i - (k - 1) = i + 1 - k /\ ~ (i + 1 <= k)
      BY <1>7, <2>1, <2>3
    <3> QED BY <1>5, <2>1, <3>1
  <2> QED BY <2>2, <2>3
<1>9. Tail(c) = u \o t
  BY <1>4, <1>5, <1>7, <1>8, SeqEqual
<1> QED BY <1>2, <1>3, <1>9

(* One before the others.                                                  *)
LEMMA OneBefore ==
  ASSUME NEW S, NEW a \in S, NEW s \in Seq(S)
  PROVE  <<a>> \o s # <<>> /\ Tail(<<a>> \o s) = s /\ Head(<<a>> \o s) = a
<1>1. PICK o \in Seq(S) : o = <<a>>
  <2>1. <<a>> \in Seq(S)
    OBVIOUS
  <2> QED BY <2>1, Zenon
<1>2. o # <<>> /\ Tail(o) = <<>> /\ o[1] = a /\ Len(o) = 1
  BY <1>1
<1>3. o \o s # <<>> /\ Tail(o \o s) = <<>> \o s
  BY <1>2, FirstOfConcat
<1>4. <<>> \o s = s
  BY ConcatEmptySeq
<1>5. (o \o s)[1] = a /\ o \o s \in Seq(S)
  BY <1>2, ConcatProperties, LenProperties
<1>6. Head(o \o s) = a
  BY <1>3, <1>5, HeadTaken
<1> QED BY <1>1, <1>3, <1>4, <1>6

(* The first of what comes after may be the last of what comes before.     *)
LEMMA FirstMoved ==
  ASSUME NEW S, NEW s \in Seq(S), NEW t \in Seq(S), t # <<>>
  PROVE  Append(s, Head(t)) \o Tail(t) = s \o t
<1>1. Head(t) \in S /\ Tail(t) \in Seq(S) /\ <<Head(t)>> \in Seq(S)
  BY HeadTailProperties
<1>2. PICK h \in Seq(S) : h = <<Head(t)>>
  BY <1>1
<1>3. Append(s, Head(t)) = s \o h
  BY <1>1, <1>2, AppendIsConcat
<1>4. (s \o h) \o Tail(t) = s \o (h \o Tail(t))
  BY <1>1, ConcatAssociative
<1>5. h \o Tail(t) = t
  <2>1. /\ h \o Tail(t) \in Seq(S) /\ Len(h) = 1 /\ h[1] = Head(t)
        /\ Len(h \o Tail(t)) = 1 + Len(Tail(t))
        /\ \A i \in 1 .. 1 + Len(Tail(t)) : (h \o Tail(t))[i] = IF i <= 1 THEN h[i] ELSE Tail(t)[i - 1]
    BY <1>1, <1>2, ConcatProperties
  <2>2. PICK l \in Nat : l = Len(t) /\ Len(Tail(t)) = l - 1 /\ l >= 1
    BY HeadTailProperties, EmptySeq
  <2>3. Head(t) = t[1] /\ \A i \in 1 .. l - 1 : Tail(t)[i] = t[i + 1]
    BY <2>2, HeadTaken, HeadTailProperties
  <2>4. ASSUME NEW i \in 1 .. l PROVE (h \o Tail(t))[i] = t[i]
    <3>1. CASE i = 1
      BY <2>1, <2>2, <2>3, <3>1
    <3>2. CASE i # 1
      <4>1. i - 1 \in 1 .. l - 1 /\ i - 1 + 1 = i /\ i \in 1 .. 1 + Len(Tail(t)) /\ ~ (i <= 1)
        BY <2>2, <3>2
      <4> QED BY <2>1, <2>3, <4>1
    <3> QED BY <3>1, <3>2
  <2>5. Len(h \o Tail(t)) = Len(t)
    BY <2>1, <2>2
  <2> QED BY <2>1, <2>2, <2>4, <2>5, SeqEqual
<1> QED BY <1>3, <1>4, <1>5

(* One more at the end of what comes after.                                *)
LEMMA ConcatAppended ==
  ASSUME NEW S, NEW s \in Seq(S), NEW t \in Seq(S), NEW e \in S
  PROVE  s \o Append(t, e) = Append(s \o t, e)
<1>1. PICK o \in Seq(S) : o = <<e>>
  <2>1. <<e>> \in Seq(S)
    OBVIOUS
  <2> QED BY <2>1, Zenon
<1>2. Append(t, e) = t \o o /\ Append(s \o t, e) = (s \o t) \o o
  BY <1>1, AppendIsConcat, ConcatProperties
<1> QED BY <1>2, ConcatAssociative
=============================================================================
