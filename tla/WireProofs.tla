----------------------------- MODULE WireProofs -----------------------------
(***************************************************************************)
(* For every alphabet, all markers and all producers: the frame filter     *)
(* loses, repeats and reorders nothing, shows what may be shown and no     *)
(* part of a frame; what reaches it is the text of the stream and only     *)
(* that; a history is on the terminal once, on top; and the line           *)
(* implements Pipe.                                                        *)
(***************************************************************************)
EXTENDS Wire, DataLemmas, SequenceTheorems

-----------------------------------------------------------------------------
(* The helpers *)

\* The elements of a sequence.
LEMMA Elements ==
  ASSUME NEW s \in Seq(Byte)
  PROVE  Len(s) \in Nat /\ \A i \in 1..Len(s) : s[i] \in Byte
<1>1. s \in [1..Len(s) -> Byte] /\ Len(s) \in Nat BY LenProperties
<1> QED BY <1>1

\* What there is of s from p on agrees with m: m is there or may yet be.
MayBegin(s, m, p) ==
  \A k \in 1..Len(m) : p + k - 1 <= Len(s) => s[p + k - 1] = m[k]

Whole(s, m, p) == p + Len(m) <= Len(s) + 1

LEMMA OccursIsWhole ==
  ASSUME NEW s \in Seq(Byte), NEW m, Marker(m), NEW p \in Nat, p > 0
  PROVE  Occurs(s, m, p) <=> Whole(s, m, p) /\ MayBegin(s, m, p)
<1> DEFINE t == SubSeq(s, p, p + Len(m) - 1)
<1>1. /\ Len(s) \in Nat /\ Len(m) \in Nat /\ Len(m) > 0 /\ m \in Seq(Byte)
      /\ \A i \in 1..Len(s) : s[i] \in Byte
  BY Elements DEF Marker
<1>2. SUFFICES ASSUME Whole(s, m, p) PROVE t = m <=> MayBegin(s, m, p)
  BY DEF Occurs, Whole
<1>3. /\ t \in Seq(Byte) /\ Len(t) = Len(m)
      /\ \A i \in 1..Len(m) : t[i] = s[p + i - 1]
  <2>1. \A i \in p..(p + Len(m) - 1) : s[i] \in Byte BY <1>1, <1>2 DEF Whole
  <2>2. p \in Int /\ p + Len(m) - 1 \in Int BY <1>1
  <2>3. /\ t \in Seq(Byte)
        /\ Len(t) = IF p <= p + Len(m) - 1 THEN (p + Len(m) - 1) - p + 1 ELSE 0
        /\ \A i \in 1..((p + Len(m) - 1) - p + 1) : t[i] = s[p + i - 1]
    BY <2>1, <2>2, SubSeqProperties
  <2> QED BY <2>3, <1>1
<1>4. \A k \in 1..Len(m) : p + k - 1 <= Len(s) BY <1>1, <1>2 DEF Whole
<1> HIDE DEF t
<1>5. ASSUME t = m PROVE MayBegin(s, m, p) BY <1>3, <1>5 DEF MayBegin
<1>6. ASSUME MayBegin(s, m, p) PROVE t = m
  <2>1. \A i \in 1..Len(t) : t[i] = m[i] BY <1>3, <1>4, <1>6 DEF MayBegin
  <2> QED BY <1>1, <1>3, <2>1, SeqEqual
<1> QED BY <1>5, <1>6

\* indexOf finds the first place of the marker.
LEMMA IndexFirst ==
  ASSUME NEW s \in Seq(Byte), NEW m, Marker(m)
  PROVE  /\ indexOf(s, m) \in 0..Len(s)
         /\ indexOf(s, m) > 0 => Occurs(s, m, indexOf(s, m))
         /\ \A p \in 1..Len(s) : Occurs(s, m, p) => 0 < indexOf(s, m) /\ indexOf(s, m) <= p
<1>1. CASE Places(s, m) = {}
  BY <1>1 DEF indexOf, Places
<1>2. CASE Places(s, m) # {}
  <2>1. Places(s, m) \subseteq Nat BY DEF Places
  <2>2. \E i \in Places(s, m) : \A j \in Places(s, m) : i <= j
    BY <2>1, <1>2, HasLeast
  <2>3. /\ indexOf(s, m) \in Places(s, m)
        /\ \A j \in Places(s, m) : indexOf(s, m) <= j
    BY <1>2, <2>2, Zenon DEF indexOf
  <2> QED BY <2>3 DEF Places
<1> QED BY <1>1, <1>2

\* It fits there.
LEMMA IndexFits ==
  ASSUME NEW s \in Seq(Byte), NEW m, Marker(m)
  PROVE  /\ indexOf(s, m) \in 0..Len(s)
         /\ indexOf(s, m) > 0 => indexOf(s, m) + Len(m) <= Len(s) + 1
BY IndexFirst DEF Occurs

\* tailPrefix holds back what may begin a marker, and nothing before it may
\* begin one that is not there as a whole.
LEMMA TailHolds ==
  ASSUME NEW s \in Seq(Byte), NEW m, Marker(m)
  PROVE  /\ tailPrefix(s, m) \in 0..Len(s) /\ tailPrefix(s, m) < Len(m)
         /\ MayBegin(s, m, Len(s) - tailPrefix(s, m) + 1)
         /\ \A p \in 1..(Len(s) - tailPrefix(s, m)) :
              MayBegin(s, m, p) => Occurs(s, m, p)
<1> DEFINE fits == {k \in 0..(Len(m) - 1) :
                      k <= Len(s) /\ From(s, Len(s) - k + 1) = First(m, k)}
           t == tailPrefix(s, m)
<1>1. /\ Len(s) \in Nat /\ Len(m) \in Nat /\ Len(m) > 0 /\ Len(m) - 1 \in Nat
      /\ m \in Seq(Byte)
      /\ \A i \in 1..Len(s) : s[i] \in Byte
      /\ \A i \in 1..Len(m) : m[i] \in Byte
  BY Elements DEF Marker
<1>2. ASSUME NEW k \in 0..(Len(m) - 1), k <= Len(s)
      PROVE  k \in fits <=> MayBegin(s, m, Len(s) - k + 1)
  <2> DEFINE q == Len(s) - k + 1
             x == SubSeq(s, q, Len(s))
             y == SubSeq(m, 1, k)
  <2>1. /\ q \in Nat /\ q > 0 /\ q \in Int /\ Len(s) \in Int /\ k \in Int /\ 1 \in Int
        /\ Len(s) - q + 1 = k /\ k - 1 + 1 = k /\ k <= Len(m) /\ k \in Nat
    BY <1>1, <1>2
  <2>2. /\ x \in Seq(Byte) /\ Len(x) = k
        /\ \A i \in 1..k : x[i] = s[q + i - 1]
    <3>1. \A i \in q..Len(s) : s[i] \in Byte BY <1>1, <2>1
    <3> HIDE DEF q
    <3>2. /\ x \in Seq(Byte)
          /\ Len(x) = IF q <= Len(s) THEN Len(s) - q + 1 ELSE 0
          /\ \A i \in 1..(Len(s) - q + 1) : x[i] = s[q + i - 1]
      BY <2>1, <3>1, SubSeqProperties
    <3> QED BY <2>1, <3>2
  <2>3. /\ y \in Seq(Byte) /\ Len(y) = k
        /\ \A i \in 1..k : y[i] = m[1 + i - 1]
    <3>1. \A i \in 1..k : m[i] \in Byte BY <1>1, <2>1
    <3>2. /\ y \in Seq(Byte)
          /\ Len(y) = IF 1 <= k THEN k - 1 + 1 ELSE 0
          /\ \A i \in 1..(k - 1 + 1) : y[i] = m[1 + i - 1]
      BY <2>1, <3>1, SubSeqProperties
    <3> QED BY <2>1, <3>2
  <2>4. k \in fits <=> x = y BY <1>2 DEF From, First
  <2> HIDE DEF x, y, fits
  <2>5. x = y <=> \A i \in 1..k : s[q + i - 1] = m[i]
    <3> HIDE DEF q
    <3>1. ASSUME \A i \in 1..k : s[q + i - 1] = m[i] PROVE x = y
      <4>1. ASSUME NEW i \in 1..k PROVE x[i] = y[i]
        <5>1. 1 + i - 1 = i BY <2>1
        <5>2. x[i] = s[q + i - 1] BY <2>2
        <5>3. y[i] = m[i] BY <2>3, <5>1
        <5> QED BY <5>2, <5>3, <3>1
      <4>2. \A i \in 1..Len(x) : x[i] = y[i] BY <2>2, <4>1
      <4> QED BY <2>2, <2>3, <4>2, SeqEqual
    <3>2. ASSUME x = y PROVE \A i \in 1..k : s[q + i - 1] = m[i]
      <4>1. \A i \in 1..k : 1 + i - 1 = i BY <2>1
      <4> QED BY <2>2, <2>3, <3>2, <4>1
    <3> QED BY <3>1, <3>2
  <2>6. MayBegin(s, m, q) <=> \A i \in 1..k : s[q + i - 1] = m[i]
    <3>1. \A i \in 1..Len(m) : q + i - 1 <= Len(s) <=> i \in 1..k BY <1>1, <2>1
    <3>2. \A i \in 1..k : i \in 1..Len(m) BY <1>1, <2>1
    <3> HIDE DEF q
    <3> QED BY <3>1, <3>2 DEF MayBegin
  <2> QED BY <2>4, <2>5, <2>6
<1>3. 0 \in fits
  <2>1. \A k \in 1..Len(m) : ~((Len(s) - 0 + 1) + k - 1 <= Len(s)) BY <1>1
  <2>2. MayBegin(s, m, Len(s) - 0 + 1) BY <2>1 DEF MayBegin
  <2>3. 0 \in 0..(Len(m) - 1) /\ 0 <= Len(s) BY <1>1
  <2> HIDE DEF fits
  <2> QED BY <1>2, <2>2, <2>3
<1>4. fits \subseteq 0..(Len(m) - 1) /\ \A k \in fits : k <= Len(s) OBVIOUS
<1>5. t = CHOOSE k \in fits : \A j \in fits : j <= k BY DEF tailPrefix
<1> HIDE DEF fits, t
<1>6. \E k \in fits : \A j \in fits : j <= k BY <1>1, <1>3, <1>4, HasGreatest
<1>7. t \in fits /\ \A j \in fits : j <= t BY <1>5, <1>6, Zenon
<1>8. t \in 0..(Len(m) - 1) /\ t <= Len(s) /\ t \in 0..Len(s) /\ t < Len(m)
  BY <1>1, <1>4, <1>7
<1>9. MayBegin(s, m, Len(s) - t + 1) BY <1>2, <1>7, <1>8
<1>10. ASSUME NEW p \in 1..(Len(s) - t), MayBegin(s, m, p) PROVE Occurs(s, m, p)
  <2>1. p \in Nat /\ p > 0 BY <1>1, <1>8
  <2>2. SUFFICES ASSUME ~Whole(s, m, p) PROVE FALSE
    BY <1>10, <2>1, OccursIsWhole
  <2> DEFINE k == Len(s) - p + 1
  <2>3. k \in 0..(Len(m) - 1) /\ k <= Len(s) /\ k > t /\ Len(s) - k + 1 = p
    BY <1>1, <1>8, <2>1, <2>2 DEF Whole
  <2>4. MayBegin(s, m, Len(s) - k + 1) BY <1>10, <2>3
  <2> HIDE DEF k
  <2>5. k \in fits BY <1>2, <2>3, <2>4
  <2> QED BY <1>7, <1>8, <2>3, <2>5
<1> QED BY <1>8, <1>9, <1>10 DEF t

\* It holds back no more than there is.
LEMMA TailFits ==
  ASSUME NEW s \in Seq(Byte), NEW m, Marker(m)
  PROVE  tailPrefix(s, m) \in 0..Len(s)
BY TailHolds

\* Looking for a marker from some place on is looking for it in the rest.
LEMMA Behind ==
  ASSUME NEW a \in Seq(Byte), NEW b \in Seq(Byte), NEW m, Marker(m),
         NEW p \in Nat, p > 0
  PROVE  /\ MayBegin(a \o b, m, Len(a) + p) <=> MayBegin(b, m, p)
         /\ Occurs(a \o b, m, Len(a) + p) <=> Occurs(b, m, p)
<1> DEFINE s == a \o b
<1>1. /\ s \in Seq(Byte) /\ Len(s) = Len(a) + Len(b)
      /\ Len(a) \in Nat /\ Len(b) \in Nat /\ Len(m) \in Nat /\ Len(m) > 0
      /\ \A i \in 1..(Len(a) + Len(b)) : s[i] = IF i <= Len(a) THEN a[i] ELSE b[i - Len(a)]
  BY ConcatProperties, LenProperties DEF Marker
<1> HIDE DEF s
<1>2. \A k \in 1..Len(m) : (Len(a) + p) + k - 1 <= Len(s) <=> p + k - 1 <= Len(b)
  BY <1>1
<1>3. \A k \in 1..Len(m) : p + k - 1 <= Len(b) => s[(Len(a) + p) + k - 1] = b[p + k - 1]
  <2>1. ASSUME NEW k \in 1..Len(m), p + k - 1 <= Len(b)
        PROVE  s[(Len(a) + p) + k - 1] = b[p + k - 1]
    <3> DEFINE i == (Len(a) + p) + k - 1
    <3>1. i \in 1..(Len(a) + Len(b)) /\ ~(i <= Len(a)) /\ i - Len(a) = p + k - 1
      BY <1>1, <2>1
    <3> HIDE DEF i
    <3>2. s[i] = b[p + k - 1] BY <1>1, <3>1
    <3> QED BY <3>2 DEF i
  <2> QED BY <2>1
<1>4. MayBegin(s, m, Len(a) + p) <=> MayBegin(b, m, p)
  BY <1>2, <1>3 DEF MayBegin
<1>5. Whole(s, m, Len(a) + p) <=> Whole(b, m, p) BY <1>1 DEF Whole
<1>6. Len(a) + p \in Nat /\ Len(a) + p > 0 BY <1>1
<1>7. Occurs(s, m, Len(a) + p) <=> Occurs(b, m, p)
  BY <1>1, <1>4, <1>5, <1>6, OccursIsWhole
<1> QED BY <1>4, <1>7 DEF s

\* What is there stays when more comes, and what can no longer begin cannot
\* begin later.
LEMMA Before ==
  ASSUME NEW a \in Seq(Byte), NEW b \in Seq(Byte), NEW m, Marker(m),
         NEW p \in Nat, p > 0
  PROVE  /\ MayBegin(a \o b, m, p) => MayBegin(a, m, p)
         /\ Occurs(a, m, p) => Occurs(a \o b, m, p)
         /\ Occurs(a \o b, m, p) /\ Whole(a, m, p) => Occurs(a, m, p)
<1> DEFINE s == a \o b
<1>1. /\ s \in Seq(Byte) /\ Len(s) = Len(a) + Len(b)
      /\ Len(a) \in Nat /\ Len(b) \in Nat /\ Len(m) \in Nat /\ Len(m) > 0
      /\ \A i \in 1..(Len(a) + Len(b)) : s[i] = IF i <= Len(a) THEN a[i] ELSE b[i - Len(a)]
  BY ConcatProperties, LenProperties DEF Marker
<1> HIDE DEF s
<1>2. \A i \in 1..Len(a) : s[i] = a[i] BY <1>1
<1>3. \A k \in 1..Len(m) : p + k - 1 <= Len(a) =>
         p + k - 1 \in 1..Len(a) /\ p + k - 1 <= Len(s)
  BY <1>1
<1>4. MayBegin(s, m, p) => MayBegin(a, m, p) BY <1>2, <1>3 DEF MayBegin
<1>5. Whole(a, m, p) => Whole(s, m, p) BY <1>1 DEF Whole
<1>6. Whole(a, m, p) => \A k \in 1..Len(m) : p + k - 1 <= Len(a)
  BY <1>1 DEF Whole
<1>7. Whole(a, m, p) /\ MayBegin(a, m, p) => MayBegin(s, m, p)
  BY <1>2, <1>3, <1>6 DEF MayBegin
<1> QED BY <1>1, <1>4, <1>5, <1>7, OccursIsWhole DEF s

\* A sequence cut in two.
LEMMA CutInTwo ==
  ASSUME NEW s \in Seq(Byte), NEW n \in 0..Len(s)
  PROVE  /\ First(s, n) \in Seq(Byte) /\ From(s, n + 1) \in Seq(Byte)
         /\ First(s, n) \o From(s, n + 1) = s
<1>0. Len(s) \in Nat /\ n \in Nat /\ n <= Len(s) OBVIOUS
<1>1. \A i \in 1..Len(s) : s[i] \in Byte
  <2>1. s \in [1..Len(s) -> Byte] BY LenProperties
  <2> QED BY <2>1
<1>2. First(s, n) \in Seq(Byte)
  <2>1. \A i \in 1..n : s[i] \in Byte BY <1>0, <1>1
  <2> QED BY <1>0, <2>1, SubSeqProperties DEF First
<1>3. From(s, n + 1) \in Seq(Byte)
  <2>1. \A i \in (n + 1)..Len(s) : s[i] \in Byte BY <1>0, <1>1
  <2> QED BY <1>0, <2>1, SubSeqProperties DEF From
<1>4. SubSeq(s, 1, n) \o SubSeq(s, n + 1, Len(s)) = SubSeq(s, 1, Len(s))
  <2>1. 1 \in 1..(Len(s) + 1) /\ n \in (1 - 1)..Len(s) /\ Len(s) \in n..Len(s) BY <1>0
  <2> QED BY <2>1, ConcatAdjacentSubSeq, Zenon
<1>5. SubSeq(s, 1, Len(s)) = s BY SubSeqFull
<1> QED BY <1>2, <1>3, <1>4, <1>5 DEF First, From

\* How long the two parts are.
LEMMA FirstIs ==
  ASSUME NEW s \in Seq(Byte), NEW n \in 0..Len(s)
  PROVE  Len(First(s, n)) = n
<1>1. \A i \in 1..n : s[i] \in Byte BY Elements
<1>2. 1 \in Int /\ n \in Int /\ n - 1 + 1 = n BY Elements
<1>3. Len(SubSeq(s, 1, n)) = IF 1 <= n THEN n - 1 + 1 ELSE 0
  BY <1>1, <1>2, SubSeqProperties
<1> QED BY <1>2, <1>3, Elements DEF First

LEMMA FromIs ==
  ASSUME NEW s \in Seq(Byte), NEW n \in 0..Len(s)
  PROVE  Len(From(s, n + 1)) = Len(s) - n
<1>0. Len(s) \in Nat /\ \A i \in 1..Len(s) : s[i] \in Byte BY Elements
<1>1. \A i \in (n + 1)..Len(s) : s[i] \in Byte BY <1>0
<1>2. n + 1 \in Int /\ Len(s) \in Int BY <1>0
<1>3. Len(SubSeq(s, n + 1, Len(s))) = IF n + 1 <= Len(s) THEN Len(s) - (n + 1) + 1 ELSE 0
  BY <1>1, <1>2, SubSeqProperties
<1> QED BY <1>0, <1>3 DEF From

LEMMA EmitGoes ==
  ASSUME NEW b \in Seq(Byte), out \in Seq(Byte), emitIfAny(b)
  PROVE  Len(out') = Len(out) + Len(b) /\ cuts' \subseteq cuts \cup {Len(out')}
<1>1. Len(out \o b) = Len(out) + Len(b) /\ Len(out) \in Nat
  BY ConcatProperties, Elements
<1>2. CASE b = <<>>
  <2>1. Len(b) = 0 /\ out' = out /\ cuts' = cuts BY <1>2 DEF emitIfAny
  <2> QED BY <1>1, <2>1
<1>3. CASE b # <<>>
  <2>1. out' = out \o b /\ cuts' = cuts \cup {Len(out) + Len(b)} BY <1>3 DEF emitIfAny, emit
  <2> QED BY <1>1, <2>1
<1> QED BY <1>2, <1>3

LEMMA JoinLength ==
  ASSUME NEW s \in Seq(Byte), NEW t \in Seq(Byte)
  PROVE  s \o t \in Seq(Byte) /\ Len(s \o t) = Len(s) + Len(t)
BY ConcatProperties

LEMMA JoinAssociative ==
  ASSUME NEW s \in Seq(Byte), NEW t \in Seq(Byte), NEW u \in Seq(Byte)
  PROVE  (s \o t) \o u = s \o (t \o u)
BY ConcatAssociative

\* A sequence is a prefix of itself with something behind it.
LEMMA PrefixOfConcat ==
  ASSUME NEW s \in Seq(Byte), NEW t \in Seq(Byte)
  PROVE  P!Extends(s, s \o t)
<1>1. Len(s) \in Nat /\ Len(t) \in Nat /\ Len(s \o t) = Len(s) + Len(t)
  BY ConcatProperties
<1>2. SubSeq(s \o t, 1, Len(s)) = s
  <2>1. CASE s = <<>> BY <2>1, SubSeqEmpty
  <2>2. CASE s # <<>>
    <3>1. 1 \in 1..Len(s) /\ Len(s) \in 1..Len(s) BY <2>2, <1>1, EmptySeq
    <3> QED BY <3>1, SubSeqOfConcat1, SubSeqFull
  <2> QED BY <2>1, <2>2
<1> QED BY <1>1, <1>2 DEF P!Extends

-----------------------------------------------------------------------------
(* Lossless *)

\* The sequences the filters work on are sequences.
SyncSeqs ==
  /\ carry \in Seq(Byte) /\ acc \in Seq(Byte) /\ rest \in Seq(Byte)
  /\ sent \in Seq(Byte) /\ out \in Seq(Byte)

\* Lossless is kept because nothing is carried while a call is running and
\* nothing is collected outside a frame.
SyncInv ==
  /\ SyncSeqs
  /\ Lossless
  /\ ~idle => carry = <<>>
  /\ ~syncing => acc = <<>>

\* Concatenation, opaque: only the laws below are used of it.
Cat(s, t) == s \o t

LEMMA CatLaws ==
  /\ \A s, t \in Seq(Byte) : Cat(s, t) \in Seq(Byte)
  /\ \A s \in Seq(Byte) : Cat(s, <<>>) = s /\ Cat(<<>>, s) = s
  /\ \A s, t, u \in Seq(Byte) : Cat(Cat(s, t), u) = Cat(s, Cat(t, u))
<1>1. ASSUME NEW s \in Seq(Byte), NEW t \in Seq(Byte) PROVE s \o t \in Seq(Byte)
  BY ConcatProperties
<1>2. ASSUME NEW s \in Seq(Byte) PROVE s \o <<>> = s /\ <<>> \o s = s
  BY ConcatEmptySeq
<1>3. ASSUME NEW s \in Seq(Byte), NEW t \in Seq(Byte), NEW u \in Seq(Byte)
      PROVE  (s \o t) \o u = s \o (t \o u)
  BY ConcatAssociative
<1> QED BY <1>1, <1>2, <1>3 DEF Cat

\* How a turn of the loop moves bytes from one place to the next: o emitted,
\* a collected, Cat(x, y) still to be read.
LEMMA Moves ==
  ASSUME NEW o \in Seq(Byte), NEW a \in Seq(Byte),
         NEW x \in Seq(Byte), NEW y \in Seq(Byte)
  PROVE  /\ Cat(o, Cat(<<>>, Cat(<<>>, Cat(x, y)))) = Cat(Cat(o, x), Cat(<<>>, Cat(<<>>, y)))
         /\ Cat(o, Cat(<<>>, Cat(<<>>, Cat(x, y)))) = Cat(Cat(o, x), Cat(<<>>, Cat(y, <<>>)))
         /\ Cat(o, Cat(a, Cat(<<>>, Cat(x, y)))) = Cat(Cat(o, Cat(a, x)), Cat(<<>>, Cat(<<>>, y)))
         /\ Cat(o, Cat(a, Cat(<<>>, Cat(x, y)))) = Cat(o, Cat(Cat(a, x), Cat(y, <<>>)))
<1>1. Cat(x, y) \in Seq(Byte) /\ Cat(a, x) \in Seq(Byte) BY CatLaws
<1>2. Cat(<<>>, Cat(x, y)) = Cat(x, y) BY <1>1, CatLaws
<1>3. Cat(<<>>, y) = y /\ Cat(y, <<>>) = y BY CatLaws
<1>4. Cat(Cat(o, x), y) = Cat(o, Cat(x, y)) BY CatLaws
<1>5. Cat(Cat(a, x), y) = Cat(a, Cat(x, y)) BY CatLaws
<1>6. Cat(Cat(o, Cat(a, x)), y) = Cat(o, Cat(Cat(a, x), y)) BY <1>1, CatLaws
<1> QED BY <1>2, <1>3, <1>4, <1>5, <1>6

LEMMA FeedKeeps ==
  ASSUME SyncInv, NEW b \in Seq(Byte), feed(b)
  PROVE  SyncInv' /\ P!Send
<1>1. /\ rest = <<>> /\ rest' = carry \o b /\ carry' = <<>> /\ sent' = sent \o b
      /\ syncing' = syncing /\ acc' = acc /\ out' = out
  BY DEF feed, idle
<1>2. /\ carry \in Seq(Byte) /\ acc \in Seq(Byte) /\ sent \in Seq(Byte)
      /\ out \in Seq(Byte) /\ (~syncing => acc = <<>>)
      /\ sent = out \o (acc \o (carry \o <<>>))
  BY <1>1 DEF SyncInv, SyncSeqs, Lossless
<1>3. /\ carry \o b \in Seq(Byte) /\ sent \o b \in Seq(Byte)
      /\ acc \o carry \in Seq(Byte)
  BY <1>2, ConcatProperties
<1>4. sent \o b = out \o (acc \o (<<>> \o (carry \o b)))
  <2>1. carry \o <<>> = carry /\ <<>> \o (carry \o b) = carry \o b
    BY <1>2, <1>3, ConcatEmptySeq
  <2>2. (out \o (acc \o carry)) \o b = out \o ((acc \o carry) \o b)
    BY <1>2, <1>3, ConcatAssociative
  <2>3. (acc \o carry) \o b = acc \o (carry \o b)
    BY <1>2, ConcatAssociative
  <2> QED BY <1>2, <2>1, <2>2, <2>3
<1>5. Lossless' BY <1>1, <1>4 DEF Lossless
<1>6. SyncSeqs' BY <1>1, <1>2, <1>3, EmptySeq DEF SyncSeqs
<1>7. P!Send BY <1>1, <1>2, PrefixOfConcat DEF P!Send
<1> QED BY <1>1, <1>2, <1>5, <1>6, <1>7 DEF SyncInv

\* A turn that emits keeps the pipe's promise: what was emitted stays, and
\* Lossless says that it is a prefix of what was fed.
LEMMA EmitDelivers ==
  ASSUME SyncSeqs, SyncSeqs', Lossless', sent' = sent,
         NEW b \in Seq(Byte), out' = out \o b
  PROVE  P!Deliver
<1>1. out \in Seq(Byte) BY DEF SyncSeqs
<1>2. out' \in Seq(Byte) /\ acc' \in Seq(Byte) /\ carry' \in Seq(Byte)
      /\ rest' \in Seq(Byte)
  BY DEF SyncSeqs
<1>3. acc' \o (carry' \o rest') \in Seq(Byte) BY <1>2, ConcatProperties
<1>4. P!Extends(out, out') BY <1>1, PrefixOfConcat
<1>5. sent = out' \o (acc' \o (carry' \o rest')) BY DEF Lossless
<1>6. P!Extends(out', sent)
  <2> DEFINE e == acc' \o (carry' \o rest')
  <2>1. e \in Seq(Byte) /\ sent = out' \o e BY <1>3, <1>5
  <2> HIDE DEF e
  <2> QED BY <2>1, <1>2, PrefixOfConcat
<1> QED BY <1>4, <1>6 DEF P!Deliver

LEMMA StepKeeps ==
  ASSUME SyncInv, SyncStep
  PROVE  SyncInv' /\ P!Deliver
<1>1. /\ carry = <<>> /\ acc \in Seq(Byte) /\ rest \in Seq(Byte)
      /\ sent \in Seq(Byte) /\ out \in Seq(Byte) /\ SyncSeqs
      /\ (~syncing => acc = <<>>)
      /\ sent = out \o (acc \o (<<>> \o rest))
      /\ <<>> \in Seq(Byte)
  BY EmptySeq DEF SyncStep, OpenFrame, PassText, CloseFrame, HoldFrame,
                  SyncInv, SyncSeqs, Lossless
<1>2. Marker(BSU) /\ Marker(ESU) BY SyncAssumption
<1>3. ASSUME NEW x \in Seq(Byte), emitIfAny(x)
      PROVE  out' = out \o x
  BY <1>1, <1>3, ConcatEmptySeq DEF emitIfAny, emit
<1>4. CASE OpenFrame
  <2> DEFINE i == indexOf(rest, BSU)
             x == First(rest, i - 1)
             y == From(rest, i)
  <2>1. i \in 1..Len(rest) /\ i - 1 \in 0..Len(rest) /\ (i - 1) + 1 = i
    BY <1>1, <1>2, <1>4, IndexFits DEF OpenFrame
  <2>2. x \in Seq(Byte) /\ y \in Seq(Byte) /\ rest = Cat(x, y)
    BY <1>1, <2>1, CutInTwo DEF Cat
  <2>3. /\ emitIfAny(x) /\ syncing' = TRUE /\ acc' = <<>> /\ rest' = y
        /\ carry' = carry /\ sent' = sent /\ ~syncing
    BY <1>4 DEF OpenFrame
  <2> HIDE DEF x, y
  <2>4. out' = out \o x BY <1>3, <2>2, <2>3
  <2>5. SyncSeqs' BY <1>1, <2>2, <2>3, <2>4, ConcatProperties DEF SyncSeqs
  <2>6. Cat(out, Cat(<<>>, Cat(<<>>, rest))) = Cat(Cat(out, x), Cat(<<>>, Cat(<<>>, y)))
    BY <1>1, <2>2, Moves
  <2>7. Lossless' BY <1>1, <2>3, <2>4, <2>6 DEF Lossless, Cat
  <2>8. SyncInv' BY <1>1, <2>3, <2>5, <2>7 DEF SyncInv
  <2> QED BY <1>1, <2>2, <2>3, <2>4, <2>5, <2>7, <2>8, EmitDelivers
<1>5. CASE PassText
  <2> DEFINE cut == Len(rest) - tailPrefix(rest, BSU)
             x == First(rest, cut)
             y == From(rest, cut + 1)
  <2>1. cut \in 0..Len(rest) BY <1>1, <1>2, TailFits
  <2>2. x \in Seq(Byte) /\ y \in Seq(Byte) /\ rest = Cat(x, y)
    BY <1>1, <2>1, CutInTwo DEF Cat
  <2>3. /\ emitIfAny(x) /\ syncing' = syncing /\ acc' = acc /\ rest' = <<>>
        /\ carry' = y /\ sent' = sent /\ ~syncing
    BY <1>5 DEF PassText
  <2> HIDE DEF x, y
  <2>4. out' = out \o x BY <1>3, <2>2, <2>3
  <2>5. SyncSeqs' BY <1>1, <2>2, <2>3, <2>4, ConcatProperties DEF SyncSeqs
  <2>6. Cat(out, Cat(<<>>, Cat(<<>>, rest))) = Cat(Cat(out, x), Cat(<<>>, Cat(y, <<>>)))
    BY <1>1, <2>2, Moves
  <2>7. Lossless' BY <1>1, <2>3, <2>4, <2>6 DEF Lossless, Cat
  <2>8. SyncInv' BY <1>1, <2>3, <2>5, <2>7 DEF SyncInv, idle
  <2> QED BY <1>1, <2>2, <2>3, <2>4, <2>5, <2>7, <2>8, EmitDelivers
<1>6. CASE CloseFrame
  <2> DEFINE end == indexOf(rest, ESU) + Len(ESU) - 1
             x == First(rest, end)
             y == From(rest, end + 1)
             b == acc \o x
  <2>1. end \in 0..Len(rest)
    <3>1. indexOf(rest, ESU) \in 1..Len(rest) BY <1>1, <1>2, <1>6, IndexFits DEF CloseFrame
    <3>2. indexOf(rest, ESU) + Len(ESU) <= Len(rest) + 1 BY <1>1, <1>2, <3>1, IndexFits
    <3>3. Len(ESU) \in Nat /\ Len(ESU) > 0 BY <1>2 DEF Marker
    <3> QED BY <3>1, <3>2, <3>3
  <2>2. x \in Seq(Byte) /\ y \in Seq(Byte) /\ rest = Cat(x, y)
    BY <1>1, <2>1, CutInTwo DEF Cat
  <2>3. /\ out' = out \o b /\ syncing' = FALSE /\ acc' = <<>>
        /\ rest' = y /\ carry' = carry /\ sent' = sent
    BY <1>6 DEF CloseFrame, emit
  <2> HIDE DEF x, y
  <2>4. b \in Seq(Byte) /\ b = acc \o x BY <1>1, <2>2, ConcatProperties
  <2> HIDE DEF b
  <2>5. SyncSeqs' BY <1>1, <2>2, <2>3, <2>4, ConcatProperties DEF SyncSeqs
  <2>6. Cat(out, Cat(acc, Cat(<<>>, rest))) = Cat(Cat(out, Cat(acc, x)), Cat(<<>>, Cat(<<>>, y)))
    BY <1>1, <2>2, Moves
  <2>7. Lossless' BY <1>1, <2>3, <2>4, <2>6 DEF Lossless, Cat
  <2>8. SyncInv' BY <1>1, <2>3, <2>5, <2>7 DEF SyncInv
  <2> QED BY <1>1, <2>3, <2>4, <2>5, <2>7, <2>8, EmitDelivers
<1>7. CASE HoldFrame
  <2> DEFINE cut == Len(rest) - tailPrefix(rest, ESU)
             x == First(rest, cut)
             y == From(rest, cut + 1)
             b == acc \o x
  <2>1. cut \in 0..Len(rest) BY <1>1, <1>2, TailFits
  <2>2. x \in Seq(Byte) /\ y \in Seq(Byte) /\ rest = Cat(x, y)
    BY <1>1, <2>1, CutInTwo DEF Cat
  <2>3. /\ acc' = b /\ carry' = y /\ rest' = <<>> /\ syncing' = syncing
        /\ sent' = sent /\ out' = out /\ syncing
    BY <1>7 DEF HoldFrame
  <2> HIDE DEF x, y
  <2>4. b \in Seq(Byte) /\ b = acc \o x BY <1>1, <2>2, ConcatProperties
  <2> HIDE DEF b
  <2>5. SyncSeqs' BY <1>1, <2>2, <2>3, <2>4 DEF SyncSeqs
  <2>6. Cat(out, Cat(acc, Cat(<<>>, rest))) = Cat(out, Cat(Cat(acc, x), Cat(y, <<>>)))
    BY <1>1, <2>2, Moves
  <2>7. Lossless' BY <1>1, <2>3, <2>4, <2>6 DEF Lossless, Cat
  <2>8. SyncInv' BY <1>1, <2>3, <2>5, <2>7 DEF SyncInv, idle
  <2>9. out' = out \o <<>> BY <1>1, <2>3, ConcatEmptySeq
  <2> QED BY <1>1, <2>3, <2>5, <2>7, <2>8, <2>9, EmitDelivers
<1> QED BY <1>4, <1>5, <1>6, <1>7 DEF SyncStep

\* A new connection: a filter that holds nothing.
LEMMA NewFilter ==
  ASSUME makeSyncFilter
  PROVE  SyncInv' /\ P!Reopen
<1>1. /\ carry' = <<>> /\ syncing' = FALSE /\ acc' = <<>> /\ rest' = <<>>
      /\ sent' = <<>> /\ out' = <<>>
  BY DEF makeSyncFilter
<1>2. <<>> \in Seq(Byte) /\ <<>> = <<>> \o (<<>> \o (<<>> \o <<>>))
  <2>1. <<>> \in Seq(Byte) BY EmptySeq
  <2>2. <<>> \o <<>> = <<>> BY <2>1, ConcatEmptySeq
  <2> QED BY <2>1, <2>2
<1>3. SyncSeqs' BY <1>1, <1>2 DEF SyncSeqs
<1>4. Lossless' BY <1>1, <1>2 DEF Lossless
<1>5. P!Reopen BY <1>1 DEF P!Reopen
<1> QED BY <1>1, <1>3, <1>4, <1>5 DEF SyncInv

-----------------------------------------------------------------------------
(* Frames *)

\* Of what there is up to c, nothing is a frame or may become one that is not
\* closed up to c.
Sealed(s, c) ==
  \A p \in 1..c : MayBegin(s, BSU, p) =>
    \E j \in p..c : Occurs(s, ESU, j) /\ j + Len(ESU) - 1 <= c

\* What the filter knows of frames: every emit ended outside of one; inside a
\* frame the collected part does not close it; and between two calls it holds
\* no more than the beginning of a marker.
Frames ==
  /\ cuts \subseteq 0..Len(out)
  /\ \A c \in cuts \cup {Len(out)} : Sealed(sent, c)
  /\ syncing =>
       /\ Occurs(sent, BSU, Len(out) + 1)
       /\ \A p \in (Len(out) + 1)..(Len(out) + Len(acc)) : ~MayBegin(sent, ESU, p)
  /\ idle =>
       IF syncing THEN Len(carry) < Len(ESU)
       ELSE Len(carry) < Len(BSU) /\ MayBegin(sent, BSU, Len(out) + 1)

LEMMA MarkerLengths ==
  /\ Marker(BSU) /\ Marker(ESU) /\ Len(ESU) = Len(BSU)
  /\ Len(BSU) \in Nat /\ Len(ESU) \in Nat /\ Len(BSU) > 0 /\ Len(ESU) > 0
BY SyncAssumption, FrameMarkers DEF Marker

\* More text in which no frame begins.
LEMMA SealedFurther ==
  ASSUME NEW s, NEW c \in Nat, NEW d \in Nat, c <= d, Sealed(s, c),
         \A p \in (c + 1)..d : ~MayBegin(s, BSU, p)
  PROVE  Sealed(s, d)
<1>1. SUFFICES ASSUME NEW p \in 1..d, MayBegin(s, BSU, p)
               PROVE  \E j \in p..d : Occurs(s, ESU, j) /\ j + Len(ESU) - 1 <= d
  BY DEF Sealed
<1>2. p \in 1..c
  <2>1. ~(p \in (c + 1)..d) BY <1>1
  <2> QED BY <2>1
<1>3. PICK j \in p..c : Occurs(s, ESU, j) /\ j + Len(ESU) - 1 <= c
  BY <1>1, <1>2 DEF Sealed
<1>4. j \in p..d /\ j + Len(ESU) - 1 <= d BY <1>2, <1>3, MarkerLengths
<1> QED BY <1>3, <1>4

\* A frame that closes at d: nothing up to there is open.
LEMMA SealedByMarker ==
  ASSUME NEW s \in Seq(Byte), NEW j \in Nat, j > 0, Occurs(s, ESU, j)
  PROVE  Sealed(s, j + Len(ESU) - 1)
<1> DEFINE d == j + Len(ESU) - 1
<1>1. Whole(s, ESU, j) /\ MayBegin(s, ESU, j) BY OccursIsWhole, MarkerLengths
<1>2. Len(s) \in Nat /\ d \in Nat /\ d <= Len(s) /\ j <= d
  BY <1>1, Elements, MarkerLengths DEF Whole
<1>3. SUFFICES ASSUME NEW p \in 1..d, MayBegin(s, BSU, p)
               PROVE  p <= j
  BY <1>2 DEF Sealed
<1>4. SUFFICES ASSUME ~(p <= j) PROVE FALSE OBVIOUS
<1> DEFINE r == p - j + 1
<1>5. r \in 2..Len(ESU) /\ r \in 1..Len(ESU) /\ j + r - 1 = p /\ p <= Len(s)
      /\ 1 \in 1..Len(BSU) /\ p + 1 - 1 = p
  BY <1>2, <1>4, MarkerLengths
<1> HIDE DEF r
<1>6. s[p] = ESU[r] BY <1>1, <1>5 DEF MayBegin
<1>7. s[p] = BSU[1] BY <1>3, <1>5 DEF MayBegin
<1> QED BY <1>5, <1>6, <1>7, FrameMarkers

\* More data: what was sealed stays sealed.
LEMMA SealedLater ==
  ASSUME NEW a \in Seq(Byte), NEW b \in Seq(Byte), NEW c \in Nat, Sealed(a, c)
  PROVE  Sealed(a \o b, c)
<1>1. SUFFICES ASSUME NEW p \in 1..c, MayBegin(a \o b, BSU, p)
               PROVE  \E j \in p..c : Occurs(a \o b, ESU, j) /\ j + Len(ESU) - 1 <= c
  BY DEF Sealed
<1>2. p \in Nat /\ p > 0 OBVIOUS
<1>3. MayBegin(a, BSU, p) BY <1>1, <1>2, Before, MarkerLengths
<1>4. PICK j \in p..c : Occurs(a, ESU, j) /\ j + Len(ESU) - 1 <= c
  BY <1>3 DEF Sealed
<1>5. j \in Nat /\ j > 0 BY <1>2
<1>6. Occurs(a \o b, ESU, j) BY <1>4, <1>5, Before, MarkerLengths
<1> QED BY <1>4, <1>6

\* In a text without the marker, up to the held tail, nothing may begin one.
LEMMA NoneBegins ==
  ASSUME NEW a \in Seq(Byte), NEW b \in Seq(Byte), NEW m, Marker(m),
         indexOf(b, m) = 0,
         NEW p, p \in (Len(a) + 1)..(Len(a) + (Len(b) - tailPrefix(b, m)))
  PROVE  ~MayBegin(a \o b, m, p)
<1> DEFINE q == p - Len(a)
           t == tailPrefix(b, m)
<1>1. Len(a) \in Nat /\ Len(b) \in Nat /\ t \in 0..Len(b) BY Elements, TailFits
<1>2. p = Len(a) + q /\ q \in Nat /\ q > 0 /\ q \in 1..(Len(b) - t) /\ q \in 1..Len(b)
  BY <1>1
<1> HIDE DEF q
<1>3. MayBegin(a \o b, m, Len(a) + q) <=> MayBegin(b, m, q) BY <1>2, Behind
<1>4. MayBegin(b, m, q) => Occurs(b, m, q) BY <1>2, TailHolds DEF t
<1>5. ~Occurs(b, m, q) BY <1>2, IndexFirst
<1> QED BY <1>2, <1>3, <1>4, <1>5

\* Where the data of a turn lies in what was fed.
LEMMA Layout ==
  ASSUME SyncInv, ~idle
  PROVE  /\ out \o acc \in Seq(Byte) /\ Len(out \o acc) = Len(out) + Len(acc)
         /\ sent = (out \o acc) \o rest
         /\ ~syncing => sent = out \o rest /\ Len(acc) = 0
<1>1. /\ carry = <<>> /\ sent = out \o (acc \o (carry \o rest))
      /\ carry \in Seq(Byte) /\ acc \in Seq(Byte) /\ rest \in Seq(Byte)
      /\ sent \in Seq(Byte) /\ out \in Seq(Byte) /\ (~syncing => acc = <<>>)
  BY DEF SyncInv, SyncSeqs, Lossless
<1>2. <<>> \o rest = rest BY <1>1, ConcatEmptySeq
<1>3. (out \o acc) \o rest = out \o (acc \o rest)
  <2>1. out \in Seq(Byte) /\ acc \in Seq(Byte) /\ rest \in Seq(Byte) BY <1>1
  <2> QED BY <2>1, JoinAssociative
<1>4. out \o <<>> = out BY <1>1, ConcatEmptySeq
<1>5. out \o acc \in Seq(Byte) /\ Len(out \o acc) = Len(out) + Len(acc)
  BY <1>1, ConcatProperties
<1> QED BY <1>1, <1>2, <1>3, <1>4, <1>5

LEMMA NewFilterFrames ==
  ASSUME carry' = <<>>, syncing' = FALSE, sent' = <<>>, out' = <<>>, cuts' = {}
  PROVE  Frames'
<1>1. Len(out') = 0 /\ Len(carry') = 0 /\ Len(sent') = 0 OBVIOUS
<1>2. Sealed(sent, 0)' BY DEF Sealed
<1>3. MayBegin(sent, BSU, 1)' BY <1>1, MarkerLengths DEF MayBegin
<1>4. \A c \in (cuts \cup {Len(out)})' : Sealed(sent', c)
  <2>1. \A c \in (cuts \cup {Len(out)})' : c = 0 BY <1>1
  <2> QED BY <2>1, <1>2
<1> QED BY <1>1, <1>3, <1>4, MarkerLengths DEF Frames

LEMMA FeedFrames ==
  ASSUME SyncInv, Frames, NEW b \in Seq(Byte), feed(b)
  PROVE  Frames'
<1>1. /\ rest = <<>> /\ rest' = carry \o b /\ carry' = <<>> /\ sent' = sent \o b
      /\ syncing' = syncing /\ acc' = acc /\ out' = out /\ cuts' = cuts
  BY DEF feed, idle
<1>2. /\ carry \in Seq(Byte) /\ acc \in Seq(Byte) /\ sent \in Seq(Byte)
      /\ out \in Seq(Byte) /\ Len(out) \in Nat /\ Len(acc) \in Nat
  BY Elements DEF SyncInv, SyncSeqs
<1>3. \A c \in cuts \cup {Len(out)} : Sealed(sent \o b, c)
  <2>1. \A c \in cuts \cup {Len(out)} : c \in Nat /\ Sealed(sent, c)
    BY <1>2 DEF Frames
  <2> QED BY <2>1, <1>2, SealedLater
<1>4. ASSUME syncing
      PROVE  /\ Occurs(sent \o b, BSU, Len(out) + 1)
             /\ \A p \in (Len(out) + 1)..(Len(out) + Len(acc)) : ~MayBegin(sent \o b, ESU, p)
  <2>1. Len(out) + 1 \in Nat /\ Len(out) + 1 > 0 BY <1>2
  <2>2. Occurs(sent, BSU, Len(out) + 1) BY <1>4 DEF Frames
  <2>3. Occurs(sent \o b, BSU, Len(out) + 1)
    BY <1>2, <2>1, <2>2, Before, MarkerLengths
  <2>4. ASSUME NEW p \in (Len(out) + 1)..(Len(out) + Len(acc))
        PROVE  ~MayBegin(sent \o b, ESU, p)
    <3>1. p \in Nat /\ p > 0 BY <1>2
    <3>2. ~MayBegin(sent, ESU, p) BY <1>4, <2>4 DEF Frames
    <3> QED BY <1>2, <3>1, <3>2, Before, MarkerLengths
  <2> QED BY <2>3, <2>4
<1>5. ASSUME idle', ~syncing PROVE MayBegin(sent \o b, BSU, Len(out) + 1)
  <2>1. Len(out) + 1 \in Nat /\ Len(out) + 1 > 0 BY <1>2
  <2>2. carry \o b = <<>> BY <1>1, <1>5 DEF idle
  <2>3. b = <<>>
    <3>1. Len(carry \o b) = Len(carry) + Len(b) /\ Len(b) \in Nat /\ Len(carry) \in Nat
      BY <1>2, ConcatProperties, Elements
    <3>2. Len(b) = 0 BY <2>2, <3>1
    <3> QED BY <3>2, EmptySeq
  <2>4. sent \o b = sent BY <1>2, <2>3, ConcatEmptySeq
  <2>5. MayBegin(sent, BSU, Len(out) + 1) BY <1>1, <1>5 DEF Frames, idle
  <2> QED BY <2>4, <2>5
<1>6. Len(carry') < Len(ESU) /\ Len(carry') < Len(BSU) BY <1>1, MarkerLengths
<1> QED BY <1>1, <1>3, <1>4, <1>5, <1>6 DEF Frames

\* A turn of the loop.  OpenFrame and PassText let text pass in which no frame
\* begins; CloseFrame emits up to a marker; HoldFrame emits nothing.
LEMMA OpenFrameFrames ==
  ASSUME SyncInv, Frames, OpenFrame
  PROVE  Frames'
<1> DEFINE i == indexOf(rest, BSU)
           x == First(rest, i - 1)
<1>1. /\ ~idle /\ ~syncing /\ i > 0 /\ emitIfAny(x) /\ syncing' = TRUE
      /\ acc' = <<>> /\ rest' = From(rest, i) /\ carry' = carry /\ sent' = sent
  BY DEF OpenFrame
<1>2. /\ rest \in Seq(Byte) /\ out \in Seq(Byte)
      /\ Len(out) \in Nat /\ Len(rest) \in Nat
  BY Elements DEF SyncInv, SyncSeqs
<1>3. sent = out \o rest BY <1>1, Layout
<1>4. /\ i \in 1..Len(rest) /\ i + Len(BSU) <= Len(rest) + 1 /\ Occurs(rest, BSU, i)
      /\ \A p \in 1..Len(rest) : Occurs(rest, BSU, p) => i <= p
  BY <1>1, <1>2, IndexFirst, IndexFits, MarkerLengths
<1> HIDE DEF i
<1>5. x \in Seq(Byte) /\ Len(x) = i - 1 /\ i - 1 \in 0..Len(rest)
      /\ (i - 1) + 1 = i
  <2>1. i - 1 \in 0..Len(rest) /\ (i - 1) + 1 = i BY <1>2, <1>4
  <2> QED BY <1>2, <2>1, CutInTwo, FirstIs
<1> HIDE DEF x
<1>6. Len(out') = Len(out) + (i - 1) /\ cuts' \subseteq cuts \cup {Len(out')}
  BY <1>1, <1>2, <1>5, EmitGoes
<1>7. \A p \in (Len(out) + 1)..Len(out') : ~MayBegin(sent, BSU, p)
  <2>1. ASSUME NEW p \in (Len(out) + 1)..Len(out'), MayBegin(sent, BSU, p) PROVE FALSE
    <3> DEFINE q == p - Len(out)
    <3>1. q \in Nat /\ q > 0 /\ q \in 1..Len(rest) /\ p = Len(out) + q /\ q < i
      BY <1>2, <1>4, <1>6
    <3>2. Whole(rest, BSU, q) BY <1>2, <1>4, <3>1, MarkerLengths DEF Whole
    <3> HIDE DEF q
    <3>3. MayBegin(rest, BSU, q) BY <1>2, <1>3, <2>1, <3>1, Behind, MarkerLengths
    <3>4. Occurs(rest, BSU, q) BY <1>2, <3>1, <3>2, <3>3, OccursIsWhole, MarkerLengths
    <3> QED BY <1>2, <1>4, <3>1, <3>4
  <2> QED BY <2>1
<1>8. Len(out) <= Len(out') /\ Len(out') \in Nat BY <1>2, <1>4, <1>6
<1>9. Sealed(sent, Len(out'))
  <2>1. Sealed(sent, Len(out)) BY DEF Frames
  <2> QED BY <1>2, <1>7, <1>8, <2>1, SealedFurther
<1>10. Occurs(sent, BSU, Len(out') + 1)
  <2>1. i \in Nat /\ i > 0 /\ Len(out') + 1 = Len(out) + i BY <1>2, <1>4, <1>6
  <2>2. Occurs(sent, BSU, Len(out) + i)
    BY <1>2, <1>3, <1>4, <2>1, Behind, MarkerLengths
  <2> QED BY <2>1, <2>2
<1>11. rest' # <<>>
  <2>1. Len(From(rest, (i - 1) + 1)) = Len(rest) - (i - 1) BY <1>2, <1>5, FromIs
  <2>2. Len(rest') > 0 BY <1>1, <1>2, <1>4, <1>5, <2>1
  <2> QED BY <2>2
<1>12. \A p \in (Len(out') + 1)..(Len(out') + Len(acc')) : FALSE BY <1>1, <1>8
<1>13. cuts' \subseteq 0..Len(out') /\ \A c \in cuts' \cup {Len(out')} : Sealed(sent, c)
  BY <1>2, <1>6, <1>8, <1>9 DEF Frames
<1> QED BY <1>1, <1>10, <1>11, <1>12, <1>13 DEF Frames, idle

LEMMA PassTextFrames ==
  ASSUME SyncInv, Frames, PassText
  PROVE  Frames'
<1> DEFINE t == tailPrefix(rest, BSU)
           cut == Len(rest) - t
           x == First(rest, cut)
           y == From(rest, cut + 1)
<1>1. /\ ~idle /\ ~syncing /\ indexOf(rest, BSU) = 0 /\ emitIfAny(x)
      /\ carry' = y /\ rest' = <<>> /\ syncing' = syncing /\ acc' = acc /\ sent' = sent
  BY DEF PassText
<1>2. /\ rest \in Seq(Byte) /\ out \in Seq(Byte)
      /\ Len(out) \in Nat /\ Len(rest) \in Nat
  BY Elements DEF SyncInv, SyncSeqs
<1>3. sent = out \o rest BY <1>1, Layout
<1>4. /\ t \in 0..Len(rest) /\ t < Len(BSU)
      /\ MayBegin(rest, BSU, Len(rest) - t + 1)
  BY <1>2, TailHolds, MarkerLengths
<1>5. \A p \in (Len(out) + 1)..(Len(out) + (Len(rest) - t)) : ~MayBegin(sent, BSU, p)
  BY <1>1, <1>2, <1>3, NoneBegins, MarkerLengths
<1> HIDE DEF t
<1>6. cut \in 0..Len(rest) /\ cut \in Nat BY <1>2, <1>4
<1>7. x \in Seq(Byte) /\ Len(x) = cut /\ Len(y) = Len(rest) - cut
  BY <1>2, <1>6, CutInTwo, FirstIs, FromIs
<1> HIDE DEF x, y
<1>8. Len(out') = Len(out) + cut /\ cuts' \subseteq cuts \cup {Len(out')}
  BY <1>1, <1>2, <1>7, EmitGoes
<1>9. Len(out) <= Len(out') /\ Len(out') \in Nat BY <1>2, <1>6, <1>8
<1>10. Sealed(sent, Len(out'))
  <2>1. Sealed(sent, Len(out)) BY DEF Frames
  <2> QED BY <1>2, <1>5, <1>8, <1>9, <2>1, SealedFurther
<1>11. Len(carry') < Len(BSU) BY <1>1, <1>2, <1>4, <1>7
<1>12. MayBegin(sent, BSU, Len(out') + 1)
  <2>1. cut + 1 \in Nat /\ cut + 1 > 0 /\ Len(out') + 1 = Len(out) + (cut + 1)
        /\ Len(rest) - t + 1 = cut + 1
    BY <1>2, <1>4, <1>6, <1>8
  <2> HIDE DEF cut
  <2>2. MayBegin(sent, BSU, Len(out) + (cut + 1))
    BY <1>2, <1>3, <1>4, <2>1, Behind, MarkerLengths
  <2> QED BY <2>1, <2>2
<1>13. cuts' \subseteq 0..Len(out') /\ \A c \in cuts' \cup {Len(out')} : Sealed(sent, c)
  BY <1>2, <1>8, <1>9, <1>10 DEF Frames
<1> QED BY <1>1, <1>11, <1>12, <1>13 DEF Frames

LEMMA CloseFrameFrames ==
  ASSUME SyncInv, Frames, CloseFrame
  PROVE  Frames'
<1> DEFINE k == indexOf(rest, ESU)
           end == k + Len(ESU) - 1
           x == First(rest, end)
           h == out \o acc
<1>1. /\ ~idle /\ syncing /\ k > 0 /\ emit(acc \o x) /\ acc' = <<>>
      /\ syncing' = FALSE /\ rest' = From(rest, end + 1) /\ carry' = carry /\ sent' = sent
  BY DEF CloseFrame
<1>2. /\ rest \in Seq(Byte) /\ out \in Seq(Byte) /\ acc \in Seq(Byte)
      /\ Len(out) \in Nat /\ Len(rest) \in Nat /\ Len(acc) \in Nat /\ sent \in Seq(Byte)
      /\ carry = <<>>
  BY <1>1, Elements DEF SyncInv, SyncSeqs
<1>3. sent = h \o rest /\ h \in Seq(Byte) /\ Len(h) = Len(out) + Len(acc)
  BY <1>1, Layout
<1>4. k \in 1..Len(rest) /\ k + Len(ESU) <= Len(rest) + 1 /\ Occurs(rest, ESU, k)
  BY <1>1, <1>2, IndexFirst, IndexFits, MarkerLengths
<1> HIDE DEF k, h
<1>5. end \in 0..Len(rest) /\ end \in Nat BY <1>2, <1>4, MarkerLengths
<1>6. /\ x \in Seq(Byte) /\ Len(x) = end
      /\ Len(From(rest, end + 1)) = Len(rest) - end
  BY <1>2, <1>5, CutInTwo, FirstIs, FromIs
<1>7. Len(out') = Len(out) + (Len(acc) + end) /\ cuts' = cuts \cup {Len(out')}
  <2> HIDE DEF x, end
  <2>1. acc \o x \in Seq(Byte) /\ Len(acc \o x) = Len(acc) + end
    BY <1>2, <1>6, JoinLength
  <2>2. Len(out \o (acc \o x)) = Len(out) + Len(acc \o x)
    BY <1>2, <2>1, JoinLength
  <2> QED BY <1>1, <2>1, <2>2 DEF emit
<1> HIDE DEF x
<1> DEFINE j == Len(h) + k
<1>8. j \in Nat /\ j > 0 /\ j + Len(ESU) - 1 = Len(out') /\ k \in Nat /\ k > 0
  BY <1>2, <1>3, <1>4, <1>7, MarkerLengths
<1>9. Occurs(sent, ESU, j) BY <1>2, <1>3, <1>4, <1>8, Behind, MarkerLengths
<1> HIDE DEF j
<1>10. Sealed(sent, Len(out'))
  <2>1. Sealed(sent, j + Len(ESU) - 1) BY <1>2, <1>8, <1>9, SealedByMarker
  <2> QED BY <1>8, <2>1
<1>11. Len(out) <= Len(out') /\ Len(out') \in Nat BY <1>2, <1>5, <1>7
<1> HIDE DEF end
<1>12. ASSUME rest' = <<>> PROVE MayBegin(sent, BSU, Len(out') + 1)
  <2>1. Len(rest') = 0 BY <1>12
  <2>2. end = Len(rest) BY <1>1, <1>2, <1>5, <1>6, <2>1
  <2>3. Len(sent) = Len(h) + Len(rest) BY <1>2, <1>3, JoinLength
  <2>4. Len(out') = Len(sent) BY <1>2, <1>3, <1>7, <2>2, <2>3
  <2>5. \A r \in 1..Len(BSU) : ~((Len(out') + 1) + r - 1 <= Len(sent))
    BY <1>11, <2>4, MarkerLengths
  <2> QED BY <2>5 DEF MayBegin
<1>13. Len(carry') < Len(BSU) BY <1>1, <1>2, MarkerLengths
<1>14. cuts' \subseteq 0..Len(out') /\ \A c \in cuts' \cup {Len(out')} : Sealed(sent, c)
  <2>1. cuts \subseteq 0..Len(out) /\ \A c \in cuts : Sealed(sent, c) BY DEF Frames
  <2>2. cuts' = cuts \cup {Len(out')} /\ Len(out) \in Nat BY <1>2, <1>7
  <2>3. 0..Len(out) \subseteq 0..Len(out') /\ Len(out') \in 0..Len(out')
    BY <1>11, <2>2
  <2>4. cuts' \subseteq 0..Len(out') BY <2>1, <2>2, <2>3
  <2>5. \A c \in cuts' \cup {Len(out')} : Sealed(sent, c) BY <1>10, <2>1, <2>2
  <2> QED BY <2>4, <2>5
<1>15. syncing' = FALSE /\ sent' = sent BY <1>1
<1>16. idle' => Len(carry') < Len(BSU) /\ MayBegin(sent', BSU, Len(out') + 1)
  BY <1>12, <1>13, <1>15 DEF idle
<1> QED BY <1>14, <1>15, <1>16 DEF Frames

LEMMA HoldFrameFrames ==
  ASSUME SyncInv, Frames, HoldFrame
  PROVE  Frames'
<1> DEFINE t == tailPrefix(rest, ESU)
           cut == Len(rest) - t
           x == First(rest, cut)
           y == From(rest, cut + 1)
           h == out \o acc
<1>1. /\ ~idle /\ syncing /\ indexOf(rest, ESU) = 0 /\ acc' = acc \o x
      /\ carry' = y /\ rest' = <<>> /\ syncing' = syncing /\ sent' = sent
      /\ out' = out /\ cuts' = cuts
  BY DEF HoldFrame
<1>2. /\ rest \in Seq(Byte) /\ out \in Seq(Byte) /\ acc \in Seq(Byte)
      /\ Len(out) \in Nat /\ Len(rest) \in Nat /\ Len(acc) \in Nat
  BY Elements DEF SyncInv, SyncSeqs
<1>3. sent = h \o rest /\ h \in Seq(Byte) /\ Len(h) = Len(out) + Len(acc)
  BY <1>1, Layout
<1>4. t \in 0..Len(rest) /\ t < Len(ESU)
  BY <1>2, TailHolds, MarkerLengths
<1> HIDE DEF h
<1>5. \A p \in (Len(h) + 1)..(Len(h) + (Len(rest) - t)) : ~MayBegin(sent, ESU, p)
  BY <1>1, <1>2, <1>3, NoneBegins, MarkerLengths
<1> HIDE DEF t
<1>6. cut \in 0..Len(rest) /\ cut \in Nat BY <1>2, <1>4
<1>7. x \in Seq(Byte) /\ Len(x) = cut /\ Len(y) = Len(rest) - cut
  BY <1>2, <1>6, CutInTwo, FirstIs, FromIs
<1> HIDE DEF x, y
<1>8. Len(acc') = Len(acc) + cut
  <2> HIDE DEF cut
  <2>1. Len(acc \o x) = Len(acc) + Len(x) BY <1>2, <1>7, JoinLength
  <2> QED BY <1>1, <1>7, <2>1
<1>9. ASSUME NEW p \in (Len(out) + 1)..(Len(out) + Len(acc')) PROVE ~MayBegin(sent, ESU, p)
  <2>1. CASE p <= Len(h)
    <3>1. p \in (Len(out) + 1)..(Len(out) + Len(acc)) BY <1>2, <1>3, <2>1
    <3> QED BY <1>1, <3>1 DEF Frames
  <2>2. CASE ~(p <= Len(h))
    <3>1. p \in (Len(h) + 1)..(Len(h) + (Len(rest) - t)) BY <1>2, <1>3, <1>4, <1>8, <2>2
    <3> QED BY <1>5, <3>1
  <2> QED BY <2>1, <2>2
<1>10. Len(carry') < Len(ESU) BY <1>1, <1>2, <1>4, <1>7
<1> QED BY <1>1, <1>9, <1>10 DEF Frames

\* What the filter was fed between two calls.
LEMMA Held ==
  ASSUME SyncInv, idle
  PROVE  /\ out \in Seq(Byte) /\ acc \o carry \in Seq(Byte) /\ sent = out \o (acc \o carry)
         /\ Len(sent) = Len(out) + Len(acc) + Len(carry)
         /\ Len(out) \in Nat /\ Len(acc) \in Nat /\ Len(carry) \in Nat
         /\ ~syncing => Len(acc) = 0
<1>1. /\ rest = <<>> /\ sent = out \o (acc \o (carry \o rest))
      /\ carry \in Seq(Byte) /\ acc \in Seq(Byte) /\ out \in Seq(Byte)
      /\ (~syncing => acc = <<>>)
  BY DEF SyncInv, SyncSeqs, Lossless, idle
<1>2. carry \o <<>> = carry BY <1>1, ConcatEmptySeq
<1>3. acc \o carry \in Seq(Byte) /\ Len(acc \o carry) = Len(acc) + Len(carry)
  BY <1>1, JoinLength
<1>4. Len(out \o (acc \o carry)) = Len(out) + Len(acc \o carry) BY <1>1, <1>3, JoinLength
<1>5. Len(out) \in Nat /\ Len(acc) \in Nat /\ Len(carry) \in Nat BY <1>1, Elements
<1>6. sent = out \o (acc \o carry) BY <1>1, <1>2
<1> QED BY <1>1, <1>3, <1>4, <1>5, <1>6

\* A frame that begins in what is shown is closed.
LEMMA NotUnclosed ==
  ASSUME NEW s, NEW c, Sealed(s, c), NEW i \in 1..c, MayBegin(s, BSU, i), c <= Len(s),
         c \in Nat, Len(s) \in Nat
  PROVE  i \notin Unclosed(s)
<1>1. PICK j \in i..c : Occurs(s, ESU, j) BY DEF Sealed
<1>2. j \in Places(s, ESU) /\ ~(j < i) BY <1>1 DEF Places
<1> QED BY <1>2 DEF Unclosed

LEMMA FramesSettle ==
  ASSUME SyncInv, Frames, idle
  PROVE  Settled(sent) = Len(out)
<1> DEFINE q == Len(out) + 1
           t == tailPrefix(sent, BSU)
<1>1. /\ sent \in Seq(Byte) /\ Len(sent) \in Nat
      /\ Len(sent) = Len(out) + Len(acc) + Len(carry)
      /\ Len(out) \in Nat /\ Len(acc) \in Nat /\ Len(carry) \in Nat
      /\ (~syncing => Len(acc) = 0)
  BY Held, Elements DEF SyncInv, SyncSeqs
<1>2. \A i \in 1..Len(sent) : Occurs(sent, BSU, i) =>
         MayBegin(sent, BSU, i) /\ i + Len(BSU) <= Len(sent) + 1
  <2>1. \A i \in 1..Len(sent) : i \in Nat /\ i > 0 OBVIOUS
  <2> QED BY <1>1, <2>1, OccursIsWhole, MarkerLengths DEF Whole
<1>3. \A i \in 1..Len(out) : MayBegin(sent, BSU, i) => i \notin Unclosed(sent)
  <2>1. Sealed(sent, Len(out)) BY DEF Frames
  <2>2. Len(out) <= Len(sent) BY <1>1
  <2> QED BY <1>1, <2>1, <2>2, NotUnclosed
<1>4. \A i \in Unclosed(sent) : i \in 1..Len(sent) /\ Occurs(sent, BSU, i) /\ i >= q
  <2>1. \A i \in Unclosed(sent) : i \in 1..Len(sent) /\ Occurs(sent, BSU, i)
    BY DEF Unclosed, Places
  <2>2. \A i \in Unclosed(sent) : i \notin 1..Len(out) BY <1>2, <1>3, <2>1
  <2> QED BY <1>1, <2>1, <2>2
<1>5. CASE syncing
  <2>1. /\ Occurs(sent, BSU, q) /\ Len(carry) < Len(ESU)
        /\ \A p \in q..(Len(out) + Len(acc)) : ~MayBegin(sent, ESU, p)
    BY <1>5 DEF Frames
  <2>2. q \in Nat /\ q > 0 /\ q \in 1..Len(sent)
    <3>1. Whole(sent, BSU, q) BY <1>1, <2>1, OccursIsWhole, MarkerLengths
    <3> QED BY <1>1, <3>1, MarkerLengths DEF Whole
  <2>3. ASSUME NEW j \in Places(sent, ESU) PROVE j < q
    <3>1. j \in 1..Len(sent) /\ j \in Nat /\ j > 0 /\ Occurs(sent, ESU, j)
      BY DEF Places
    <3>2. Whole(sent, ESU, j) /\ MayBegin(sent, ESU, j)
      BY <1>1, <3>1, OccursIsWhole, MarkerLengths
    <3>3. j <= Len(out) + Len(acc)
      BY <1>1, <2>1, <3>1, <3>2, MarkerLengths DEF Whole
    <3>4. j \notin q..(Len(out) + Len(acc)) BY <2>1, <3>2
    <3> QED BY <1>1, <3>1, <3>3, <3>4
  <2>4. q \in Unclosed(sent) BY <2>1, <2>2, <2>3 DEF Unclosed, Places
  <2> DEFINE U == Unclosed(sent)
             m == CHOOSE i \in U : \A j \in U : i <= j
  <2>5. Settled(sent) = m - 1
    <3>1. U # {} BY <2>4
    <3> QED BY <3>1 DEF Settled
  <2>6. m \in U /\ \A j \in U : m <= j
    <3>1. \E i \in U : \A j \in U : i <= j BY <1>1, <1>4, <2>4
    <3> HIDE DEF U
    <3> QED BY <3>1, Zenon
  <2>7. m \in Nat /\ m >= q /\ m <= q BY <1>4, <2>4, <2>6
  <2> HIDE DEF m
  <2> QED BY <1>1, <2>2, <2>5, <2>7
<1>6. CASE ~syncing
  <2>1. /\ Len(carry) < Len(BSU) /\ MayBegin(sent, BSU, q) /\ Len(acc) = 0
        /\ Len(sent) = Len(out) + Len(carry)
    BY <1>1, <1>6 DEF Frames
  <2>2. Unclosed(sent) = {}
    <3>1. ASSUME NEW i \in Unclosed(sent) PROVE FALSE
      <4>1. i \in 1..Len(sent) /\ i >= q /\ i + Len(BSU) <= Len(sent) + 1
        BY <1>2, <1>4
      <4> QED BY <1>1, <2>1, <4>1, MarkerLengths
    <3> QED BY <3>1
  <2>3. /\ t \in 0..Len(sent) /\ t < Len(BSU)
        /\ MayBegin(sent, BSU, Len(sent) - t + 1)
        /\ \A p \in 1..(Len(sent) - t) : MayBegin(sent, BSU, p) => Occurs(sent, BSU, p)
    BY <1>1, TailHolds, MarkerLengths
  <2>4. Settled(sent) = Len(sent) - t BY <2>2 DEF Settled
  <2> HIDE DEF t
  <2>5. ~(t < Len(carry))
    <3>1. SUFFICES ASSUME t < Len(carry) PROVE FALSE OBVIOUS
    <3>2. q \in 1..(Len(sent) - t) /\ q \in 1..Len(sent) BY <1>1, <2>1, <2>3, <3>1
    <3>3. q + Len(BSU) <= Len(sent) + 1 BY <1>2, <2>1, <2>3, <3>2
    <3> QED BY <1>1, <2>1, <3>3, MarkerLengths
  <2>6. ~(t > Len(carry))
    <3>1. SUFFICES ASSUME t > Len(carry) PROVE FALSE OBVIOUS
    <3> DEFINE p == Len(sent) - t + 1
    <3>2. p \in 1..Len(out) BY <1>1, <2>1, <2>3, <3>1
    <3>3. Sealed(sent, Len(out)) BY DEF Frames
    <3>4. PICK j \in p..Len(out) : j + Len(ESU) - 1 <= Len(out)
      <4> HIDE DEF p
      <4>1. MayBegin(sent, BSU, p) BY <2>3 DEF p
      <4> QED BY <3>2, <3>3, <4>1 DEF Sealed
    <3> QED BY <1>1, <2>1, <2>3, <3>2, <3>4, MarkerLengths
  <2>7. t = Len(carry)
    <3>1. t \in Nat BY <1>1, <2>3
    <3> QED BY <1>1, <2>5, <2>6, <3>1
  <2> QED BY <1>1, <2>1, <2>4, <2>7
<1> QED BY <1>5, <1>6

LEMMA FramesInvisible == SyncInv /\ Frames => ChunkingInvisible
<1> SUFFICES ASSUME SyncInv, Frames, idle PROVE out = First(sent, Settled(sent))
  BY DEF ChunkingInvisible
<1>1. Settled(sent) = Len(out) BY FramesSettle
<1>2. First(sent, Len(out)) = out
  <2>1. P!Extends(out, out \o (acc \o carry)) BY Held, PrefixOfConcat
  <2> QED BY <2>1, Held DEF P!Extends, First
<1> QED BY <1>1, <1>2

LEMMA FramesInOneWrite == SyncInv /\ Frames => FrameInOneWrite
<1> SUFFICES ASSUME SyncInv, Frames, NEW c \in cuts
             PROVE  /\ Unclosed(First(out, c)) = {}
                    /\ \A i \in Places(out, BSU) : ~(i <= c /\ c < i + Len(BSU) - 1)
  BY DEF FrameInOneWrite
<1> DEFINE u == acc \o (carry \o rest)
           x == First(out, c)
           y == From(out, c + 1)
<1>1. /\ carry \in Seq(Byte) /\ acc \in Seq(Byte) /\ rest \in Seq(Byte)
      /\ sent \in Seq(Byte) /\ out \in Seq(Byte) /\ sent = out \o u
  BY DEF SyncInv, SyncSeqs, Lossless
<1>2. u \in Seq(Byte)
  <2>1. carry \o rest \in Seq(Byte) BY <1>1, JoinLength
  <2> QED BY <1>1, <2>1, JoinLength
<1> HIDE DEF u
<1>3. c \in 0..Len(out) /\ Len(out) \in Nat /\ Sealed(sent, c)
  BY <1>1, Elements DEF Frames
<1>4. x \in Seq(Byte) /\ y \in Seq(Byte) /\ out = x \o y /\ Len(x) = c
  BY <1>1, <1>3, CutInTwo, FirstIs
<1> HIDE DEF x, y
<1>5. y \o u \in Seq(Byte) /\ sent = x \o (y \o u)
  <2>1. (x \o y) \o u = x \o (y \o u) BY <1>2, <1>4, JoinAssociative
  <2> QED BY <1>1, <1>2, <1>4, <2>1, JoinLength
<1>6. ASSUME NEW i \in Nat, i > 0, i <= c, Occurs(sent, BSU, i)
      PROVE  \E j \in i..c : Occurs(sent, ESU, j) /\ j + Len(ESU) - 1 <= c
  <2>1. MayBegin(sent, BSU, i) BY <1>1, <1>6, OccursIsWhole, MarkerLengths
  <2>2. i \in 1..c BY <1>3, <1>6
  <2> QED BY <1>3, <2>1, <2>2 DEF Sealed
<1>7. Unclosed(x) = {}
  <2>1. SUFFICES ASSUME NEW i \in Unclosed(x) PROVE FALSE OBVIOUS
  <2>2. /\ i \in 1..c /\ i \in Nat /\ i > 0 /\ i <= c /\ Occurs(x, BSU, i)
        /\ \A j \in Places(x, ESU) : j < i
    BY <1>3, <1>4 DEF Unclosed, Places
  <2>3. Occurs(sent, BSU, i) BY <1>4, <1>5, <2>2, Before, MarkerLengths
  <2>4. PICK j \in i..c : Occurs(sent, ESU, j) /\ j + Len(ESU) - 1 <= c
    BY <1>6, <2>2, <2>3
  <2>5. j \in 1..c /\ j \in Nat /\ j > 0 /\ Whole(x, ESU, j) /\ ~(j < i)
    BY <1>3, <1>4, <2>2, <2>4, MarkerLengths DEF Whole
  <2>6. Occurs(x, ESU, j) BY <1>4, <1>5, <2>4, <2>5, Before, MarkerLengths
  <2>7. j \in Places(x, ESU) BY <1>4, <2>5, <2>6 DEF Places
  <2> QED BY <2>2, <2>5, <2>7
<1>8. ASSUME NEW i \in Places(out, BSU), i <= c PROVE i + Len(BSU) - 1 <= c
  <2>1. i \in Nat /\ i > 0 /\ Occurs(out, BSU, i) BY DEF Places
  <2>2. Occurs(sent, BSU, i) BY <1>1, <1>2, <2>1, Before, MarkerLengths
  <2>3. PICK j \in i..c : j + Len(ESU) - 1 <= c BY <1>6, <1>8, <2>1, <2>2
  <2> QED BY <1>3, <2>1, <2>3, MarkerLengths
<1>9. \A i \in Places(out, BSU) : ~(i <= c /\ c < i + Len(BSU) - 1)
  <2>1. \A i \in Places(out, BSU) : i \in Nat BY DEF Places
  <2> QED BY <1>3, <1>8, <2>1, MarkerLengths
<1> QED BY <1>7, <1>9 DEF x

LEMMA FirstHas ==
  ASSUME NEW s \in Seq(Byte), NEW n \in 0..Len(s)
  PROVE  \A i \in 1..n : First(s, n)[i] = s[i]
<1>1. \A i \in 1..n : s[i] \in Byte BY Elements
<1>2. 1 \in Int /\ n \in Int /\ n - 1 + 1 = n BY Elements
<1>3. \A i \in 1..(n - 1 + 1) : SubSeq(s, 1, n)[i] = s[1 + i - 1]
  BY <1>1, <1>2, SubSeqProperties
<1>4. \A i \in 1..n : 1 + i - 1 = i BY <1>2
<1> QED BY <1>2, <1>3, <1>4 DEF First

\* One more symbol.
LEMMA SubSeqGrows ==
  ASSUME NEW t \in Seq(Byte), NEW k \in 1..Len(t)
  PROVE  /\ SubSeq(t, 1, k - 1) \in Seq(Byte)
         /\ SubSeq(t, 1, k) = Append(SubSeq(t, 1, k - 1), t[k])
<1> DEFINE u == SubSeq(t, 1, k - 1)
           v == SubSeq(t, 1, k)
<1>1. Len(t) \in Nat /\ (\A i \in 1..Len(t) : t[i] \in Byte) BY Elements
<1>2. k - 1 \in 0..Len(t) /\ k \in 0..Len(t) /\ k \in Nat BY <1>1
<1>3. u \in Seq(Byte) /\ Len(u) = k - 1 /\ v \in Seq(Byte) /\ Len(v) = k
  BY <1>2, CutInTwo, FirstIs DEF First
<1>4. (\A i \in 1..(k - 1) : u[i] = t[i]) /\ (\A i \in 1..k : v[i] = t[i])
  BY <1>1, <1>2, FirstHas DEF First
<1> DEFINE w == Append(u, t[k])
<1> HIDE DEF u, v
<1>5. t[k] \in Byte BY <1>1
<1>6. w \in Seq(Byte) /\ Len(w) = k /\ (\A i \in 1..(k - 1) : w[i] = u[i]) /\ w[k] = t[k]
  <2>1. /\ w \in Seq(Byte) /\ Len(w) = Len(u) + 1
        /\ (\A i \in 1..Len(u) : w[i] = u[i]) /\ w[Len(u) + 1] = t[k]
    BY <1>3, <1>5, AppendProperties
  <2>2. Len(u) + 1 = k BY <1>2, <1>3
  <2> QED BY <1>3, <2>1, <2>2
<1> HIDE DEF w
<1>7. \A i \in 1..Len(v) : v[i] = w[i]
  <2>1. ASSUME NEW i \in 1..k PROVE v[i] = w[i]
    <3>1. CASE i = k BY <1>4, <1>6, <3>1
    <3>2. CASE i # k
      <4>1. i \in 1..(k - 1) BY <1>2, <3>2
      <4> QED BY <1>4, <1>6, <4>1
    <3> QED BY <3>1, <3>2
  <2> QED BY <1>3, <2>1
<1>8. v = w BY <1>3, <1>6, <1>7, SeqEqual
<1> QED BY <1>3, <1>8 DEF u, v, w

LEMMA AppendInside ==
  ASSUME NEW s \in Seq(Byte), NEW t \in Seq(Byte), NEW e \in Byte
  PROVE  Append(s \o t, e) = s \o Append(t, e)
<1>1. /\ Append(s \o t, e) = (s \o t) \o <<e>>
      /\ Append(t, e) = t \o <<e>> /\ <<e>> \in Seq(Byte)
  BY JoinLength, AppendIsConcat
<1> QED BY <1>1, JoinAssociative

-----------------------------------------------------------------------------
(* Pick *)

\* What is picked up to each place.
PickRun(f, s, A) ==
  /\ f \in [0..Len(s) -> Seq(Byte)]
  /\ f[0] = <<>>
  /\ \A i \in 1..Len(s) : f[i] = IF i \in A THEN Append(f[i - 1], s[i]) ELSE f[i - 1]
  /\ Pick(s, A) = f[Len(s)]

\* The recursion that defines Pick is one.
LEMMA PickSteps ==
  ASSUME NEW s \in Seq(Byte), NEW A
  PROVE  \E f : PickRun(f, s, A)
<1> DEFINE n == Len(s)
           step == [i \in 1..n |-> [x \in Seq(Byte) |-> IF i \in A THEN Append(x, s[i]) ELSE x]]
           IsPick(f) == f = [k \in 0..n |-> IF k = 0 THEN <<>>
                                            ELSE IF k \in A THEN Append(f[k - 1], s[k])
                                            ELSE f[k - 1]]
<1>1. n \in Nat /\ \A i \in 1..n : s[i] \in Byte BY Elements
<1>2. step \in [1..n -> [Seq(Byte) -> Seq(Byte)]]
  <2>1. ASSUME NEW i \in 1..n, NEW x \in Seq(Byte)
        PROVE  (IF i \in A THEN Append(x, s[i]) ELSE x) \in Seq(Byte)
    BY <1>1, AppendProperties
  <2> QED BY <2>1
<1>3. PICK f \in [0..n -> Seq(Byte)] : Goes(f, n, <<>>, step)
  <2> HIDE DEF n, step
  <2>1. <<>> \in Seq(Byte) BY EmptySeq
  <2> QED BY <1>1, <1>2, <2>1, Recursion
<1>4. \A i \in 1..n : f[i] = IF i \in A THEN Append(f[i - 1], s[i]) ELSE f[i - 1]
  <2>1. \A i \in 1..n : f[i - 1] \in Seq(Byte) BY <1>1
  <2> QED BY <1>3, <2>1 DEF Goes
<1>5. IsPick(f)
  <2> DEFINE g == [k \in 0..n |-> IF k = 0 THEN <<>>
                                  ELSE IF k \in A THEN Append(f[k - 1], s[k])
                                  ELSE f[k - 1]]
  <2>1. ASSUME NEW k \in 0..n PROVE f[k] = g[k]
    <3>1. CASE k = 0 BY <3>1, <1>3 DEF Goes
    <3>2. CASE k # 0
      <4>1. k \in 1..n BY <3>2, <1>1
      <4> QED BY <4>1, <3>2, <1>4
    <3> QED BY <3>1, <3>2
  <2>2. DOMAIN f = DOMAIN g OBVIOUS
  <2> QED BY <2>1, <2>2
<1>6. Pick(s, A) = (CHOOSE h : IsPick(h))[n] BY Zenon DEF Pick
<1>7. IsPick(CHOOSE h : IsPick(h))
  <2> HIDE DEF IsPick
  <2> QED BY <1>5
<1> DEFINE p == CHOOSE h : IsPick(h)
<1>8. p = [k \in 0..n |-> IF k = 0 THEN <<>>
                          ELSE IF k \in A THEN Append(p[k - 1], s[k])
                          ELSE p[k - 1]]
  BY <1>7
<1> HIDE DEF p
<1>9. p[0] = <<>> /\ \A i \in 1..n : p[i] = IF i \in A THEN Append(p[i - 1], s[i]) ELSE p[i - 1]
  <2>1. 0 \in 0..n /\ \A i \in 1..n : i \in 0..n /\ i # 0 BY <1>1
  <2>2. \A k \in 0..n : p[k] = IF k = 0 THEN <<>>
                               ELSE IF k \in A THEN Append(p[k - 1], s[k])
                               ELSE p[k - 1]
    BY <1>8
  <2> QED BY <2>1, <2>2
<1>10. \A i \in 0..n : f[i] = p[i]
  <2> DEFINE T == {i \in 0..n : f[i] = p[i]}
  <2>1. 0 \in T
    <3>1. f[0] = <<>> BY <1>3 DEF Goes
    <3>2. p[0] = <<>> /\ 0 \in 0..n BY <1>1, <1>9
    <3> QED BY <3>1, <3>2
  <2>2. \A k \in 1..n : k - 1 \in T => k \in T BY <1>4, <1>9
  <2> HIDE DEF T, n
  <2>3. \A k \in 0..n : k \in T BY <1>1, <2>1, <2>2, UpTo
  <2> QED BY <2>3 DEF T
<1>11. Pick(s, A) = f[n]
  <2>1. n \in 0..n BY <1>1
  <2>2. Pick(s, A) = p[n] BY <1>6 DEF p
  <2> QED BY <1>10, <2>1, <2>2
<1>12. f[0] = <<>> BY <1>3 DEF Goes
<1>13. PickRun(f, s, A) BY <1>3, <1>4, <1>11, <1>12 DEF PickRun
<1> QED BY <1>13

LEMMA PickType ==
  ASSUME NEW s \in Seq(Byte), NEW A
  PROVE  Pick(s, A) \in Seq(Byte)
<1>1. PICK f : PickRun(f, s, A) BY PickSteps
<1>2. Len(s) \in 0..Len(s) BY Elements
<1> QED BY <1>1, <1>2 DEF PickRun

LEMMA PickEmpty == \A A : Pick(<<>>, A) = <<>>
<1> SUFFICES ASSUME NEW A PROVE Pick(<<>>, A) = <<>> OBVIOUS
<1>1. <<>> \in Seq(Byte) /\ Len(<<>>) = 0 BY EmptySeq
<1>2. PICK f : PickRun(f, <<>>, A) BY <1>1, PickSteps
<1> QED BY <1>1, <1>2 DEF PickRun

\* It depends on the places there are in the sequence.
LEMMA PickSame ==
  ASSUME NEW s \in Seq(Byte), NEW A, NEW B, \A i \in 1..Len(s) : i \in A <=> i \in B
  PROVE  Pick(s, A) = Pick(s, B)
<1> DEFINE n == Len(s)
<1>1. n \in Nat BY Elements
<1>2. PICK f : PickRun(f, s, A) BY PickSteps
<1>3. PICK g : PickRun(g, s, B) BY PickSteps
<1> DEFINE T == {i \in 0..n : f[i] = g[i]}
<1>4. 0 \in T BY <1>1, <1>2, <1>3 DEF PickRun
<1>5. \A k \in 1..n : k - 1 \in T => k \in T BY <1>2, <1>3 DEF PickRun
<1> HIDE DEF T
<1>6. \A k \in 0..n : k \in T
  <2> HIDE DEF n
  <2> QED BY <1>1, <1>4, <1>5, UpTo
<1>7. f[n] = g[n]
  <2>1. n \in 0..n BY <1>1
  <2> QED BY <1>6, <2>1 DEF T
<1> QED BY <1>2, <1>3, <1>7 DEF PickRun

\* Of a sequence with more behind it: what is picked of the one, and then of
\* the other all or nothing.
LEMMA PickMore ==
  ASSUME NEW s \in Seq(Byte), NEW t \in Seq(Byte), NEW A
  PROVE  /\ (\A i \in (Len(s) + 1)..(Len(s) + Len(t)) : i \in A) => Pick(s \o t, A) = Pick(s, A) \o t
         /\ (\A i \in (Len(s) + 1)..(Len(s) + Len(t)) : i \notin A) => Pick(s \o t, A) = Pick(s, A)
<1> DEFINE n == Len(s)
           m == Len(t)
           r == s \o t
<1>1. /\ n \in Nat /\ m \in Nat /\ r \in Seq(Byte) /\ Len(r) = n + m
      /\ \A i \in 1..(n + m) : r[i] = IF i <= n THEN s[i] ELSE t[i - n]
      /\ \A i \in 1..m : t[i] \in Byte
  BY ConcatProperties, Elements
<1> HIDE DEF r
<1>2. PICK f : PickRun(f, s, A) BY PickSteps
<1>3. PICK g : PickRun(g, r, A) BY <1>1, PickSteps
<1>a. /\ f[0] = <<>> /\ f[n] \in Seq(Byte)
      /\ \A i \in 1..n : f[i] = IF i \in A THEN Append(f[i - 1], s[i]) ELSE f[i - 1]
      /\ Pick(s, A) = f[n]
  <2>1. n \in 0..n BY <1>1
  <2> QED BY <1>2, <2>1 DEF PickRun
<1>b. /\ g[0] = <<>>
      /\ \A i \in 1..(n + m) : g[i] = IF i \in A THEN Append(g[i - 1], r[i]) ELSE g[i - 1]
      /\ Pick(r, A) = g[n + m]
  BY <1>1, <1>3 DEF PickRun
<1> HIDE DEF n, m
<1>4. g[n] = f[n]
  <2> DEFINE T == {i \in 0..n : f[i] = g[i]}
  <2>1. 0 \in T BY <1>1, <1>a, <1>b
  <2>2. ASSUME NEW k \in 1..n, k - 1 \in T PROVE k \in T
    <3>1. k \in 1..(n + m) /\ r[k] = s[k] /\ k \in 0..n BY <1>1
    <3> QED BY <1>a, <1>b, <2>2, <3>1
  <2> HIDE DEF T
  <2>3. \A k \in 0..n : k \in T BY <1>1, <2>1, <2>2, UpTo
  <2> QED BY <1>1, <2>3 DEF T
<1>5. ASSUME NEW k \in 1..m
      PROVE  /\ n + k \in 1..(n + m) /\ n + k \in (n + 1)..(n + m)
             /\ (n + k) - 1 = n + (k - 1) /\ r[n + k] = t[k]
  <2> DEFINE i == n + k
  <2>1. /\ i \in 1..(n + m) /\ i \in (n + 1)..(n + m) /\ ~(i <= n) /\ i - n = k
        /\ i - 1 = n + (k - 1)
    BY <1>1
  <2> HIDE DEF i
  <2>2. r[i] = t[k] BY <1>1, <2>1
  <2> QED BY <2>1, <2>2 DEF i
<1>6. ASSUME \A i \in (n + 1)..(n + m) : i \in A
      PROVE  Pick(r, A) = Pick(s, A) \o t
  <2> DEFINE T == {k \in 0..m : g[n + k] = f[n] \o SubSeq(t, 1, k)}
  <2>1. f[n] \in Seq(Byte) BY <1>a
  <2>2. 0 \in T
    <3>1. SubSeq(t, 1, 0) = <<>> BY SubSeqEmpty
    <3>2. f[n] \o <<>> = f[n] BY <2>1, ConcatEmptySeq
    <3>3. n + 0 = n /\ 0 \in 0..m BY <1>1
    <3>4. g[n + 0] = f[n] BY <1>4, <3>3
    <3>5. g[n + 0] = f[n] \o SubSeq(t, 1, 0) BY <3>1, <3>2, <3>4
    <3> QED BY <3>3, <3>5
  <2>3. ASSUME NEW k \in 1..m, k - 1 \in T PROVE k \in T
    <3> DEFINE u == SubSeq(t, 1, k - 1)
    <3>1. u \in Seq(Byte) /\ SubSeq(t, 1, k) = Append(u, t[k])
      BY SubSeqGrows DEF m
    <3>2. g[n + (k - 1)] = f[n] \o u BY <2>3
    <3> HIDE DEF u
    <3>3. g[n + k] = Append(g[n + (k - 1)], t[k])
      <4> DEFINE i == n + k
      <4>1. i \in 1..(n + m) /\ i \in A /\ i - 1 = n + (k - 1) /\ r[i] = t[k]
        BY <1>5, <1>6
      <4> HIDE DEF i
      <4>2. g[i] = Append(g[i - 1], r[i]) BY <1>b, <4>1
      <4> QED BY <4>1, <4>2 DEF i
    <3>4. Append(f[n] \o u, t[k]) = f[n] \o Append(u, t[k])
      BY <1>1, <2>1, <3>1, AppendInside
    <3>5. k \in 0..m BY <1>1
    <3> QED BY <3>1, <3>2, <3>3, <3>4, <3>5
  <2> HIDE DEF T
  <2>4. \A k \in 0..m : k \in T BY <1>1, <2>2, <2>3, UpTo
  <2>5. g[n + m] = f[n] \o SubSeq(t, 1, m)
    <3>1. m \in 0..m BY <1>1
    <3> QED BY <2>4, <3>1 DEF T
  <2>6. SubSeq(t, 1, m) = t BY SubSeqFull DEF m
  <2> QED BY <1>a, <1>b, <2>5, <2>6
<1>7. ASSUME \A i \in (n + 1)..(n + m) : i \notin A
      PROVE  Pick(r, A) = Pick(s, A)
  <2> DEFINE T == {k \in 0..m : g[n + k] = f[n]}
  <2>1. 0 \in T
    <3>1. n + 0 = n BY <1>1
    <3> QED BY <1>1, <1>4, <3>1
  <2>2. ASSUME NEW k \in 1..m, k - 1 \in T PROVE k \in T
    <3> DEFINE i == n + k
    <3>1. i \in 1..(n + m) /\ i \notin A /\ i - 1 = n + (k - 1) /\ k \in 0..m
      BY <1>1, <1>5, <1>7
    <3> HIDE DEF i
    <3>2. g[i] = g[i - 1] BY <1>b, <3>1
    <3>3. g[n + (k - 1)] = f[n] BY <2>2
    <3>4. g[i] = f[n] BY <3>1, <3>2, <3>3
    <3> QED BY <3>1, <3>4 DEF i
  <2> HIDE DEF T
  <2>3. \A k \in 0..m : k \in T BY <1>1, <2>1, <2>2, UpTo
  <2>4. g[n + m] = f[n]
    <3>1. m \in 0..m BY <1>1
    <3> QED BY <2>3, <3>1 DEF T
  <2> QED BY <1>a, <1>b, <2>4
<1> QED BY <1>6, <1>7 DEF r, n, m


-----------------------------------------------------------------------------
(* Control sequences *)

LEMMA ControlLengths ==
  /\ Marker(OSC) /\ Marker(ST)
  /\ Len(OSC) \in Nat /\ Len(ST) \in Nat /\ Len(OSC) > 0 /\ Len(ST) > 0
BY WireAssumption DEF Marker

\* The places of a marker.
LEMMA PlacesAre ==
  ASSUME NEW s \in Seq(Byte), NEW m, Marker(m)
  PROVE  /\ Len(s) \in Nat
         /\ \A i \in Places(s, m) : i \in Nat /\ i > 0 /\ i <= Len(s) /\ MayBegin(s, m, i)
                                    /\ i + Len(m) <= Len(s) + 1
         /\ \A i \in Nat : i > 0 /\ MayBegin(s, m, i) /\ i + Len(m) <= Len(s) + 1 =>
                             i \in Places(s, m)
<1>1. Len(s) \in Nat /\ Len(m) \in Nat /\ Len(m) > 0 BY Elements DEF Marker
<1>2. \A i \in 1..Len(s) : i \in Nat /\ i > 0 OBVIOUS
<1>3. \A i \in Nat : i > 0 /\ i + Len(m) <= Len(s) + 1 => i \in 1..Len(s) BY <1>1
<1>4. \A i \in Places(s, m) : i \in 1..Len(s) /\ Occurs(s, m, i) BY DEF Places
<1>5. \A i \in Nat : i > 0 => (Occurs(s, m, i) <=> i + Len(m) <= Len(s) + 1 /\ MayBegin(s, m, i))
  BY OccursIsWhole DEF Whole
<1> QED BY <1>1, <1>2, <1>3, <1>4, <1>5 DEF Places

LEMMA PlacesLater ==
  ASSUME NEW s \in Seq(Byte), NEW b \in Seq(Byte), NEW m, Marker(m)
  PROVE  /\ \A i \in Places(s, m) : i \in Places(s \o b, m)
         /\ \A i \in Nat : i > 0 /\ i + Len(m) <= Len(s) + 1 =>
                             (i \in Places(s \o b, m) <=> i \in Places(s, m))
<1>1. s \o b \in Seq(Byte) /\ Len(s \o b) = Len(s) + Len(b)
      /\ Len(s) \in Nat /\ Len(b) \in Nat /\ Len(m) \in Nat /\ Len(m) > 0
  BY JoinLength, Elements DEF Marker
<1>2. ASSUME NEW i \in Nat, i > 0, i + Len(m) <= Len(s) + 1
      PROVE  i \in Places(s \o b, m) <=> i \in Places(s, m)
  <2>1. i \in 1..Len(s) /\ i \in 1..(Len(s) + Len(b)) BY <1>1, <1>2
  <2>2. Occurs(s \o b, m, i) <=> Occurs(s, m, i) BY <1>2, Before DEF Whole
  <2> QED BY <1>1, <2>1, <2>2 DEF Places
<1>3. \A i \in Places(s, m) : i \in Nat /\ i > 0 /\ i + Len(m) <= Len(s) + 1 BY PlacesAre
<1> QED BY <1>2, <1>3

\* Whatever begins or may begin a control sequence up to n also ends up to n.
Closed(s, n) ==
  \A p \in 1..n : MayBegin(s, OSC, p) =>
    \E j \in Places(s, ST) : p + Len(OSC) <= j /\ j + Len(ST) <= n + 1

\* A control sequence began at o and cannot have ended up to n.
Inside(s, o, n) ==
  /\ o \in Places(s, OSC) /\ o + Len(OSC) <= n + 1
  /\ Closed(s, o - 1)
  /\ \A p \in (o + Len(OSC))..n : ~MayBegin(s, ST, p)

\* The control sequence from i on ends with the ST at j.
EndAt(s, i, j) ==
  /\ i \in Places(s, OSC) /\ j \in Places(s, ST)
  /\ ~Unended(s, i)
  /\ i + Len(OSC) <= j
  /\ \A k \in Places(s, ST) : ~(i + Len(OSC) <= k /\ k < j)

LEMMA EndsAre ==
  \A s, words, e : e \in Ends(s, words) <=>
    \E i, j : EndAt(s, i, j) /\ e = j + Len(ST) - 1 /\ SubSeq(s, i + Len(OSC), j - 1) \in words
<1> SUFFICES ASSUME NEW s, NEW words, NEW e
             PROVE  e \in Ends(s, words) <=>
                      \E i, j : EndAt(s, i, j) /\ e = j + Len(ST) - 1
                                /\ SubSeq(s, i + Len(OSC), j - 1) \in words
  OBVIOUS
<1> QED BY Zenon DEF Ends, EndAt

\* Text in which no control sequence begins.
LEMMA TextRun ==
  ASSUME NEW s \in Seq(Byte), NEW n \in Nat, NEW m \in Nat, n <= m, m <= Len(s), Closed(s, n),
         \A p \in (n + 1)..m : ~MayBegin(s, OSC, p)
  PROVE  /\ Closed(s, m)
         /\ \A p \in (n + 1)..(m + 1) : ~Unended(s, p)
         /\ \A p \in (n + 1)..m : ~InControl(s, p)
         /\ \A words : \A e \in Ends(s, words) : e <= m => e <= n
<1>1. \A i \in 1..m : MayBegin(s, OSC, i) =>
         \E j \in Places(s, ST) : i + Len(OSC) <= j /\ j + Len(ST) <= n + 1
  <2>1. \A i \in 1..m : i \in 1..n \/ i \in (n + 1)..m OBVIOUS
  <2> QED BY <2>1 DEF Closed
<1>2. /\ \A i \in Places(s, OSC) : i \in Nat /\ i > 0 /\ MayBegin(s, OSC, i)
      /\ \A j \in Places(s, ST) : j \in Nat
  BY PlacesAre, ControlLengths
<1>3. Closed(s, m)
  <2>1. ASSUME NEW i \in 1..m, MayBegin(s, OSC, i)
        PROVE  \E j \in Places(s, ST) : i + Len(OSC) <= j /\ j + Len(ST) <= m + 1
    <3>1. PICK j \in Places(s, ST) : i + Len(OSC) <= j /\ j + Len(ST) <= n + 1
      BY <1>1, <2>1
    <3>2. j + Len(ST) <= m + 1 BY <1>2, <3>1, ControlLengths
    <3> QED BY <3>1, <3>2
  <2> QED BY <2>1 DEF Closed
<1>4. ASSUME NEW p \in (n + 1)..(m + 1), NEW i \in Places(s, OSC), i < p
      PROVE  \E j \in Places(s, ST) : i + Len(OSC) <= j /\ j + Len(ST) <= p
  <2>1. i \in 1..m /\ MayBegin(s, OSC, i) BY <1>2, <1>4
  <2>2. PICK j \in Places(s, ST) : i + Len(OSC) <= j /\ j + Len(ST) <= n + 1
    BY <1>1, <2>1
  <2>3. j + Len(ST) <= p BY <1>2, <2>2, ControlLengths
  <2> QED BY <2>2, <2>3
<1>5. \A p \in (n + 1)..(m + 1) : ~Unended(s, p) BY <1>4 DEF Unended
<1>6. \A p \in (n + 1)..m : ~InControl(s, p)
  <2>1. \A p \in (n + 1)..m : p \in (n + 1)..(m + 1) OBVIOUS
  <2> QED BY <1>2, <1>5, <2>1 DEF InControl
<1>7. ASSUME NEW i, NEW j, EndAt(s, i, j), j + Len(ST) - 1 <= m PROVE j + Len(ST) - 1 <= n
  <2>1. /\ i \in Places(s, OSC) /\ j \in Places(s, ST) /\ i + Len(OSC) <= j
        /\ \A k \in Places(s, ST) : ~(i + Len(OSC) <= k /\ k < j)
    BY <1>7 DEF EndAt
  <2>2. i \in 1..m /\ MayBegin(s, OSC, i) BY <1>2, <1>7, <2>1, ControlLengths
  <2>3. PICK k \in Places(s, ST) : i + Len(OSC) <= k /\ k + Len(ST) <= n + 1
    BY <1>1, <2>2
  <2>4. ~(k < j) BY <2>1, <2>3
  <2>5. j \in Nat /\ k \in Nat BY <1>2, <2>1
  <2> QED BY <2>3, <2>4, <2>5, ControlLengths
<1>8. \A words : \A e \in Ends(s, words) : e <= m => e <= n BY <1>7, EndsAre
<1> QED BY <1>3, <1>5, <1>6, <1>8

\* The bytes of a control sequence that goes on.
LEMMA ControlRun ==
  ASSUME NEW s \in Seq(Byte), NEW o, NEW n \in Nat, Inside(s, o, n)
  PROVE  /\ o \in Nat /\ o > 0 /\ ~Unended(s, o)
         /\ \A p \in (o + 1)..(n + 1) : Unended(s, p)
         /\ \A p \in o..n : InControl(s, p)
         /\ \A words : \A e \in Ends(s, words) : e <= n => e <= o - 1
<1>1. /\ o \in Places(s, OSC) /\ o + Len(OSC) <= n + 1 /\ Closed(s, o - 1)
      /\ \A p \in (o + Len(OSC))..n : ~MayBegin(s, ST, p)
  BY DEF Inside
<1>2. /\ \A i \in Places(s, OSC) : i \in Nat /\ i > 0 /\ MayBegin(s, OSC, i)
      /\ \A j \in Places(s, ST) : j \in Nat /\ MayBegin(s, ST, j)
  BY PlacesAre, ControlLengths
<1>3. o \in Nat /\ o > 0 BY <1>1, <1>2
<1>4. \A j \in Places(s, ST) : o + Len(OSC) <= j => j > n
  <2>1. \A j \in Places(s, ST) : o + Len(OSC) <= j /\ j <= n => j \in (o + Len(OSC))..n
    BY <1>2, <1>3, ControlLengths
  <2> QED BY <1>1, <1>2, <2>1
<1>5. ASSUME NEW i \in Places(s, OSC), i < o
      PROVE  \E j \in Places(s, ST) : i + Len(OSC) <= j /\ j + Len(ST) <= o
  <2>1. i \in 1..(o - 1) /\ MayBegin(s, OSC, i) /\ (o - 1) + 1 = o BY <1>2, <1>3, <1>5
  <2>2. PICK j \in Places(s, ST) : i + Len(OSC) <= j /\ j + Len(ST) <= (o - 1) + 1
    BY <1>1, <2>1 DEF Closed
  <2> QED BY <2>1, <2>2
<1>6. ~Unended(s, o) BY <1>5 DEF Unended
<1>7. ASSUME NEW p \in (o + 1)..(n + 1) PROVE Unended(s, p)
  <2>1. o < p BY <1>3
  <2>2. ASSUME NEW j \in Places(s, ST) PROVE ~(o + Len(OSC) <= j /\ j + Len(ST) <= p)
    BY <1>2, <1>4, ControlLengths
  <2> QED BY <1>1, <2>1, <2>2 DEF Unended
<1>8. \A p \in o..n : InControl(s, p)
  <2>1. \A p \in o..n : p = o \/ p \in (o + 1)..(n + 1) BY <1>3
  <2> QED BY <1>1, <1>7, <2>1 DEF InControl
<1>9. ASSUME NEW i, NEW j, EndAt(s, i, j), j + Len(ST) - 1 <= n
      PROVE  j + Len(ST) - 1 <= o - 1
  <2>1. /\ i \in Places(s, OSC) /\ j \in Places(s, ST) /\ i + Len(OSC) <= j
        /\ \A k \in Places(s, ST) : ~(i + Len(OSC) <= k /\ k < j)
    BY <1>9 DEF EndAt
  <2>2. i < o
    <3>1. j \in Nat /\ i \in Nat /\ j <= n BY <1>2, <1>9, <2>1, ControlLengths
    <3>2. ~(o + Len(OSC) <= j) BY <1>4, <2>1, <3>1
    <3> QED BY <1>3, <2>1, <3>1, <3>2, ControlLengths
  <2>3. PICK k \in Places(s, ST) : i + Len(OSC) <= k /\ k + Len(ST) <= o
    BY <1>5, <2>1, <2>2
  <2>4. ~(k < j) /\ j \in Nat /\ k \in Nat BY <1>2, <2>1, <2>3
  <2> QED BY <1>3, <2>3, <2>4, ControlLengths
<1>10. \A words : \A e \in Ends(s, words) : e <= n => e <= o - 1 BY <1>9, EndsAre
<1> QED BY <1>3, <1>6, <1>7, <1>8, <1>10

LEMMA InsideFurther ==
  ASSUME NEW s \in Seq(Byte), NEW o \in Nat, NEW n \in Nat, NEW m \in Nat, n <= m, Inside(s, o, n),
         \A p \in (n + 1)..m : ~MayBegin(s, ST, p)
  PROVE  Inside(s, o, m)
<1>1. o + Len(OSC) <= m + 1 BY ControlLengths DEF Inside
<1>2. \A p \in (o + Len(OSC))..m : p \in (o + Len(OSC))..n \/ p \in (n + 1)..m
  BY ControlLengths
<1> QED BY <1>1, <1>2 DEF Inside

LEMMA Opens ==
  ASSUME NEW s \in Seq(Byte), NEW o \in Places(s, OSC), Closed(s, o - 1)
  PROVE  Inside(s, o, o + Len(OSC) - 1)
<1>1. o \in Nat BY PlacesAre, ControlLengths
<1>2. /\ o + Len(OSC) <= (o + Len(OSC) - 1) + 1
      /\ \A p \in (o + Len(OSC))..(o + Len(OSC) - 1) : FALSE
  BY <1>1, ControlLengths
<1> QED BY <1>2 DEF Inside

\* Neither marker begins within the other or at the place of the other.
LEMMA MarkersApart ==
  ASSUME NEW s \in Seq(Byte), NEW j \in Places(s, ST), NEW p \in Nat, p > 0, MayBegin(s, OSC, p),
         p < j + Len(ST)
  PROVE  p + Len(OSC) <= j
<1>1. /\ Len(s) \in Nat /\ j \in Nat /\ j > 0 /\ j <= Len(s) /\ MayBegin(s, ST, j)
      /\ j + Len(ST) <= Len(s) + 1
  BY PlacesAre, ControlLengths
<1>2. SUFFICES ASSUME ~(p + Len(OSC) <= j) PROVE FALSE OBVIOUS
<1>3. CASE p < j
  <2> DEFINE k == j - p + 1
  <2>1. k \in 2..Len(OSC) /\ k \in 1..Len(OSC) /\ p + k - 1 = j /\ 1 \in 1..Len(ST)
        /\ j + 1 - 1 = j
    BY <1>1, <1>2, <1>3, ControlLengths
  <2> HIDE DEF k
  <2>2. s[j] = OSC[k] BY <1>1, <2>1 DEF MayBegin
  <2>3. s[j] = ST[1] BY <1>1, <2>1 DEF MayBegin
  <2> QED BY <2>1, <2>2, <2>3, ControlMarkers
<1>4. CASE p = j
  <2>1. PICK k \in 1..Len(OSC) : k <= Len(ST) /\ OSC[k] # ST[k] BY ControlMarkers
  <2>2. k \in 1..Len(ST) /\ j + k - 1 <= Len(s) BY <1>1, <2>1, ControlLengths
  <2>3. s[j + k - 1] = OSC[k] BY <1>4, <2>1, <2>2 DEF MayBegin
  <2>4. s[j + k - 1] = ST[k] BY <1>1, <2>2 DEF MayBegin
  <2> QED BY <2>1, <2>3, <2>4
<1>5. CASE p > j
  <2> DEFINE k == p - j + 1
  <2>1. k \in 2..Len(ST) /\ k \in 1..Len(ST) /\ j + k - 1 = p /\ 1 \in 1..Len(OSC)
        /\ p + 1 - 1 = p /\ p <= Len(s)
    BY <1>1, <1>5, ControlLengths
  <2> HIDE DEF k
  <2>2. s[p] = ST[k] BY <1>1, <2>1 DEF MayBegin
  <2>3. s[p] = OSC[1] BY <2>1 DEF MayBegin
  <2> QED BY <2>1, <2>2, <2>3, ControlMarkers
<1> QED BY <1>1, <1>3, <1>4, <1>5

\* The control sequence from o on ends with the ST at j.
LEMMA ControlEnd ==
  ASSUME NEW s \in Seq(Byte), NEW o \in Nat, NEW j \in Places(s, ST), o + Len(OSC) <= j,
         Inside(s, o, j - 1), NEW n, n = j + Len(ST) - 1
  PROVE  /\ n \in Nat /\ n <= Len(s) /\ o <= n /\ Closed(s, n)
         /\ \A p \in o..n : InControl(s, p)
         /\ \A words : n \in Ends(s, words) <=> SubSeq(s, o + Len(OSC), j - 1) \in words
         /\ \A words : \A e \in Ends(s, words) : e <= n => e <= o - 1 \/ e = n
<1>1. /\ o \in Places(s, OSC) /\ Closed(s, o - 1)
      /\ \A p \in (o + Len(OSC))..(j - 1) : ~MayBegin(s, ST, p)
  BY DEF Inside
<1>2. /\ \A i \in Places(s, OSC) : i \in Nat /\ i > 0 /\ MayBegin(s, OSC, i)
      /\ \A k \in Places(s, ST) : k \in Nat /\ k > 0 /\ MayBegin(s, ST, k)
      /\ Len(s) \in Nat /\ j + Len(ST) <= Len(s) + 1
  BY PlacesAre, ControlLengths
<1>3. /\ o > 0 /\ j \in Nat /\ j > 0 /\ n \in Nat /\ o <= n /\ n <= Len(s)
      /\ j + Len(ST) = n + 1 /\ j <= n
  BY <1>1, <1>2, ControlLengths
<1>4. \A k \in Places(s, ST) : o + Len(OSC) <= k => k >= j
  <2>1. \A k \in Places(s, ST) : o + Len(OSC) <= k /\ k < j => k \in (o + Len(OSC))..(j - 1)
    BY <1>2, <1>3, ControlLengths
  <2> QED BY <1>1, <1>2, <1>3, <2>1
<1>5. ASSUME NEW i \in Nat, i > 0, MayBegin(s, OSC, i), i < o
      PROVE  \E k \in Places(s, ST) : i + Len(OSC) <= k /\ k + Len(ST) <= o
  <2>1. i \in 1..(o - 1) /\ (o - 1) + 1 = o BY <1>3, <1>5
  <2>2. PICK k \in Places(s, ST) : i + Len(OSC) <= k /\ k + Len(ST) <= (o - 1) + 1
    BY <1>1, <1>5, <2>1 DEF Closed
  <2> QED BY <2>1, <2>2
<1>6. Closed(s, n)
  <2>1. ASSUME NEW p \in 1..n, MayBegin(s, OSC, p)
        PROVE  \E k \in Places(s, ST) : p + Len(OSC) <= k /\ k + Len(ST) <= n + 1
    <3>1. CASE p < o
      <4>1. PICK k \in Places(s, ST) : p + Len(OSC) <= k /\ k + Len(ST) <= o
        BY <1>5, <2>1, <3>1
      <4>2. k + Len(ST) <= n + 1 BY <1>2, <1>3, <4>1, ControlLengths
      <4> QED BY <4>1, <4>2
    <3>2. CASE ~(p < o)
      <4>1. p + Len(OSC) <= j
        <5>1. p \in Nat /\ p > 0 /\ p < j + Len(ST) BY <1>3, ControlLengths
        <5> QED BY <2>1, <5>1, MarkersApart
      <4> QED BY <1>3, <4>1
    <3> QED BY <3>1, <3>2
  <2> QED BY <2>1 DEF Closed
<1>7. ~Unended(s, o) /\ \A p \in (o + 1)..j : Unended(s, p)
  <2>1. j - 1 \in Nat /\ (j - 1) + 1 = j BY <1>3
  <2> QED BY <2>1, ControlRun
<1>8. ASSUME NEW p \in o..n PROVE InControl(s, p)
  <2>1. CASE p = o BY <1>1, <2>1 DEF InControl
  <2>2. CASE p # o
    <3>1. o < p BY <2>2
    <3>2. ASSUME NEW k \in Places(s, ST) PROVE ~(o + Len(OSC) <= k /\ k + Len(ST) <= p)
      BY <1>2, <1>3, <1>4, ControlLengths
    <3> QED BY <1>1, <3>1, <3>2 DEF InControl, Unended
  <2> QED BY <2>1, <2>2
<1>9. EndAt(s, o, j)
  <2>1. \A k \in Places(s, ST) : ~(o + Len(OSC) <= k /\ k < j) BY <1>2, <1>3, <1>4
  <2> QED BY <1>1, <1>7, <2>1 DEF EndAt
<1>10. ASSUME NEW i, NEW k, EndAt(s, i, k), k + Len(ST) - 1 <= n
       PROVE  k + Len(ST) - 1 <= o - 1 \/ (i = o /\ k = j)
  <2>1. /\ i \in Places(s, OSC) /\ k \in Places(s, ST) /\ i + Len(OSC) <= k /\ ~Unended(s, i)
        /\ \A l \in Places(s, ST) : ~(i + Len(OSC) <= l /\ l < k)
    BY <1>10 DEF EndAt
  <2>2. k \in Nat /\ i \in Nat /\ i > 0 /\ k <= j /\ MayBegin(s, OSC, i)
    BY <1>2, <1>3, <1>10, <2>1, ControlLengths
  <2>3. CASE i < o
    <3>1. PICK l \in Places(s, ST) : i + Len(OSC) <= l /\ l + Len(ST) <= o
      BY <1>5, <2>2, <2>3
    <3>2. ~(l < k) /\ l \in Nat BY <1>2, <2>1, <3>1
    <3> QED BY <2>2, <3>1, <3>2, ControlLengths
  <2>4. CASE i = o
    <3>1. k >= j BY <1>4, <2>1, <2>4
    <3> QED BY <1>3, <2>2, <2>4, <3>1
  <2>5. CASE i > o
    <3>1. i \in (o + 1)..j BY <1>3, <2>1, <2>2, <2>5, ControlLengths
    <3> QED BY <1>7, <2>1, <3>1
  <2> QED BY <2>2, <2>3, <2>4, <2>5
<1>11. ASSUME NEW words
       PROVE  n \in Ends(s, words) <=> SubSeq(s, o + Len(OSC), j - 1) \in words
  <2>1. ASSUME n \in Ends(s, words) PROVE SubSeq(s, o + Len(OSC), j - 1) \in words
    <3>1. PICK i, k : /\ EndAt(s, i, k) /\ n = k + Len(ST) - 1
                      /\ SubSeq(s, i + Len(OSC), k - 1) \in words
      BY <2>1, EndsAre
    <3>2. ~(n <= o - 1) /\ k + Len(ST) - 1 <= n BY <1>3, <3>1
    <3>3. i = o /\ k = j BY <1>10, <3>1, <3>2
    <3> QED BY <3>1, <3>3
  <2>2. ASSUME SubSeq(s, o + Len(OSC), j - 1) \in words PROVE n \in Ends(s, words)
    BY <1>9, <2>2, EndsAre
  <2> QED BY <2>1, <2>2
<1>12. ASSUME NEW words, NEW e \in Ends(s, words), e <= n PROVE e <= o - 1 \/ e = n
  <2>1. PICK i, k : EndAt(s, i, k) /\ e = k + Len(ST) - 1 BY EndsAre
  <2> QED BY <1>10, <1>12, <2>1
<1> QED BY <1>3, <1>6, <1>8, <1>11, <1>12


\* More data.
LEMMA ClosedLater ==
  ASSUME NEW s \in Seq(Byte), NEW b \in Seq(Byte), NEW n \in Nat, Closed(s, n)
  PROVE  Closed(s \o b, n)
<1>1. SUFFICES ASSUME NEW p \in 1..n, MayBegin(s \o b, OSC, p)
               PROVE  \E j \in Places(s \o b, ST) : p + Len(OSC) <= j /\ j + Len(ST) <= n + 1
  BY DEF Closed
<1>2. MayBegin(s, OSC, p)
  <2>1. p \in Nat /\ p > 0 OBVIOUS
  <2> QED BY <1>1, <2>1, Before, ControlLengths
<1>3. PICK j \in Places(s, ST) : p + Len(OSC) <= j /\ j + Len(ST) <= n + 1
  BY <1>2 DEF Closed
<1>4. j \in Places(s \o b, ST) BY PlacesLater, ControlLengths
<1> QED BY <1>3, <1>4

LEMMA InsideLater ==
  ASSUME NEW s \in Seq(Byte), NEW b \in Seq(Byte), NEW n \in Nat, NEW o, Inside(s, o, n)
  PROVE  Inside(s \o b, o, n)
<1>1. /\ o \in Places(s, OSC) /\ o + Len(OSC) <= n + 1 /\ Closed(s, o - 1)
      /\ \A p \in (o + Len(OSC))..n : ~MayBegin(s, ST, p)
  BY DEF Inside
<1>2. o \in Nat /\ o > 0 /\ o - 1 \in Nat
  <2>1. o \in Nat /\ o > 0 BY <1>1, PlacesAre, ControlLengths
  <2> QED BY <2>1
<1>3. o \in Places(s \o b, OSC) BY <1>1, PlacesLater, ControlLengths
<1>4. Closed(s \o b, o - 1) BY <1>1, <1>2, ClosedLater
<1>5. \A p \in (o + Len(OSC))..n : ~MayBegin(s \o b, ST, p)
  <2>1. \A p \in (o + Len(OSC))..n : p \in Nat /\ p > 0 BY <1>2, ControlLengths
  <2> QED BY <1>1, <2>1, Before, ControlLengths
<1> QED BY <1>1, <1>3, <1>4, <1>5 DEF Inside

\* Up to n it is known what is text, whatever comes behind s.
Known(s, n) == Closed(s, n) \/ \E o : Inside(s, o, n)

\* Nothing changes up to n when more data comes.
LEMMA KnownLater ==
  ASSUME NEW s \in Seq(Byte), NEW b \in Seq(Byte), NEW n \in Nat, n <= Len(s), Known(s, n)
  PROVE  /\ \A p \in 1..n : InControl(s \o b, p) <=> InControl(s, p)
         /\ \A words : \A e \in Nat : e <= n => (e \in Ends(s \o b, words) <=> e \in Ends(s, words))
<1> DEFINE t == s \o b
<1>1. /\ t \in Seq(Byte) /\ Len(s) \in Nat /\ Len(b) \in Nat
      /\ \A i \in Places(s, OSC) : i \in Nat /\ i > 0 /\ MayBegin(s, OSC, i)
      /\ \A i \in Places(t, OSC) : i \in Nat /\ i > 0 /\ MayBegin(t, OSC, i)
      /\ \A j \in Places(s, ST) : j \in Nat /\ j > 0 /\ MayBegin(s, ST, j)
      /\ \A j \in Places(t, ST) : j \in Nat /\ j > 0
  <2>1. t \in Seq(Byte) BY JoinLength
  <2> HIDE DEF t
  <2> QED BY <2>1, Elements, PlacesAre, ControlLengths
<1>2. /\ \A i \in Nat : i > 0 /\ i + Len(OSC) <= Len(s) + 1 => (i \in Places(t, OSC) <=> i \in Places(s, OSC))
      /\ \A j \in Nat : j > 0 /\ j + Len(ST) <= Len(s) + 1 => (j \in Places(t, ST) <=> j \in Places(s, ST))
      /\ \A i \in Nat : i > 0 /\ MayBegin(t, OSC, i) => MayBegin(s, OSC, i)
  BY Before, PlacesLater, ControlLengths
<1> HIDE DEF t
<1>3. ASSUME NEW i \in 1..n, MayBegin(s, OSC, i)
      PROVE  \/ i + Len(OSC) <= Len(s) + 1
             \/ \E o \in Places(s, OSC) :
                  o < i /\ \A p \in (o + Len(OSC))..n : ~MayBegin(s, ST, p)
  <2>1. CASE Closed(s, n)
    <3>1. PICK j \in Places(s, ST) : i + Len(OSC) <= j /\ j + Len(ST) <= n + 1
      BY <1>3, <2>1 DEF Closed
    <3> QED BY <1>1, <3>1, ControlLengths
  <2>2. ASSUME NEW o, Inside(s, o, n)
        PROVE  \/ i + Len(OSC) <= Len(s) + 1
               \/ o \in Places(s, OSC) /\ o < i
                  /\ \A p \in (o + Len(OSC))..n : ~MayBegin(s, ST, p)
    <3>1. /\ o \in Places(s, OSC) /\ o + Len(OSC) <= n + 1 /\ Closed(s, o - 1)
          /\ \A p \in (o + Len(OSC))..n : ~MayBegin(s, ST, p)
      BY <2>2 DEF Inside
    <3>2. o \in Nat BY <1>1, <3>1
    <3>3. CASE i < o
      <4>1. i \in 1..(o - 1) /\ (o - 1) + 1 = o BY <3>2, <3>3
      <4>2. PICK j \in Places(s, ST) : i + Len(OSC) <= j /\ j + Len(ST) <= (o - 1) + 1
        BY <1>3, <3>1, <4>1 DEF Closed
      <4> QED BY <1>1, <3>1, <3>2, <4>1, <4>2, ControlLengths
    <3>4. CASE i = o BY <3>1, <3>2, <3>4, <1>1, ControlLengths
    <3> QED BY <3>1, <3>2, <3>3, <3>4
  <2> QED BY <2>1, <2>2 DEF Known
<1>4. ASSUME NEW p \in 1..(n + 1), Unended(s, p) PROVE Unended(t, p)
  <2>1. PICK i \in Places(s, OSC) :
          i < p /\ \A j \in Places(s, ST) : ~(i + Len(OSC) <= j /\ j + Len(ST) <= p)
    BY <1>4 DEF Unended
  <2>2. i \in Places(t, OSC) BY PlacesLater, ControlLengths DEF t
  <2>3. ASSUME NEW j \in Places(t, ST) PROVE ~(i + Len(OSC) <= j /\ j + Len(ST) <= p)
    <3>1. j + Len(ST) <= p => j \in Places(s, ST) BY <1>1, <1>2, ControlLengths
    <3> QED BY <2>1, <3>1
  <2> QED BY <2>1, <2>2, <2>3 DEF Unended
<1>5. ASSUME NEW p \in 1..(n + 1), NEW o \in Places(s, OSC), o < p,
             \A q \in (o + Len(OSC))..n : ~MayBegin(s, ST, q)
      PROVE  Unended(s, p)
  <2>1. ASSUME NEW j \in Places(s, ST) PROVE ~(o + Len(OSC) <= j /\ j + Len(ST) <= p)
    <3>1. o + Len(OSC) <= j /\ j + Len(ST) <= p => j \in (o + Len(OSC))..n
      BY <1>1, ControlLengths
    <3> QED BY <1>1, <1>5, <3>1
  <2> QED BY <1>5, <2>1 DEF Unended
<1>6. ASSUME NEW p \in 1..(n + 1), Unended(t, p) PROVE Unended(s, p)
  <2>1. PICK i \in Places(t, OSC) :
          i < p /\ \A j \in Places(t, ST) : ~(i + Len(OSC) <= j /\ j + Len(ST) <= p)
    BY <1>6 DEF Unended
  <2>2. i \in Nat /\ i > 0 /\ i \in 1..n /\ MayBegin(s, OSC, i) BY <1>1, <1>2, <2>1
  <2>3. CASE i + Len(OSC) <= Len(s) + 1
    <3>1. i \in Places(s, OSC) BY <1>2, <2>2, <2>3
    <3>2. \A j \in Places(s, ST) : j \in Places(t, ST) BY PlacesLater, ControlLengths DEF t
    <3> QED BY <2>1, <3>1, <3>2 DEF Unended
  <2>4. CASE \E o \in Places(s, OSC) : o < i /\ \A q \in (o + Len(OSC))..n : ~MayBegin(s, ST, q)
    <3>1. PICK o \in Places(s, OSC) : o < i /\ \A q \in (o + Len(OSC))..n : ~MayBegin(s, ST, q)
      BY <2>4
    <3>2. o < p BY <1>1, <2>1, <2>2, <3>1
    <3> QED BY <1>5, <3>1, <3>2
  <2> QED BY <1>3, <2>2, <2>3, <2>4
<1>7. ASSUME NEW p \in 1..n PROVE InControl(t, p) <=> InControl(s, p)
  <2>1. p \in 1..(n + 1) /\ p \in Nat /\ p > 0 OBVIOUS
  <2>2. Unended(t, p) <=> Unended(s, p) BY <1>4, <1>6, <2>1
  <2>3. p \in Places(s, OSC) => p \in Places(t, OSC) BY PlacesLater, ControlLengths DEF t
  <2>4. p \in Places(t, OSC) => p \in Places(s, OSC) \/ Unended(s, p)
    <3>1. SUFFICES ASSUME p \in Places(t, OSC) PROVE p \in Places(s, OSC) \/ Unended(s, p)
      OBVIOUS
    <3>2. MayBegin(s, OSC, p) BY <1>1, <1>2, <3>1
    <3>3. CASE p + Len(OSC) <= Len(s) + 1 BY <1>2, <2>1, <3>1, <3>3
    <3>4. CASE \E o \in Places(s, OSC) : o < p /\ \A q \in (o + Len(OSC))..n : ~MayBegin(s, ST, q)
      BY <1>5, <2>1, <3>4
    <3> QED BY <1>3, <3>2, <3>3, <3>4
  <2> QED BY <2>2, <2>3, <2>4 DEF InControl
<1>8. ASSUME NEW i, NEW j, j + Len(ST) - 1 <= n
      PROVE  EndAt(t, i, j) <=> EndAt(s, i, j)
  <2>1. SUFFICES ASSUME EndAt(t, i, j) \/ EndAt(s, i, j)
                 PROVE  EndAt(t, i, j) <=> EndAt(s, i, j)
    OBVIOUS
  <2>2. i \in Nat /\ i > 0 /\ j \in Nat /\ j > 0 /\ i + Len(OSC) <= j
    BY <1>1, <2>1 DEF EndAt
  <2>3. /\ i + Len(OSC) <= Len(s) + 1 /\ j + Len(ST) <= Len(s) + 1 /\ i \in 1..(n + 1)
    BY <1>1, <1>8, <2>2, ControlLengths
  <2>4. /\ i \in Places(t, OSC) <=> i \in Places(s, OSC)
        /\ j \in Places(t, ST) <=> j \in Places(s, ST)
        /\ Unended(t, i) <=> Unended(s, i)
    BY <1>2, <1>4, <1>6, <2>2, <2>3
  <2>5. \A k \in Nat : k > 0 /\ k < j => (k \in Places(t, ST) <=> k \in Places(s, ST))
    <3>1. \A k \in Nat : k < j => k + Len(ST) <= Len(s) + 1 BY <1>1, <2>2, <2>3, ControlLengths
    <3> QED BY <1>2, <3>1
  <2>6. (\A k \in Places(t, ST) : ~(i + Len(OSC) <= k /\ k < j)) <=>
        (\A k \in Places(s, ST) : ~(i + Len(OSC) <= k /\ k < j))
    BY <1>1, <2>5
  <2> QED BY <2>4, <2>6 DEF EndAt
<1>9. ASSUME NEW i, NEW j, j + Len(ST) - 1 <= n, EndAt(s, i, j)
      PROVE  SubSeq(t, i + Len(OSC), j - 1) = SubSeq(s, i + Len(OSC), j - 1)
  <2>1. i \in Nat /\ i > 0 /\ j \in Nat /\ i + Len(OSC) <= j BY <1>1, <1>9 DEF EndAt
  <2> DEFINE c == i + Len(OSC)
             d == j - 1
  <2>2. c \in 1..Len(s) /\ d \in 1..Len(s) BY <1>1, <1>9, <2>1, ControlLengths
  <2> HIDE DEF c, d
  <2>3. SubSeq(s \o b, c, d) = SubSeq(s, c, d) BY <2>2, SubSeqOfConcat1
  <2> QED BY <2>3 DEF c, d, t
<1>10. ASSUME NEW words, NEW e \in Nat, e <= n PROVE e \in Ends(t, words) <=> e \in Ends(s, words)
  <2>1. ASSUME e \in Ends(t, words) PROVE e \in Ends(s, words)
    <3>1. PICK i, j : /\ EndAt(t, i, j) /\ e = j + Len(ST) - 1
                      /\ SubSeq(t, i + Len(OSC), j - 1) \in words
      BY <2>1, EndsAre
    <3>2. EndAt(s, i, j) BY <1>8, <1>10, <3>1
    <3>3. SubSeq(s, i + Len(OSC), j - 1) \in words BY <1>9, <1>10, <3>1, <3>2
    <3> QED BY <3>1, <3>2, <3>3, EndsAre
  <2>2. ASSUME e \in Ends(s, words) PROVE e \in Ends(t, words)
    <3>1. PICK i, j : /\ EndAt(s, i, j) /\ e = j + Len(ST) - 1
                      /\ SubSeq(s, i + Len(OSC), j - 1) \in words
      BY <2>2, EndsAre
    <3>2. EndAt(t, i, j) BY <1>8, <1>10, <3>1
    <3>3. SubSeq(t, i + Len(OSC), j - 1) \in words BY <1>9, <1>10, <3>1
    <3> QED BY <3>1, <3>2, <3>3, EndsAre
  <2> QED BY <2>1, <2>2
<1> QED BY <1>7, <1>10 DEF t


-----------------------------------------------------------------------------
(* Histories *)

\* What the filter's three marks say of the histories announced (A), left out
\* (W) and finished (F) so far, and of a history before this connection (h).
Marks(A, W, F, ih, hd, bh, h) ==
  /\ ih <=> \E b \in A \cup W : \A e \in F : ~(b < e)
  /\ hd <=> (h \/ \E b \in A, e \in F : b < e /\ \A w \in W : ~(b < w /\ w < e))
  /\ (A \cup W # {}) => (bh <=> \E b \in A : \A w \in W : ~(b < w))

\* The marks after one more control sequence at m: a history announced, left
\* out or finished.  (Opaque to those who cite the next lemma.)
MarksThen(A, W, F, m, hd, bh, h) ==
  /\ Marks(A \cup {m}, W, F, TRUE, hd, TRUE, h)
  /\ Marks(A, W \cup {m}, F, TRUE, hd, FALSE, h)
  /\ A \cup W # {} => Marks(A, W, F \cup {m}, FALSE, hd \/ bh, bh, h)

\* One more control sequence behind all of them.
LEMMA MarksGo ==
  ASSUME NEW A, NEW W, NEW F, NEW m \in Nat,
         \A x \in A \cup W \cup F : x \in Nat /\ x < m,
         NEW ih \in BOOLEAN, NEW hd \in BOOLEAN, NEW bh \in BOOLEAN, NEW h \in BOOLEAN,
         Marks(A, W, F, ih, hd, bh, h)
  PROVE  MarksThen(A, W, F, m, hd, bh, h)
<1>1. /\ ih <=> \E b \in A \cup W : \A e \in F : ~(b < e)
      /\ hd <=> (h \/ \E b \in A, e \in F : b < e /\ \A w \in W : ~(b < w /\ w < e))
      /\ (A \cup W # {}) => (bh <=> \E b \in A : \A w \in W : ~(b < w))
  BY DEF Marks
<1>2. /\ \A x \in A : x \in Nat /\ x < m /\ ~(m < x)
      /\ \A x \in W : x \in Nat /\ x < m /\ ~(m < x)
      /\ \A x \in F : x \in Nat /\ x < m /\ ~(m < x)
      /\ ~(m < m)
  OBVIOUS
<1>3. Marks(A \cup {m}, W, F, TRUE, hd, TRUE, h)
  <2>1. \E b \in (A \cup {m}) \cup W : \A e \in F : ~(b < e) BY <1>2
  <2>2. (\E b \in A \cup {m}, e \in F : b < e /\ \A w \in W : ~(b < w /\ w < e)) <=>
        (\E b \in A, e \in F : b < e /\ \A w \in W : ~(b < w /\ w < e))
    BY <1>2
  <2>3. \E b \in A \cup {m} : \A w \in W : ~(b < w) BY <1>2
  <2> QED BY <1>1, <2>1, <2>2, <2>3 DEF Marks
<1>4. Marks(A, W \cup {m}, F, TRUE, hd, FALSE, h)
  <2>1. \E b \in A \cup (W \cup {m}) : \A e \in F : ~(b < e) BY <1>2
  <2>2. (\E b \in A, e \in F : b < e /\ \A w \in W \cup {m} : ~(b < w /\ w < e)) <=>
        (\E b \in A, e \in F : b < e /\ \A w \in W : ~(b < w /\ w < e))
    BY <1>2
  <2>3. ~\E b \in A : \A w \in W \cup {m} : ~(b < w) BY <1>2
  <2> QED BY <1>1, <2>1, <2>2, <2>3 DEF Marks
<1>5. ASSUME A \cup W # {} PROVE Marks(A, W, F \cup {m}, FALSE, hd \/ bh, bh, h)
  <2>1. ~\E b \in A \cup W : \A e \in F \cup {m} : ~(b < e) BY <1>2
  <2>2. bh <=> \E b \in A : \A w \in W : ~(b < w) BY <1>1, <1>5
  <2>3. (\E b \in A, e \in F \cup {m} : b < e /\ \A w \in W : ~(b < w /\ w < e)) <=>
        \/ \E b \in A, e \in F : b < e /\ \A w \in W : ~(b < w /\ w < e)
        \/ \E b \in A : b < m /\ \A w \in W : ~(b < w /\ w < m)
    OBVIOUS
  <2>4. (\E b \in A : b < m /\ \A w \in W : ~(b < w /\ w < m)) <=>
        (\E b \in A : \A w \in W : ~(b < w))
    BY <1>2
  <2>5. (hd \/ bh) <=> (h \/ \E b \in A, e \in F \cup {m} : b < e /\ \A w \in W : ~(b < w /\ w < e))
    BY <1>1, <2>2, <2>3, <2>4
  <2> QED BY <2>1, <2>2, <2>5 DEF Marks
<1> QED BY <1>3, <1>4, <1>5, Zenon DEF MarksThen

Till(S, n) == {e \in S : e <= n}

\* The marks are right for what there is of s up to n.
Remembers(s, n, ih, hd, bh, h) ==
  Marks(Till(Announced(s), n), Till(Without(s), n), Till(Finished(s), n), ih, hd, bh, h)

\* A history with a body began and ended before p.
Block(s, p) ==
  \E b \in Announced(s), e \in Finished(s) :
    /\ b < e /\ e < p
    /\ \A n \in Without(s) : ~(b < n /\ n < e)

\* What is to be shown of s, the tail that may begin a marker included.
Visible(s, h) ==
  {p \in 1..Len(s) : ~InControl(s, p) /\ ~(InHistory(s, p) /\ (h \/ Block(s, p)))}

LEMMA EndsNat ==
  ASSUME NEW s \in Seq(Byte)
  PROVE  \A words : \A e \in Ends(s, words) : e \in Nat
<1>1. \A j \in Places(s, ST) : j \in Nat /\ j > 0 BY PlacesAre, ControlLengths
<1>2. \A i, j : EndAt(s, i, j) => j + Len(ST) - 1 \in Nat BY <1>1, ControlLengths DEF EndAt
<1> QED BY <1>2, EndsAre

LEMMA HistoryNat ==
  ASSUME NEW s \in Seq(Byte)
  PROVE  \A e \in Announced(s) \cup Without(s) \cup Finished(s) : e \in Nat
BY EndsNat DEF Announced, Without, Finished

\* Where no control sequence ends, the marks stay and say what is shown.
LEMMA MarksStay ==
  ASSUME NEW s \in Seq(Byte), NEW n \in Nat, NEW m \in Nat, n <= m, m <= Len(s),
         \A words : \A e \in Ends(s, words) : e <= m => e <= n,
         NEW ih \in BOOLEAN, NEW hd \in BOOLEAN, NEW bh, NEW h, Remembers(s, n, ih, hd, bh, h)
  PROVE  /\ Remembers(s, m, ih, hd, bh, h)
         /\ \A p \in (n + 1)..m : ~InControl(s, p) => (p \in Visible(s, h) <=> ~(ih /\ hd))
<1> DEFINE A == Announced(s)
           W == Without(s)
           F == Finished(s)
<1>1. \A e \in A \cup W \cup F : e \in Nat /\ (e <= m => e <= n)
  BY HistoryNat DEF Announced, Without, Finished
<1>2. Till(A, n) = Till(A, m) /\ Till(W, n) = Till(W, m) /\ Till(F, n) = Till(F, m)
  BY <1>1 DEF Till
<1>3. Marks(Till(A, n), Till(W, n), Till(F, n), ih, hd, bh, h) BY DEF Remembers
<1>4. Remembers(s, m, ih, hd, bh, h) BY <1>2, <1>3 DEF Remembers
<1>5. /\ ih <=> \E b \in Till(A, n) \cup Till(W, n) : \A e \in Till(F, n) : ~(b < e)
      /\ hd <=> (h \/ \E b \in Till(A, n), e \in Till(F, n) :
                        b < e /\ \A w \in Till(W, n) : ~(b < w /\ w < e))
  BY <1>3 DEF Marks
<1>6. ASSUME NEW p \in (n + 1)..m, ~InControl(s, p)
      PROVE  p \in Visible(s, h) <=> ~(ih /\ hd)
  <2>1. p \in 1..Len(s)
    <3>1. Len(s) \in Nat BY Elements
    <3> QED BY <3>1
  <2>2. \A e \in A \cup W \cup F : e < p <=> e <= n BY <1>1
  <2>3. InHistory(s, p) <=> \E b \in A \cup W : b < p /\ \A e \in F : ~(b < e /\ e < p)
    BY DEF InHistory
  <2>4. Block(s, p) <=> \E b \in A, e \in F : b < e /\ e < p /\ \A w \in W : ~(b < w /\ w < e)
    BY Zenon DEF Block
  <2> HIDE DEF A, W, F
  <2>5. InHistory(s, p) <=> ih
    <3>1. (\E b \in A \cup W : b < p /\ \A e \in F : ~(b < e /\ e < p)) <=>
          (\E b \in Till(A, n) \cup Till(W, n) : \A e \in Till(F, n) : ~(b < e))
      BY <2>2 DEF Till
    <3> QED BY <1>5, <2>3, <3>1
  <2>6. (h \/ Block(s, p)) <=> hd
    <3>1. ASSUME NEW b \in A, NEW e \in F, b < e, e < p
          PROVE  (\A w \in W : ~(b < w /\ w < e)) <=> (\A w \in Till(W, n) : ~(b < w /\ w < e))
      <4>1. \A w \in W : w < e => w <= n BY <1>1, <2>2, <3>1
      <4> QED BY <4>1 DEF Till
    <3>2. \A b \in A, e \in F : b < e /\ e < p => b <= n /\ e <= n BY <1>1, <2>2
    <3>3. Block(s, p) <=> \E b \in Till(A, n), e \in Till(F, n) :
                            b < e /\ \A w \in Till(W, n) : ~(b < w /\ w < e)
      <4>1. ASSUME Block(s, p)
            PROVE  \E b \in Till(A, n), e \in Till(F, n) :
                     b < e /\ \A w \in Till(W, n) : ~(b < w /\ w < e)
        <5>1. PICK b \in A, e \in F : b < e /\ e < p /\ \A w \in W : ~(b < w /\ w < e)
          BY <2>4, <4>1
        <5>2. b \in Till(A, n) /\ e \in Till(F, n) BY <3>2, <5>1 DEF Till
        <5> QED BY <5>1, <5>2 DEF Till
      <4>2. ASSUME NEW b \in Till(A, n), NEW e \in Till(F, n), b < e,
                   \A w \in Till(W, n) : ~(b < w /\ w < e)
            PROVE  Block(s, p)
        <5>1. b \in A /\ e \in F /\ e < p BY <2>2, <4>2 DEF Till
        <5>2. \A w \in W : ~(b < w /\ w < e) BY <3>1, <4>2, <5>1
        <5> QED BY <2>4, <4>2, <5>1, <5>2
      <4> QED BY <4>1, <4>2
    <3> QED BY <1>5, <3>3
  <2> QED BY <1>6, <2>1, <2>5, <2>6 DEF Visible
<1> QED BY <1>4, <1>6

\* When more data comes.
LEMMA VisibleLater ==
  ASSUME NEW s \in Seq(Byte), NEW b \in Seq(Byte), NEW n \in Nat, n <= Len(s), Known(s, n)
  PROVE  /\ \A h : \A p \in 1..n : p \in Visible(s \o b, h) <=> p \in Visible(s, h)
         /\ \A ih, hd, bh, h : Remembers(s \o b, n, ih, hd, bh, h) <=> Remembers(s, n, ih, hd, bh, h)
<1> DEFINE t == s \o b
<1>1. t \in Seq(Byte) /\ Len(t) = Len(s) + Len(b) /\ Len(s) \in Nat /\ Len(b) \in Nat
  BY JoinLength, Elements
<1>2. \A p \in 1..n : InControl(t, p) <=> InControl(s, p) BY KnownLater
<1>3. /\ \A e \in Nat : e <= n => (e \in Announced(t) <=> e \in Announced(s))
      /\ \A e \in Nat : e <= n => (e \in Without(t) <=> e \in Without(s))
      /\ \A e \in Nat : e <= n => (e \in Finished(t) <=> e \in Finished(s))
  BY KnownLater DEF Announced, Without, Finished
<1> HIDE DEF t
<1>4. /\ \A e \in Announced(s) \cup Without(s) \cup Finished(s) : e \in Nat
      /\ \A e \in Announced(t) \cup Without(t) \cup Finished(t) : e \in Nat
  BY <1>1, HistoryNat
<1>5. /\ Till(Announced(t), n) = Till(Announced(s), n)
      /\ Till(Without(t), n) = Till(Without(s), n)
      /\ Till(Finished(t), n) = Till(Finished(s), n)
  BY <1>3, <1>4 DEF Till
<1>6. \A ih, hd, bh, h : Remembers(t, n, ih, hd, bh, h) <=> Remembers(s, n, ih, hd, bh, h)
  BY <1>5 DEF Remembers
<1>7. ASSUME NEW p \in 1..n PROVE (InHistory(t, p) <=> InHistory(s, p)) /\ (Block(t, p) <=> Block(s, p))
  <2> DEFINE A == Announced(s)
             W == Without(s)
             F == Finished(s)
             A1 == Announced(t)
             W1 == Without(t)
             F1 == Finished(t)
  <2>1. /\ \A e \in Nat : e < p => (e \in A1 <=> e \in A)
        /\ \A e \in Nat : e < p => (e \in W1 <=> e \in W)
        /\ \A e \in Nat : e < p => (e \in F1 <=> e \in F)
    BY <1>3
  <2>2. \A e \in A \cup W \cup F \cup A1 \cup W1 \cup F1 : e \in Nat BY <1>4
  <2>3. /\ InHistory(s, p) <=> \E x \in A \cup W : x < p /\ \A e \in F : ~(x < e /\ e < p)
        /\ InHistory(t, p) <=> \E x \in A1 \cup W1 : x < p /\ \A e \in F1 : ~(x < e /\ e < p)
    BY DEF InHistory
  <2>4. /\ Block(s, p) <=> \E x \in A, e \in F : x < e /\ e < p /\ \A w \in W : ~(x < w /\ w < e)
        /\ Block(t, p) <=> \E x \in A1, e \in F1 : x < e /\ e < p /\ \A w \in W1 : ~(x < w /\ w < e)
    BY Zenon DEF Block
  <2> HIDE DEF A, W, F, A1, W1, F1
  <2>5. (\E x \in A \cup W : x < p /\ \A e \in F : ~(x < e /\ e < p)) <=>
        (\E x \in A1 \cup W1 : x < p /\ \A e \in F1 : ~(x < e /\ e < p))
    BY <2>1, <2>2
  <2>6. \A e \in Nat : e < p => \A w \in Nat : w < e => (w \in W1 <=> w \in W)
    BY <2>1
  <2>7. (\E x \in A, e \in F : x < e /\ e < p /\ \A w \in W : ~(x < w /\ w < e)) <=>
        (\E x \in A1, e \in F1 : x < e /\ e < p /\ \A w \in W1 : ~(x < w /\ w < e))
    <3>1. \A x, e \in Nat : x < e /\ e < p => (x \in A1 <=> x \in A) /\ (e \in F1 <=> e \in F)
      BY <2>1
    <3>2. \A x, e \in Nat : e < p =>
            ((\A w \in W : ~(x < w /\ w < e)) <=> (\A w \in W1 : ~(x < w /\ w < e)))
      BY <2>2, <2>6
    <3> QED BY <2>2, <3>1, <3>2
  <2> QED BY <2>3, <2>4, <2>5, <2>7
<1>8. \A h : \A p \in 1..n : p \in Visible(t, h) <=> p \in Visible(s, h)
  <2>1. \A p \in 1..n : p \in 1..Len(s) /\ p \in 1..Len(t) BY <1>1
  <2> QED BY <1>2, <1>7, <2>1 DEF Visible
<1> QED BY <1>6, <1>8 DEF t


-----------------------------------------------------------------------------
(* The META filter *)

\* The bytes of s behind n and up to m.
Part(s, n, m) == SubSeq(s, n + 1, m)

\* A sequence up to n and the next bytes of it.
LEMMA FirstMore ==
  ASSUME NEW s \in Seq(Byte), NEW n \in Nat, NEW m \in Nat, n <= m, m <= Len(s)
  PROVE  /\ First(s, n) \in Seq(Byte) /\ Len(First(s, n)) = n
         /\ Part(s, n, m) \in Seq(Byte) /\ Len(Part(s, n, m)) = m - n
         /\ \A i \in 1..(m - n) : Part(s, n, m)[i] = s[n + i]
         /\ First(s, m) = First(s, n) \o Part(s, n, m)
<1>1. Len(s) \in Nat /\ \A i \in 1..Len(s) : s[i] \in Byte BY Elements
<1>2. n \in 0..Len(s) BY <1>1
<1>3. First(s, n) \in Seq(Byte) /\ Len(First(s, n)) = n BY <1>2, CutInTwo, FirstIs
<1> DEFINE g == SubSeq(s, n + 1, m)
<1>4. g \in Seq(Byte) /\ Len(g) = m - n /\ \A i \in 1..(m - n) : g[i] = s[n + i]
  <2>1. n + 1 \in Int /\ m \in Int /\ \A i \in (n + 1)..m : s[i] \in Byte BY <1>1
  <2>2. /\ g \in Seq(Byte)
        /\ Len(g) = IF n + 1 <= m THEN m - (n + 1) + 1 ELSE 0
        /\ \A i \in 1..(m - (n + 1) + 1) : g[i] = s[(n + 1) + i - 1]
    BY <2>1, SubSeqProperties
  <2>3. \A i \in 1..(m - n) : i \in 1..(m - (n + 1) + 1) /\ (n + 1) + i - 1 = n + i
    BY <2>1
  <2> HIDE DEF g
  <2> QED BY <2>2, <2>3
<1>5. SubSeq(s, 1, n) \o SubSeq(s, n + 1, m) = SubSeq(s, 1, m)
  <2>1. 1 \in 1..(Len(s) + 1) /\ n \in (1 - 1)..Len(s) /\ m \in n..Len(s) BY <1>1
  <2> QED BY <2>1, ConcatAdjacentSubSeq, Zenon
<1> QED BY <1>3, <1>4, <1>5 DEF First, Part

\* What is picked of them.
LEMMA PickFurther ==
  ASSUME NEW s \in Seq(Byte), NEW n \in Nat, NEW m \in Nat, n <= m, m <= Len(s), NEW A
  PROVE  /\ (\A p \in (n + 1)..m : p \in A) =>
              Pick(First(s, m), A) = Pick(First(s, n), A) \o Part(s, n, m)
         /\ (\A p \in (n + 1)..m : p \notin A) => Pick(First(s, m), A) = Pick(First(s, n), A)
<1> DEFINE f == First(s, n)
           g == Part(s, n, m)
<1>1. /\ f \in Seq(Byte) /\ Len(f) = n /\ g \in Seq(Byte) /\ Len(g) = m - n
      /\ First(s, m) = f \o g
  BY FirstMore
<1> HIDE DEF f, g
<1>2. Len(f) + Len(g) = m BY <1>1
<1>3. /\ (\A i \in (Len(f) + 1)..(Len(f) + Len(g)) : i \in A) => Pick(f \o g, A) = Pick(f, A) \o g
      /\ (\A i \in (Len(f) + 1)..(Len(f) + Len(g)) : i \notin A) => Pick(f \o g, A) = Pick(f, A)
  BY <1>1, PickMore
<1> QED BY <1>1, <1>2, <1>3 DEF f, g

\* Of s the first n bytes are read and x is still to read.  (These three are
\* opaque: the provers would eliminate an equation for a name.)
Reads(s, n, x) == n \in 0..Len(s) /\ x \in Seq(Byte) /\ s = First(s, n) \o x

Adds(n, k, m) == m = n + k

Joins(a, b, w) == w = a \o b

\* Where the next k bytes of the data lie in the stream.
LEMMA Slice ==
  ASSUME NEW s \in Seq(Byte), NEW n, NEW x, Reads(s, n, x),
         NEW k \in 0..Len(x), NEW m, Adds(n, k, m)
  PROVE  /\ Len(s) = n + Len(x) /\ n \in Nat /\ m \in Nat /\ n <= m /\ m <= Len(s)
         /\ First(x, k) \in Seq(Byte) /\ From(x, k + 1) \in Seq(Byte)
         /\ Part(s, n, m) = First(x, k)
         /\ Reads(s, m, From(x, k + 1))
<1> DEFINE f == First(s, n)
<1>0. n \in 0..Len(s) /\ x \in Seq(Byte) /\ s = f \o x BY DEF Reads
<1>1. f \in Seq(Byte) /\ Len(f) = n /\ Len(s) \in Nat /\ Len(x) \in Nat /\ x \in Seq(Byte)
      /\ First(x, k) \in Seq(Byte) /\ From(x, k + 1) \in Seq(Byte)
      /\ First(x, k) \o From(x, k + 1) = x /\ Len(First(x, k)) = k
  BY <1>0, CutInTwo, FirstIs, Elements
<1>2. s = f \o x BY <1>0
<1> HIDE DEF f
<1>3. /\ Len(f \o x) = Len(f) + Len(x)
      /\ \A i \in 1..(Len(f) + Len(x)) : (f \o x)[i] = IF i <= Len(f) THEN f[i] ELSE x[i - Len(f)]
  BY <1>1, ConcatProperties
<1>4. Len(s) = n + Len(x) /\ \A i \in 1..(n + Len(x)) : s[i] = IF i <= n THEN f[i] ELSE x[i - n]
  BY <1>1, <1>2, <1>3
<1>5. n \in Nat /\ m \in Nat /\ n <= m /\ m <= Len(s) /\ m - n = k BY <1>0, <1>1, <1>4 DEF Adds
<1>6. Part(s, n, m) = First(x, k)
  <2> DEFINE g == Part(s, n, m)
             y == First(x, k)
  <2>1. g \in Seq(Byte) /\ Len(g) = k /\ \A i \in 1..k : g[i] = s[n + i]
    <3>1. /\ g \in Seq(Byte) /\ Len(g) = m - n /\ \A i \in 1..(m - n) : g[i] = s[n + i]
      <4>1. n \in Nat /\ m \in Nat /\ n <= m /\ m <= Len(s) BY <1>5
      <4> QED BY <4>1, FirstMore
    <3> HIDE DEF g
    <3> QED BY <1>5, <3>1
  <2>2. y \in Seq(Byte) /\ Len(y) = k /\ \A i \in 1..k : y[i] = x[i]
    BY <1>1, FirstHas
  <2> HIDE DEF g, y
  <2>3. ASSUME NEW i \in 1..k PROVE s[n + i] = x[i]
    <3> DEFINE p == n + i
    <3>1. p \in 1..(n + Len(x)) /\ ~(p <= n) /\ p - n = i BY <1>1, <1>5
    <3> HIDE DEF p
    <3>2. s[p] = x[i] BY <1>4, <3>1
    <3> QED BY <3>2 DEF p
  <2>4. \A i \in 1..Len(g) : g[i] = y[i] BY <2>1, <2>2, <2>3
  <2>5. g = y BY <2>1, <2>2, <2>4, SeqEqual
  <2> QED BY <2>5 DEF g, y
<1>7. First(s, m) = f \o First(x, k)
  <2>1. First(s, m) = First(s, n) \o Part(s, n, m) BY <1>5, FirstMore
  <2> QED BY <1>6, <2>1 DEF f
<1>8. s = First(s, m) \o From(x, k + 1)
  <2>1. (f \o First(x, k)) \o From(x, k + 1) = f \o (First(x, k) \o From(x, k + 1))
    BY <1>1, JoinAssociative
  <2> QED BY <1>1, <1>2, <1>7, <2>1
<1>9. Reads(s, m, From(x, k + 1))
  <2>1. m \in 0..Len(s) BY <1>5
  <2> QED BY <1>1, <1>8, <2>1 DEF Reads
<1> QED BY <1>1, <1>4, <1>5, <1>6, <1>9

\* The filter has read the first n bytes of r and has x still to read or kept
\* back: it remembers the histories and passed on what is to be shown; and it
\* knows whether it is inside a control sequence and what it collected of it.
MetaState(r, n, x, ih, hd, bh, h, sn) ==
  /\ r \in Seq(Byte) /\ Reads(r, n, x)
  /\ Remembers(r, n, ih, hd, bh, h)
  /\ sn = Pick(First(r, n), Visible(r, h))

Collects(r, n, ma) == \E o \in Nat : Inside(r, o, n) /\ ma = SubSeq(r, o + Len(OSC), n)

Place(r, n, im, ma) == IF im THEN Collects(r, n, ma) ELSE Closed(r, n)

\* What it passed on, when the text b comes.
Passed(sn, ih, hd, b) == IF ih /\ hd THEN sn ELSE sn \o b

\* What it keeps back between two messages is the beginning of a marker.
Kept(r, n, x, im) ==
  IF im THEN Len(x) < Len(ST) ELSE Len(x) < Len(OSC) /\ MayBegin(r, OSC, n + 1)

LEMMA KeptNothing ==
  ASSUME NEW r \in Seq(Byte), NEW n, n = Len(r), NEW im
  PROVE  Kept(r, n, <<>>, im)
<1>1. Len(<<>>) = 0 /\ Len(r) \in Nat BY Elements
<1>2. \A k \in 1..Len(OSC) : ~((n + 1) + k - 1 <= Len(r)) BY <1>1
<1> QED BY <1>1, <1>2, ControlLengths DEF Kept, MayBegin

\* No control sequence ends behind n and up to m.
Same(r, n, m) == n <= m /\ \A words : \A e \in Ends(r, words) : e <= m => e <= n

\* One ends at m, with the payload w.
OneMore(r, n, m, w) ==
  /\ n < m
  /\ \A words : m \in Ends(r, words) <=> w \in words
  /\ \A words : \A e \in Ends(r, words) : e <= m => e <= n \/ e = m

\* Text: the filter passes it on or drops it as part of a history.
LEMMA TextGoes ==
  ASSUME NEW r, NEW n, NEW x, NEW ih \in BOOLEAN, NEW hd \in BOOLEAN, NEW bh, NEW h, NEW sn,
         MetaState(r, n, x, ih, hd, bh, h, sn), Closed(r, n),
         NEW k \in 0..Len(x), NEW m, Adds(n, k, m),
         \A p \in (n + 1)..m : ~MayBegin(r, OSC, p)
  PROVE  /\ Closed(r, m) /\ Remembers(r, m, ih, hd, bh, h) /\ Same(r, n, m)
         /\ Pick(First(r, m), Visible(r, h)) = Passed(sn, ih, hd, First(x, k))
<1>1. /\ r \in Seq(Byte) /\ Reads(r, n, x)
      /\ Closed(r, n) /\ Remembers(r, n, ih, hd, bh, h)
      /\ sn = Pick(First(r, n), Visible(r, h))
  BY DEF MetaState
<1>2. n \in Nat /\ m \in Nat /\ n <= m /\ m <= Len(r) /\ Part(r, n, m) = First(x, k)
  BY <1>1, Slice
<1>3. /\ Closed(r, m) /\ \A p \in (n + 1)..m : ~InControl(r, p)
      /\ \A words : \A e \in Ends(r, words) : e <= m => e <= n
  BY <1>1, <1>2, TextRun
<1>4. /\ Remembers(r, m, ih, hd, bh, h)
      /\ \A p \in (n + 1)..m : ~InControl(r, p) => (p \in Visible(r, h) <=> ~(ih /\ hd))
  BY <1>1, <1>2, <1>3, MarksStay
<1>5. \A p \in (n + 1)..m : p \in Visible(r, h) <=> ~(ih /\ hd) BY <1>3, <1>4
<1> DEFINE V == Visible(r, h)
<1>6. /\ (\A p \in (n + 1)..m : p \in V) => Pick(First(r, m), V) = Pick(First(r, n), V) \o Part(r, n, m)
      /\ (\A p \in (n + 1)..m : p \notin V) => Pick(First(r, m), V) = Pick(First(r, n), V)
  <2> HIDE DEF V
  <2>1. r \in Seq(Byte) /\ n \in Nat /\ m \in Nat /\ n <= m /\ m <= Len(r) BY <1>1, <1>2
  <2> QED BY <2>1, PickFurther
<1> HIDE DEF V
<1>7. Pick(First(r, m), V) = IF ih /\ hd THEN sn ELSE sn \o Part(r, n, m)
  BY <1>1, <1>5, <1>6 DEF V
<1>8. Same(r, n, m) BY <1>2, <1>3 DEF Same
<1> QED BY <1>2, <1>3, <1>4, <1>7, <1>8 DEF V, Passed

\* Nothing of a control sequence is shown.
LEMMA ControlGoes ==
  ASSUME NEW r \in Seq(Byte), NEW n \in Nat, NEW m \in Nat, n <= m, m <= Len(r), NEW h,
         \A p \in (n + 1)..m : InControl(r, p)
  PROVE  Pick(First(r, m), Visible(r, h)) = Pick(First(r, n), Visible(r, h))
<1>1. \A p \in (n + 1)..m : p \notin Visible(r, h) BY DEF Visible
<1> QED BY <1>1, PickFurther

\* No marker begins in the data before the first one.
LEMMA NoneBefore ==
  ASSUME NEW a \in Seq(Byte), NEW b \in Seq(Byte), NEW m, Marker(m), indexOf(b, m) > 0
  PROVE  /\ indexOf(b, m) \in 1..Len(b) /\ indexOf(b, m) + Len(m) <= Len(b) + 1
         /\ Len(a) + indexOf(b, m) \in Places(a \o b, m)
         /\ \A p \in (Len(a) + 1)..(Len(a) + indexOf(b, m) - 1) : ~MayBegin(a \o b, m, p)
<1> DEFINE i == indexOf(b, m)
<1>1. /\ i \in 0..Len(b) /\ i > 0 /\ Occurs(b, m, i)
      /\ \A p \in 1..Len(b) : Occurs(b, m, p) => i <= p
  BY IndexFirst
<1>2. i + Len(m) <= Len(b) + 1 BY IndexFits
<1>3. /\ a \o b \in Seq(Byte) /\ Len(a \o b) = Len(a) + Len(b) /\ Len(a) \in Nat /\ Len(b) \in Nat
      /\ Len(m) \in Nat /\ Len(m) > 0
  BY JoinLength, Elements DEF Marker
<1> HIDE DEF i
<1>4. Len(a) + i \in Places(a \o b, m)
  <2>1. i \in Nat /\ i > 0 BY <1>1
  <2>2. Occurs(a \o b, m, Len(a) + i) BY <1>1, <2>1, Behind
  <2>3. Len(a) + i \in 1..Len(a \o b) BY <1>1, <1>3
  <2> QED BY <2>2, <2>3 DEF Places
<1>5. ASSUME NEW p \in (Len(a) + 1)..(Len(a) + i - 1), MayBegin(a \o b, m, p) PROVE FALSE
  <2> DEFINE q == p - Len(a)
  <2>1. q \in Nat /\ q > 0 /\ q \in 1..Len(b) /\ q < i /\ p = Len(a) + q BY <1>1, <1>3
  <2>2. Whole(b, m, q) BY <1>1, <1>2, <1>3, <2>1 DEF Whole
  <2> HIDE DEF q
  <2>3. MayBegin(b, m, q) BY <1>5, <2>1, Behind
  <2>4. Occurs(b, m, q) BY <2>1, <2>2, <2>3, OccursIsWhole
  <2> QED BY <1>1, <2>1, <2>4
<1>6. i \in 1..Len(b) BY <1>1, <1>3
<1> QED BY <1>2, <1>4, <1>5, <1>6 DEF i


\* The marker in the data of a turn, as a place of the stream.
LEMMA MarkerAhead ==
  ASSUME NEW r \in Seq(Byte), NEW n, NEW x, Reads(r, n, x), NEW m, Marker(m)
  PROVE  /\ n \in Nat /\ x \in Seq(Byte) /\ Len(x) \in Nat /\ Len(r) = n + Len(x)
         /\ indexOf(x, m) > 0 =>
              /\ indexOf(x, m) \in 1..Len(x) /\ indexOf(x, m) + Len(m) <= Len(x) + 1
              /\ n + indexOf(x, m) \in Places(r, m)
              /\ \A p \in (n + 1)..(n + indexOf(x, m) - 1) : ~MayBegin(r, m, p)
         /\ tailPrefix(x, m) \in 0..Len(x) /\ tailPrefix(x, m) < Len(m)
         /\ MayBegin(r, m, n + (Len(x) - tailPrefix(x, m)) + 1)
         /\ indexOf(x, m) = 0 =>
              \A p \in (n + 1)..(n + (Len(x) - tailPrefix(x, m))) : ~MayBegin(r, m, p)
<1> DEFINE f == First(r, n)
<1>1. n \in 0..Len(r) /\ x \in Seq(Byte) /\ r = f \o x BY DEF Reads
<1>2. f \in Seq(Byte) /\ Len(f) = n /\ Len(x) \in Nat /\ n \in Nat
  BY <1>1, CutInTwo, FirstIs, Elements
<1> HIDE DEF f
<1>3. Len(r) = n + Len(x) BY <1>1, <1>2, JoinLength
<1>4. indexOf(x, m) > 0 =>
        /\ indexOf(x, m) \in 1..Len(x) /\ indexOf(x, m) + Len(m) <= Len(x) + 1
        /\ n + indexOf(x, m) \in Places(r, m)
        /\ \A p \in (n + 1)..(n + indexOf(x, m) - 1) : ~MayBegin(r, m, p)
  BY <1>1, <1>2, NoneBefore
<1> DEFINE t == tailPrefix(x, m)
<1>5. t \in 0..Len(x) /\ t < Len(m) /\ MayBegin(x, m, Len(x) - t + 1)
  BY <1>1, TailHolds
<1>6. indexOf(x, m) = 0 => \A p \in (n + 1)..(n + (Len(x) - t)) : ~MayBegin(r, m, p)
  BY <1>1, <1>2, NoneBegins
<1> HIDE DEF t
<1>7. MayBegin(r, m, n + (Len(x) - t) + 1)
  <2> DEFINE q == Len(x) - t + 1
  <2>1. q \in Nat /\ q > 0 /\ n + q = n + (Len(x) - t) + 1 BY <1>2, <1>5
  <2>2. MayBegin(x, m, q) BY <1>5
  <2> HIDE DEF q
  <2>3. MayBegin(f \o x, m, Len(f) + q) <=> MayBegin(x, m, q) BY <1>1, <1>2, <2>1, Behind
  <2>4. MayBegin(r, m, n + q) BY <1>1, <1>2, <2>2, <2>3
  <2> QED BY <2>1, <2>4
<1> QED BY <1>1, <1>2, <1>3, <1>4, <1>5, <1>6, <1>7 DEF t

\* What was collected of a control sequence and the next bytes of it.
LEMMA Collected ==
  ASSUME NEW s \in Seq(Byte), NEW c \in Nat, c > 0, NEW n \in Nat, NEW m \in Nat,
         c <= n + 1, n <= m, m <= Len(s)
  PROVE  SubSeq(s, c, m) = SubSeq(s, c, n) \o Part(s, n, m)
<1>1. Len(s) \in Nat BY Elements
<1>2. c \in 1..(Len(s) + 1) /\ n \in (c - 1)..Len(s) /\ m \in n..Len(s) BY <1>1
<1>3. SubSeq(s, c, n) \o SubSeq(s, n + 1, m) = SubSeq(s, c, m)
  BY <1>2, ConcatAdjacentSubSeq, Zenon
<1> QED BY <1>3 DEF Part

\* When everything is read there is nothing to keep back.
LEMMA KeptIfRead ==
  ASSUME NEW r \in Seq(Byte), NEW n, NEW x, Reads(r, n, x), NEW im
  PROVE  x = <<>> => Kept(r, n, x, im)
<1>1. n = Len(r) + 0 \/ x # <<>>
  <2>1. Len(r) = n + Len(x) /\ n \in Nat BY MarkerAhead, ControlLengths
  <2>2. x = <<>> => Len(x) = 0 OBVIOUS
  <2> QED BY <2>1, <2>2
<1>2. Len(r) + 0 = Len(r) BY Elements
<1> QED BY <1>1, <1>2, KeptNothing

\* The turns of the loop.
LEMMA BeginsTurn ==
  ASSUME NEW r, NEW n, NEW x, NEW ih \in BOOLEAN, NEW hd \in BOOLEAN, NEW bh, NEW h, NEW sn,
         MetaState(r, n, x, ih, hd, bh, h, sn), Closed(r, n), indexOf(x, OSC) > 0
  PROVE  \E m : /\ MetaState(r, m, From(x, indexOf(x, OSC) + Len(OSC)), ih, hd, bh, h,
                             Passed(sn, ih, hd, First(x, indexOf(x, OSC) - 1)))
                /\ Place(r, m, TRUE, <<>>) /\ Same(r, n, m)
<1> DEFINE i == indexOf(x, OSC)
           o == n + i
           k == i - 1
           l == i + Len(OSC) - 1
           c == n + k
           m == n + l
           sn1 == Passed(sn, ih, hd, First(x, k))
           x1 == From(x, l + 1)
<1>1. r \in Seq(Byte) /\ Reads(r, n, x) BY DEF MetaState
<1>2. /\ n \in Nat /\ x \in Seq(Byte) /\ Len(x) \in Nat /\ Len(r) = n + Len(x)
      /\ i \in 1..Len(x) /\ i + Len(OSC) <= Len(x) + 1
      /\ o \in Places(r, OSC)
      /\ \A p \in (n + 1)..(n + i - 1) : ~MayBegin(r, OSC, p)
  BY <1>1, MarkerAhead, ControlLengths
<1>3. /\ k \in 0..Len(x) /\ l \in 0..Len(x) /\ Adds(n, k, c) /\ Adds(n, l, m)
      /\ c \in Nat /\ m \in Nat /\ o \in Nat /\ o > 0 /\ c = o - 1 /\ c + 1 = o /\ c <= m /\ m <= Len(r)
      /\ m = o + Len(OSC) - 1 /\ n + i - 1 = c /\ l + 1 = i + Len(OSC)
  <2>1. Adds(n, k, c) /\ Adds(n, l, m) BY DEF Adds
  <2> HIDE DEF i
  <2>2. /\ n \in Nat /\ Len(x) \in Nat /\ Len(r) = n + Len(x) /\ i \in Nat /\ i > 0
        /\ i + Len(OSC) <= Len(x) + 1 /\ Len(OSC) \in Nat /\ Len(OSC) > 0
    BY <1>2, ControlLengths
  <2>3. /\ k \in 0..Len(x) /\ l \in 0..Len(x)
        /\ c \in Nat /\ m \in Nat /\ o \in Nat /\ o > 0
    BY <2>2
  <2>4. /\ c = o - 1 /\ c + 1 = o /\ c <= m /\ m <= Len(r)
        /\ m = o + Len(OSC) - 1 /\ n + i - 1 = c /\ l + 1 = i + Len(OSC)
    BY <2>2
  <2> QED BY <2>1, <2>3, <2>4
<1> HIDE DEF i, o, k, l, c, m
<1>4. /\ Closed(r, c) /\ Remembers(r, c, ih, hd, bh, h) /\ Pick(First(r, c), Visible(r, h)) = sn1
      /\ Same(r, n, c)
  <2>1. \A p \in (n + 1)..c : ~MayBegin(r, OSC, p) BY <1>2, <1>3
  <2>2. k \in 0..Len(x) /\ Adds(n, k, c) BY <1>3
  <2> QED BY <2>1, <2>2, TextGoes
<1> HIDE DEF sn1
<1>5. Inside(r, o, m)
  <2>1. Closed(r, o - 1) BY <1>3, <1>4
  <2>2. Inside(r, o, o + Len(OSC) - 1) BY <1>1, <1>2, <2>1, Opens
  <2> QED BY <1>3, <2>2
<1>6. /\ \A p \in o..m : InControl(r, p)
      /\ \A words : \A e \in Ends(r, words) : e <= m => e <= o - 1
  BY <1>1, <1>3, <1>5, ControlRun
<1>7. \A words : \A e \in Ends(r, words) : e <= m => e <= c BY <1>3, <1>6
<1>8. Remembers(r, m, ih, hd, bh, h)
  <2>1. c \in Nat /\ m \in Nat /\ c <= m /\ m <= Len(r) BY <1>3
  <2> QED BY <1>1, <1>4, <1>7, <2>1, MarksStay
<1>9. Pick(First(r, m), Visible(r, h)) = sn1
  <2>1. c \in Nat /\ m \in Nat /\ c <= m /\ m <= Len(r) BY <1>3
  <2>2. \A p \in (c + 1)..m : InControl(r, p) BY <1>3, <1>6
  <2>3. Pick(First(r, m), Visible(r, h)) = Pick(First(r, c), Visible(r, h))
    BY <1>1, <2>1, <2>2, ControlGoes
  <2> QED BY <1>4, <2>3
<1>10. Reads(r, m, x1) BY <1>1, <1>3, Slice
<1>11. SubSeq(r, o + Len(OSC), m) = <<>>
  <2>1. o + Len(OSC) \in Int /\ m \in Int /\ m < o + Len(OSC) BY <1>3, ControlLengths
  <2> QED BY <2>1, SubSeqEmpty
<1> HIDE DEF x1
<1>12. MetaState(r, m, x1, ih, hd, bh, h, sn1) /\ Place(r, m, TRUE, <<>>)
  <2>1. \E q \in Nat : Inside(r, q, m) /\ <<>> = SubSeq(r, q + Len(OSC), m)
    <3>1. o \in Nat BY <1>3
    <3> QED BY <1>5, <1>11, <3>1
  <2> QED BY <1>1, <1>8, <1>9, <1>10, <2>1 DEF MetaState, Place, Collects
<1>13. x1 = From(x, i + Len(OSC)) BY <1>3 DEF x1
<1>14. Same(r, n, m)
  <2>1. n <= m BY <1>2, <1>3, <1>4 DEF Same
  <2> QED BY <1>4, <1>7, <2>1 DEF Same
<1> QED BY <1>12, <1>13, <1>14 DEF sn1, k, i

LEMMA TextTurn ==
  ASSUME NEW r, NEW n, NEW x, NEW ih \in BOOLEAN, NEW hd \in BOOLEAN, NEW bh, NEW h, NEW sn,
         MetaState(r, n, x, ih, hd, bh, h, sn), Closed(r, n), indexOf(x, OSC) = 0,
         NEW cut \in Nat, Adds(cut, tailPrefix(x, OSC), Len(x))
  PROVE  \E m : /\ MetaState(r, m, From(x, cut + 1), ih, hd, bh, h,
                             Passed(sn, ih, hd, First(x, cut)))
                /\ \A ma : Place(r, m, FALSE, ma)
                /\ Kept(r, m, From(x, cut + 1), FALSE) /\ Same(r, n, m)
<1> DEFINE m == n + cut
           sn1 == Passed(sn, ih, hd, First(x, cut))
           x1 == From(x, cut + 1)
<1>1. r \in Seq(Byte) /\ Reads(r, n, x) BY DEF MetaState
<1>2. /\ n \in Nat /\ x \in Seq(Byte) /\ Len(x) \in Nat
      /\ tailPrefix(x, OSC) \in 0..Len(x) /\ tailPrefix(x, OSC) < Len(OSC)
      /\ MayBegin(r, OSC, n + (Len(x) - tailPrefix(x, OSC)) + 1)
      /\ \A p \in (n + 1)..(n + (Len(x) - tailPrefix(x, OSC))) : ~MayBegin(r, OSC, p)
  BY <1>1, MarkerAhead, ControlLengths
<1>a. Len(x) - tailPrefix(x, OSC) = cut BY <1>2 DEF Adds
<1>b. MayBegin(r, OSC, m + 1) /\ \A p \in (n + 1)..m : ~MayBegin(r, OSC, p)
  <2>1. /\ MayBegin(r, OSC, n + (Len(x) - tailPrefix(x, OSC)) + 1)
        /\ \A p \in (n + 1)..(n + (Len(x) - tailPrefix(x, OSC))) : ~MayBegin(r, OSC, p)
    BY <1>2
  <2> QED BY ONLY <2>1, <1>a DEF m
<1>3. cut \in 0..Len(x) /\ Adds(n, cut, m) /\ Len(x) - cut < Len(OSC)
  BY <1>2, <1>a, ControlLengths DEF Adds
<1> HIDE DEF m
<1>4. /\ Closed(r, m) /\ Remembers(r, m, ih, hd, bh, h) /\ Pick(First(r, m), Visible(r, h)) = sn1
      /\ Same(r, n, m)
  BY <1>b, <1>3, TextGoes
<1>5. Reads(r, m, x1) BY <1>1, <1>3, Slice
<1>6. Len(x1) < Len(OSC)
  <2>1. Len(x1) = Len(x) - cut BY <1>2, <1>3, FromIs
  <2> QED BY <1>3, <2>1
<1> HIDE DEF x1, sn1
<1>7. MetaState(r, m, x1, ih, hd, bh, h, sn1) /\ \A ma : Place(r, m, FALSE, ma)
  BY <1>1, <1>4, <1>5 DEF MetaState, Place
<1>8. Kept(r, m, x1, FALSE) BY <1>b, <1>6 DEF Kept
<1> QED BY <1>4, <1>7, <1>8 DEF x1, sn1

LEMMA GoesOnTurn ==
  ASSUME NEW r, NEW n, NEW x, NEW ih \in BOOLEAN, NEW hd \in BOOLEAN, NEW bh, NEW h, NEW sn,
         MetaState(r, n, x, ih, hd, bh, h, sn), NEW ma, Collects(r, n, ma), indexOf(x, ST) = 0,
         NEW cut \in Nat, Adds(cut, tailPrefix(x, ST), Len(x)),
         NEW ma1, Joins(ma, First(x, cut), ma1)
  PROVE  \E m : /\ MetaState(r, m, From(x, cut + 1), ih, hd, bh, h, sn)
                /\ Collects(r, m, ma1) /\ Len(From(x, cut + 1)) < Len(ST) /\ Same(r, n, m)
<1> DEFINE m == n + cut
           x1 == From(x, cut + 1)
<1>1. r \in Seq(Byte) /\ Reads(r, n, x) /\ Remembers(r, n, ih, hd, bh, h)
      /\ Pick(First(r, n), Visible(r, h)) = sn
  BY DEF MetaState
<1>2. PICK o \in Nat : Inside(r, o, n) /\ ma = SubSeq(r, o + Len(OSC), n) BY DEF Collects
<1>3. /\ n \in Nat /\ x \in Seq(Byte) /\ Len(x) \in Nat
      /\ tailPrefix(x, ST) \in 0..Len(x) /\ tailPrefix(x, ST) < Len(ST)
      /\ \A p \in (n + 1)..(n + (Len(x) - tailPrefix(x, ST))) : ~MayBegin(r, ST, p)
  BY <1>1, MarkerAhead, ControlLengths
<1>a. Len(x) - tailPrefix(x, ST) = cut BY <1>3 DEF Adds
<1>b. \A p \in (n + 1)..m : ~MayBegin(r, ST, p) BY <1>3, <1>a
<1>4. cut \in 0..Len(x) /\ Adds(n, cut, m) /\ Len(x) - cut < Len(ST)
  BY <1>3, <1>a, ControlLengths DEF Adds
<1> HIDE DEF m
<1>5. /\ n \in Nat /\ m \in Nat /\ n <= m /\ m <= Len(r)
      /\ Part(r, n, m) = First(x, cut) /\ Reads(r, m, x1)
  BY <1>1, <1>4, Slice
<1>6. Inside(r, o, m) BY <1>1, <1>2, <1>b, <1>5, InsideFurther
<1>7. /\ o \in Nat /\ o > 0 /\ \A p \in o..m : InControl(r, p)
      /\ \A words : \A e \in Ends(r, words) : e <= m => e <= o - 1
  BY <1>1, <1>5, <1>6, ControlRun
<1>8. o + Len(OSC) <= n + 1 /\ o <= n BY <1>2, <1>5, ControlLengths DEF Inside
<1>9. \A words : \A e \in Ends(r, words) : e <= m => e <= n
  <2>1. \A words : \A e \in Ends(r, words) : e \in Nat BY <1>1, EndsNat
  <2> QED BY <1>5, <1>7, <1>8, <2>1
<1>10. Remembers(r, m, ih, hd, bh, h) BY <1>1, <1>5, <1>9, MarksStay
<1>11. Pick(First(r, m), Visible(r, h)) = sn
  <2>1. \A p \in (n + 1)..m : InControl(r, p) BY <1>5, <1>7, <1>8
  <2>2. Pick(First(r, m), Visible(r, h)) = Pick(First(r, n), Visible(r, h))
    BY <1>1, <1>5, <2>1, ControlGoes
  <2> QED BY <1>1, <2>2
<1>12. ma \o First(x, cut) = SubSeq(r, o + Len(OSC), m)
  <2> DEFINE c == o + Len(OSC)
  <2>1. c \in Nat /\ c > 0 /\ c <= n + 1 BY <1>7, <1>8, ControlLengths
  <2> HIDE DEF c
  <2>2. SubSeq(r, c, m) = SubSeq(r, c, n) \o Part(r, n, m) BY <1>1, <1>5, <2>1, Collected
  <2> QED BY <1>2, <1>5, <2>2 DEF c
<1>13. Len(x1) < Len(ST)
  <2>1. Len(x1) = Len(x) - cut BY <1>3, <1>4, FromIs
  <2> QED BY <1>4, <2>1
<1> HIDE DEF x1
<1>14. MetaState(r, m, x1, ih, hd, bh, h, sn) /\ Collects(r, m, ma1)
  <2>1. \E q \in Nat : Inside(r, q, m) /\ ma1 = SubSeq(r, q + Len(OSC), m)
    BY <1>6, <1>7, <1>12 DEF Joins
  <2> QED BY <1>1, <1>5, <1>10, <1>11, <2>1 DEF MetaState, Collects
<1>15. Same(r, n, m) BY <1>5, <1>9 DEF Same
<1> QED BY <1>13, <1>14, <1>15 DEF x1


\* A producer of the page's streams, of which r has arrived: a history that
\* ends has begun.
LEMMA HasBegun ==
  ASSUME NEW r \in Seq(Byte), NEW u \in Seq(Byte), NEW a \in BOOLEAN, r \o u \in Streams[a],
         NEW n \in Nat, n <= Len(r), Known(r, n), n \in Finished(r)
  PROVE  \E b \in Announced(r) \cup Without(r) : b < n
<1> DEFINE t == r \o u
<1>1. \A words : \A e \in Nat : e <= n => (e \in Ends(t, words) <=> e \in Ends(r, words))
  BY KnownLater
<1>2. t \in Seq(Byte) BY JoinLength
<1> HIDE DEF t
<1>3. n \in Finished(t) BY <1>1 DEF Finished
<1>4. PICK b \in Announced(t) \cup Without(t) : b < n
  <2>1. t \in Streams[a] BY DEF t
  <2> QED BY <1>3, <2>1, Histories
<1>5. b \in Nat /\ b <= n
  <2>1. b \in Nat BY <1>2, HistoryNat
  <2> QED BY <1>4, <2>1
<1>6. b \in Announced(r) \cup Without(r) BY <1>1, <1>5 DEF Announced, Without
<1> QED BY <1>4, <1>6

\* The words of onMeta are different.
LEMMA Words ==
  ASSUME NEW w
  PROVE  /\ announces(w) <=> w \in {<<WithHistory>>, <<EmptyHistory>>}
         /\ w \in {<<WithHistory>>, <<EmptyHistory>>} => w # <<NoHistory>> /\ w # <<HistEnd>>
         /\ w = <<NoHistory>> => w # <<HistEnd>>
<1>1. /\ WithHistory # NoHistory /\ WithHistory # HistEnd
      /\ EmptyHistory # NoHistory /\ EmptyHistory # HistEnd /\ NoHistory # HistEnd
  BY DEF WithHistory, EmptyHistory, NoHistory, HistEnd
<1>2. \A v : <<v>>[1] = v OBVIOUS
<1> QED BY <1>1, <1>2 DEF announces

\* The marks after the control sequence w.
MarksAfter(w, ih, hd, bh, ih1, hd1, bh1) ==
  /\ ih1 = ((ih \/ announces(w) \/ w = <<NoHistory>>) /\ w # <<HistEnd>>)
  /\ bh1 = IF announces(w) \/ w = <<NoHistory>> THEN announces(w) ELSE bh
  /\ hd1 = (hd \/ (w = <<HistEnd>> /\ bh))

\* One more control sequence, ended at m.
LEMMA RemembersMore ==
  ASSUME NEW s \in Seq(Byte), NEW n \in Nat, NEW m \in Nat, n < m,
         NEW ih \in BOOLEAN, NEW hd \in BOOLEAN, NEW bh \in BOOLEAN, NEW h \in BOOLEAN,
         Remembers(s, n, ih, hd, bh, h),
         NEW w, \A words : m \in Ends(s, words) <=> w \in words,
         \A words : \A e \in Ends(s, words) : e <= m => e <= n \/ e = m,
         m \in Finished(s) => \E b \in Announced(s) \cup Without(s) : b < m,
         NEW ih1, NEW hd1, NEW bh1, MarksAfter(w, ih, hd, bh, ih1, hd1, bh1)
  PROVE  Remembers(s, m, ih1, hd1, bh1, h)
<1> DEFINE A == Till(Announced(s), n)
           W == Till(Without(s), n)
           F == Till(Finished(s), n)
<1>1. \A e \in Announced(s) \cup Without(s) \cup Finished(s) :
         e \in Nat /\ (e <= m => e <= n \/ e = m)
  BY HistoryNat DEF Announced, Without, Finished
<1>2. /\ m \in Announced(s) <=> announces(w)
      /\ m \in Without(s) <=> w = <<NoHistory>>
      /\ m \in Finished(s) <=> w = <<HistEnd>>
  <2>1. m \in Without(s) <=> w \in {<<NoHistory>>} BY DEF Without
  <2>2. m \in Finished(s) <=> w \in {<<HistEnd>>} BY DEF Finished
  <2>3. m \in Announced(s) <=> w \in {<<WithHistory>>, <<EmptyHistory>>} BY DEF Announced
  <2> QED BY <2>1, <2>2, <2>3, Words
<1>3. /\ Till(Announced(s), m) = IF announces(w) THEN A \cup {m} ELSE A
      /\ Till(Without(s), m) = IF w = <<NoHistory>> THEN W \cup {m} ELSE W
      /\ Till(Finished(s), m) = IF w = <<HistEnd>> THEN F \cup {m} ELSE F
  BY <1>1, <1>2 DEF Till
<1>4. \A x \in A \cup W \cup F : x \in Nat /\ x < m BY <1>1 DEF Till
<1>5. Marks(A, W, F, ih, hd, bh, h) BY DEF Remembers
<1>6. w = <<HistEnd>> => A \cup W # {} BY <1>1, <1>2 DEF Till
<1> HIDE DEF A, W, F
<1>7. /\ Marks(A \cup {m}, W, F, TRUE, hd, TRUE, h)
      /\ Marks(A, W \cup {m}, F, TRUE, hd, FALSE, h)
      /\ A \cup W # {} => Marks(A, W, F \cup {m}, FALSE, hd \/ bh, bh, h)
  <2>1. MarksThen(A, W, F, m, hd, bh, h) BY <1>4, <1>5, MarksGo
  <2> QED BY <2>1, Zenon DEF MarksThen
<1>8. CASE announces(w)
  <2>1. w # <<NoHistory>> /\ w # <<HistEnd>> BY <1>8, Words
  <2>2. ih1 = TRUE /\ bh1 = TRUE /\ hd1 = hd BY <1>8, <2>1 DEF MarksAfter
  <2> QED BY <1>3, <1>7, <1>8, <2>1, <2>2 DEF Remembers
<1>9. CASE w = <<NoHistory>>
  <2>1. ~announces(w) /\ w # <<HistEnd>> BY <1>9, Words
  <2>a. ih1 = TRUE BY ONLY MarksAfter(w, ih, hd, bh, ih1, hd1, bh1), <1>9, <2>1 DEF MarksAfter
  <2>b. bh1 = FALSE BY <1>9, <2>1 DEF MarksAfter
  <2>c. hd1 = hd BY <1>9, <2>1 DEF MarksAfter
  <2>2. ih1 = TRUE /\ bh1 = FALSE /\ hd1 = hd BY <2>a, <2>b, <2>c
  <2> QED BY <1>3, <1>7, <1>9, <2>1, <2>2 DEF Remembers
<1>10. CASE w = <<HistEnd>>
  <2>1. ~announces(w) /\ w # <<NoHistory>> BY <1>10, Words
  <2>2. ih1 = FALSE /\ bh1 = bh /\ hd1 = (hd \/ bh) BY <1>10, <2>1 DEF MarksAfter
  <2> QED BY <1>3, <1>6, <1>7, <1>10, <2>1, <2>2 DEF Remembers
<1>11. CASE ~announces(w) /\ w # <<NoHistory>> /\ w # <<HistEnd>>
  <2>1. ih1 = ih /\ bh1 = bh /\ hd1 = hd BY <1>11 DEF MarksAfter
  <2> QED BY <1>3, <1>5, <1>11, <2>1 DEF Remembers
<1> QED BY <1>8, <1>9, <1>10, <1>11

LEMMA EndsTurn ==
  ASSUME NEW r, NEW n, NEW x, NEW ih \in BOOLEAN, NEW hd \in BOOLEAN, NEW bh \in BOOLEAN,
         NEW h \in BOOLEAN, NEW sn,
         MetaState(r, n, x, ih, hd, bh, h, sn), NEW ma, Collects(r, n, ma), indexOf(x, ST) > 0,
         NEW u \in Seq(Byte), NEW a \in BOOLEAN, r \o u \in Streams[a],
         NEW ih1, NEW hd1, NEW bh1,
         NEW w, Joins(ma, First(x, indexOf(x, ST) - 1), w),
         MarksAfter(w, ih, hd, bh, ih1, hd1, bh1)
  PROVE  \E m : /\ MetaState(r, m, From(x, indexOf(x, ST) + Len(ST)), ih1, hd1, bh1, h, sn)
                /\ Closed(r, m) /\ OneMore(r, n, m, w)
<1> DEFINE i == indexOf(x, ST)
           j == n + i
           k == i - 1
           l == i + Len(ST) - 1
           c == n + k
           m == n + l
           x1 == From(x, l + 1)
<1>1. r \in Seq(Byte) /\ Reads(r, n, x) /\ Remembers(r, n, ih, hd, bh, h)
      /\ Pick(First(r, n), Visible(r, h)) = sn
  BY DEF MetaState
<1>2. PICK o \in Nat : Inside(r, o, n) /\ ma = SubSeq(r, o + Len(OSC), n) BY DEF Collects
<1>3. /\ n \in Nat /\ x \in Seq(Byte) /\ Len(x) \in Nat /\ Len(r) = n + Len(x)
      /\ i \in 1..Len(x) /\ i + Len(ST) <= Len(x) + 1
      /\ j \in Places(r, ST)
      /\ \A p \in (n + 1)..(n + i - 1) : ~MayBegin(r, ST, p)
  BY <1>1, MarkerAhead, ControlLengths
<1>4. /\ k \in 0..Len(x) /\ l \in 0..Len(x) /\ Adds(n, k, c) /\ Adds(n, l, m)
      /\ c \in Nat /\ m \in Nat /\ j \in Nat /\ c = j - 1 /\ n <= c /\ c <= Len(r)
      /\ n < m /\ m <= Len(r) /\ n < j
      /\ m = j + Len(ST) - 1 /\ n + i - 1 = c /\ l + 1 = i + Len(ST)
  <2>1. Adds(n, k, c) /\ Adds(n, l, m) BY DEF Adds
  <2> HIDE DEF i
  <2>2. /\ n \in Nat /\ Len(x) \in Nat /\ Len(r) = n + Len(x) /\ i \in Nat /\ i > 0
        /\ i + Len(ST) <= Len(x) + 1 /\ Len(ST) \in Nat /\ Len(ST) > 0
    BY <1>3, ControlLengths
  <2>8. k \in 0..Len(x) BY <2>2
  <2>9. l \in 0..Len(x) BY <2>2
  <2>10. c \in Nat /\ m \in Nat BY <2>2
  <2>11. j \in Nat /\ n < j BY <2>2
  <2>3. /\ k \in 0..Len(x) /\ l \in 0..Len(x)
        /\ c \in Nat /\ m \in Nat /\ j \in Nat /\ n < j
    BY <2>8, <2>9, <2>10, <2>11
  <2>5. c = j - 1 /\ n <= c /\ n < m /\ n + i - 1 = c /\ l + 1 = i + Len(ST)
    BY <2>2
  <2>6. m = j + Len(ST) - 1 BY <2>2
  <2>7. c <= Len(r) /\ m <= Len(r)
    <3>1. k <= Len(x) /\ l <= Len(x) /\ k \in Nat /\ l \in Nat BY <2>2, <2>8, <2>9
    <3> HIDE DEF k, l
    <3> QED BY <2>2, <3>1
  <2>4. /\ c = j - 1 /\ n <= c /\ c <= Len(r) /\ n < m /\ m <= Len(r)
        /\ m = j + Len(ST) - 1 /\ n + i - 1 = c /\ l + 1 = i + Len(ST)
    BY <2>5, <2>6, <2>7
  <2> QED BY <2>1, <2>3, <2>4
<1> HIDE DEF i, j, k, l, c, m
<1>5. Part(r, n, c) = First(x, k) /\ Reads(r, m, x1)
  BY <1>1, <1>4, Slice
<1>6. o > 0 /\ o + Len(OSC) <= n + 1 /\ o <= n
  <2>1. o > 0 BY <1>1, <1>2, <1>3, ControlRun
  <2> QED BY <1>2, <1>3, <2>1, ControlLengths DEF Inside
<1>7. Inside(r, o, j - 1)
  <2>1. \A p \in (n + 1)..c : ~MayBegin(r, ST, p) BY <1>3, <1>4
  <2>2. Inside(r, o, c) BY <1>1, <1>2, <1>3, <1>4, <2>1, InsideFurther
  <2> QED BY <1>4, <2>2
<1>8. w = SubSeq(r, o + Len(OSC), j - 1)
  <2> DEFINE b == o + Len(OSC)
  <2>1. b \in Nat /\ b > 0 /\ b <= n + 1 BY <1>6, ControlLengths
  <2> HIDE DEF b
  <2>2. SubSeq(r, b, c) = SubSeq(r, b, n) \o Part(r, n, c)
    <3>1. r \in Seq(Byte) BY <1>1
    <3>2. n \in Nat /\ c \in Nat /\ n <= c /\ c <= Len(r) BY <1>3, <1>4
    <3> QED BY ONLY <3>1, <3>2, <2>1, Collected
  <2>3. SubSeq(r, b, c) = ma \o First(x, k) BY <1>2, <1>5, <2>2 DEF b
  <2>4. w = ma \o First(x, k) BY DEF Joins, k, i
  <2> QED BY <1>4, <2>3, <2>4 DEF b
<1> HIDE DEF x1
<1>9. /\ Closed(r, m)
      /\ \A p \in o..m : InControl(r, p)
      /\ \A words : m \in Ends(r, words) <=> w \in words
      /\ \A words : \A e \in Ends(r, words) : e <= m => e <= o - 1 \/ e = m
  <2>1. o + Len(OSC) <= j
    <3>1. n < j /\ o + Len(OSC) <= n + 1 /\ n \in Nat /\ j \in Nat /\ o + Len(OSC) \in Nat
      BY <1>3, <1>4, <1>6, ControlLengths
    <3> QED BY ONLY <3>1
  <2>2. m = j + Len(ST) - 1 BY <1>4
  <2>3. /\ Closed(r, m)
        /\ \A p \in o..m : InControl(r, p)
        /\ \A words : m \in Ends(r, words) <=> SubSeq(r, o + Len(OSC), j - 1) \in words
        /\ \A words : \A e \in Ends(r, words) : e <= m => e <= o - 1 \/ e = m
    BY <1>1, <1>3, <1>7, <2>1, <2>2, ControlEnd
  <2> QED BY <1>8, <2>3
<1>10. \A words : \A e \in Ends(r, words) : e <= m => e <= n \/ e = m
  <2>1. \A words : \A e \in Ends(r, words) : e \in Nat BY <1>1, EndsNat
  <2> QED BY <1>3, <1>6, <1>9, <2>1
<1>11. m \in Finished(r) => \E b \in Announced(r) \cup Without(r) : b < m
  BY <1>1, <1>4, <1>9, HasBegun DEF Known
<1>13. Remembers(r, m, ih1, hd1, bh1, h)
  <2>1. \A words : m \in Ends(r, words) <=> w \in words BY <1>9
  <2>2. n \in Nat /\ m \in Nat /\ n < m BY <1>3, <1>4
  <2> QED BY <1>1, <1>10, <1>11, <2>1, <2>2, RemembersMore
<1>14. Pick(First(r, m), Visible(r, h)) = sn
  <2>1. \A p \in (n + 1)..m : InControl(r, p) BY <1>3, <1>6, <1>9
  <2>2. n \in Nat /\ m \in Nat /\ n <= m /\ m <= Len(r) BY <1>3, <1>4
  <2>3. Pick(First(r, m), Visible(r, h)) = Pick(First(r, n), Visible(r, h))
    BY <1>1, <2>1, <2>2, ControlGoes
  <2> QED BY <1>1, <2>3
<1>15. MetaState(r, m, x1, ih1, hd1, bh1, h, sn) /\ Closed(r, m)
  BY <1>1, <1>5, <1>9, <1>13, <1>14 DEF MetaState
<1>16. x1 = From(x, i + Len(ST)) BY <1>4 DEF x1
<1>17. OneMore(r, n, m, w) BY <1>4, <1>9, <1>10 DEF OneMore
<1> QED BY <1>15, <1>16, <1>17 DEF i

\* A message arrives.
LEMMA MessageTurn ==
  ASSUME NEW r, NEW n, NEW x, NEW ih \in BOOLEAN, NEW hd \in BOOLEAN, NEW bh, NEW h, NEW sn,
         MetaState(r, n, x, ih, hd, bh, h, sn), NEW im, NEW ma, Place(r, n, im, ma),
         NEW b \in Seq(Byte)
  PROVE  MetaState(r \o b, n, x \o b, ih, hd, bh, h, sn) /\ Place(r \o b, n, im, ma)
<1> DEFINE t == r \o b
           f == First(r, n)
<1>1. r \in Seq(Byte) /\ Reads(r, n, x) /\ Remembers(r, n, ih, hd, bh, h)
      /\ Pick(f, Visible(r, h)) = sn
  BY DEF MetaState
<1>2. n \in 0..Len(r) /\ n \in Nat /\ n <= Len(r) /\ x \in Seq(Byte) /\ r = f \o x
  <2>1. n \in 0..Len(r) /\ x \in Seq(Byte) /\ r = f \o x BY <1>1 DEF Reads
  <2>2. Len(r) \in Nat BY <1>1, Elements
  <2> QED BY <2>1, <2>2
<1>3. f \in Seq(Byte) /\ Len(f) = n BY <1>1, <1>2, CutInTwo, FirstIs
<1>4. t \in Seq(Byte) /\ Len(t) = Len(r) + Len(b) /\ Len(r) \in Nat /\ Len(b) \in Nat
  BY <1>1, JoinLength, Elements
<1>5. First(t, n) = f
  <2>1. P!Extends(f, f \o (x \o b)) /\ (f \o x) \o b = f \o (x \o b)
    <3> HIDE DEF f
    <3>1. x \o b \in Seq(Byte) BY <1>2, JoinLength
    <3> QED BY <1>2, <1>3, <3>1, PrefixOfConcat, JoinAssociative
  <2>2. t = f \o (x \o b) BY <1>2, <2>1
  <2>3. First(f \o (x \o b), n) = f
    <3> HIDE DEF f
    <3> QED BY <1>3, <2>1 DEF P!Extends, First
  <2> QED BY <2>2, <2>3
<1>6. Reads(t, n, x \o b)
  <2>1. x \o b \in Seq(Byte) /\ (f \o x) \o b = f \o (x \o b)
    <3> HIDE DEF f
    <3> QED BY <1>2, <1>3, JoinLength, JoinAssociative
  <2>2. n \in 0..Len(t) BY <1>2, <1>4
  <2>3. t = First(t, n) \o (x \o b) BY <1>2, <1>5, <2>1
  <2> HIDE DEF t
  <2> QED BY <2>1, <2>2, <2>3 DEF Reads
<1> HIDE DEF f
<1>7. Known(r, n) /\ Place(t, n, im, ma)
  <2>1. CASE im
    <3>1. PICK o \in Nat : Inside(r, o, n) /\ ma = SubSeq(r, o + Len(OSC), n)
      BY <2>1 DEF Place, Collects
    <3>2. Inside(t, o, n) BY <1>1, <1>2, <3>1, InsideLater
    <3>3. SubSeq(t, o + Len(OSC), n) = SubSeq(r, o + Len(OSC), n)
      <4> DEFINE c == o + Len(OSC)
      <4>1. c \in Nat /\ c > 0 /\ c <= n + 1 BY <1>2, <3>1, ControlLengths DEF Inside
      <4> HIDE DEF c
      <4>2. CASE c = n + 1
        <5>1. c \in Int /\ n \in Int /\ n < c BY <1>2, <4>2
        <5>2. SubSeq(t, c, n) = <<>> /\ SubSeq(r, c, n) = <<>> BY <5>1, SubSeqEmpty
        <5> QED BY <5>2 DEF c
      <4>3. CASE c # n + 1
        <5>1. c \in 1..Len(r) /\ n \in 1..Len(r) BY <1>2, <1>4, <4>1, <4>3
        <5>2. SubSeq(r \o b, c, n) = SubSeq(r, c, n) BY <1>1, <5>1, SubSeqOfConcat1
        <5> QED BY <5>2 DEF c
      <4> QED BY <4>2, <4>3
    <3>4. \E q \in Nat : Inside(t, q, n) /\ ma = SubSeq(t, q + Len(OSC), n)
      BY <3>1, <3>2, <3>3
    <3> HIDE DEF t
    <3> QED BY <2>1, <3>1, <3>4 DEF Known, Place, Collects
  <2>2. CASE ~im
    <3>1. Closed(r, n) BY <2>2 DEF Place
    <3>2. Closed(t, n) BY <1>1, <1>2, <3>1, ClosedLater
    <3> QED BY <2>2, <3>1, <3>2 DEF Known, Place
  <2> QED BY <2>1, <2>2
<1>8. /\ \A p \in 1..n : p \in Visible(t, h) <=> p \in Visible(r, h)
      /\ Remembers(t, n, ih, hd, bh, h) <=> Remembers(r, n, ih, hd, bh, h)
  BY <1>1, <1>2, <1>7, VisibleLater
<1>9. Pick(f, Visible(t, h)) = sn
  <2> DEFINE V == Visible(t, h)
             U == Visible(r, h)
  <2>1. \A p \in 1..Len(f) : p \in V <=> p \in U BY <1>3, <1>8
  <2>2. Pick(f, U) = sn BY <1>1
  <2> HIDE DEF V, U
  <2>3. Pick(f, V) = Pick(f, U) BY <1>3, <2>1, PickSame
  <2> QED BY <2>2, <2>3 DEF V
<1> HIDE DEF t
<1>10. MetaState(t, n, x \o b, ih, hd, bh, h, sn)
  BY <1>1, <1>4, <1>5, <1>6, <1>8, <1>9 DEF MetaState
<1> QED BY <1>7, <1>10 DEF t

-----------------------------------------------------------------------------
(* Between the events *)

\* The META filter keeps c back, has x still to read and has handled all that
\* arrived before.
Good(r, c, x, im, ma, ih, hd, bh, h, sn) ==
  \E n : /\ MetaState(r, n, c \o x, ih, hd, bh, h, sn) /\ Place(r, n, im, ma)
         /\ x = <<>> => Kept(r, n, c, im)
         /\ x # <<>> => c = <<>>

LEMMA JoinEmpty ==
  ASSUME NEW s \in Seq(Byte)
  PROVE  <<>> \in Seq(Byte) /\ <<>> \o s = s /\ s \o <<>> = s
BY EmptySeq, ConcatEmptySeq

LEMMA GoodTurn ==
  ASSUME NEW r, NEW c, NEW x \in Seq(Byte), NEW im, NEW ma, NEW ih, NEW hd, NEW bh, NEW h, NEW sn,
         Good(r, c, x, im, ma, ih, hd, bh, h, sn), x # <<>>
  PROVE  c = <<>> /\ \E n : MetaState(r, n, x, ih, hd, bh, h, sn) /\ Place(r, n, im, ma)
<1>1. PICK n : /\ MetaState(r, n, c \o x, ih, hd, bh, h, sn) /\ Place(r, n, im, ma)
               /\ x # <<>> => c = <<>>
  BY DEF Good
<1>2. c = <<>> BY <1>1
<1>3. c \o x = x BY <1>2, JoinEmpty
<1> QED BY <1>1, <1>2, <1>3

LEMMA GoodAfter ==
  ASSUME NEW r, NEW m, NEW x \in Seq(Byte), NEW im, NEW ma, NEW ih, NEW hd, NEW bh, NEW h, NEW sn,
         MetaState(r, m, x, ih, hd, bh, h, sn), Place(r, m, im, ma)
  PROVE  Good(r, <<>>, x, im, ma, ih, hd, bh, h, sn)
<1>1. <<>> \o x = x BY JoinEmpty
<1>2. x = <<>> => Kept(r, m, x, im) BY KeptIfRead DEF MetaState
<1>3. /\ MetaState(r, m, <<>> \o x, ih, hd, bh, h, sn)
      /\ x = <<>> => Kept(r, m, <<>>, im)
  BY <1>1, <1>2
<1> QED BY <1>3 DEF Good

LEMMA GoodKept ==
  ASSUME NEW r, NEW m, NEW c \in Seq(Byte), NEW im, NEW ma, NEW ih, NEW hd, NEW bh, NEW h, NEW sn,
         MetaState(r, m, c, ih, hd, bh, h, sn), Place(r, m, im, ma), Kept(r, m, c, im)
  PROVE  Good(r, c, <<>>, im, ma, ih, hd, bh, h, sn)
<1>1. c \o <<>> = c BY JoinEmpty
<1>2. MetaState(r, m, c \o <<>>, ih, hd, bh, h, sn) BY <1>1
<1> QED BY <1>2 DEF Good

\* At the beginning of a connection.
LEMMA GoodStart ==
  ASSUME NEW ma, NEW hd \in BOOLEAN, NEW bh
  PROVE  Good(<<>>, <<>>, <<>>, FALSE, ma, FALSE, hd, bh, hd, <<>>)
<1> DEFINE e == <<>>
<1>1. e \in Seq(Byte) /\ e \o e = e /\ Len(e) = 0 BY EmptySeq, ConcatEmptySeq
<1>2. First(e, 0) = e
  <2>1. 0 < 1 BY <1>1
  <2> QED BY <1>1 DEF First
<1>3. Reads(e, 0, e)
  <2>1. 0 \in 0..Len(e) BY <1>1
  <2> QED BY <1>1, <1>2, <2>1 DEF Reads
<1>4. \A m : Places(e, m) = {} BY <1>1 DEF Places
<1>5. \A words : Ends(e, words) = {} BY <1>4 DEF Ends
<1>6. Remembers(e, 0, FALSE, hd, bh, hd)
  BY <1>5 DEF Remembers, Announced, Without, Finished, Till, Marks
<1>7. \A A : Pick(First(e, 0), A) = e BY <1>2, PickEmpty
<1> HIDE DEF e
<1>8. MetaState(e, 0, e, FALSE, hd, bh, hd, e) BY <1>1, <1>3, <1>6, <1>7 DEF MetaState
<1>9. Place(e, 0, FALSE, ma)
  <2>1. Closed(e, 0) BY DEF Closed
  <2> QED BY <2>1 DEF Place
<1>10. Good(e, <<>>, e, FALSE, ma, FALSE, hd, bh, hd, e) BY <1>1, <1>8, <1>9, GoodAfter
<1> QED BY <1>10 DEF e

\* What was passed on is what is to be shown.
LEMMA GoodIsExact ==
  ASSUME NEW r, NEW c \in Seq(Byte), NEW im, NEW ma, NEW ih, NEW hd, NEW bh, NEW sn,
         Good(r, c, <<>>, im, ma, ih, hd, bh, had, sn)
  PROVE  sn = Pick(r, Shown(r))
<1>1. PICK n : MetaState(r, n, c, ih, hd, bh, had, sn) /\ Place(r, n, im, ma) /\ Kept(r, n, c, im)
  <2>1. c \o <<>> = c BY JoinEmpty
  <2> QED BY <2>1 DEF Good
<1> DEFINE V == Visible(r, had)
           S == Shown(r)
           L == Len(r)
           T == L - tailPrefix(r, OSC)
<1>2. r \in Seq(Byte) /\ Reads(r, n, c) /\ sn = Pick(First(r, n), V)
  BY <1>1 DEF MetaState
<1>3. /\ n \in Nat /\ L \in Nat /\ Len(c) \in Nat /\ L = n + Len(c)
      /\ n <= L /\ L <= L
  BY <1>2, MarkerAhead, ControlLengths
<1>4. First(r, L) = r BY <1>2, SubSeqFull DEF First
<1>5. /\ tailPrefix(r, OSC) \in 0..L /\ tailPrefix(r, OSC) < Len(OSC)
      /\ MayBegin(r, OSC, L - tailPrefix(r, OSC) + 1)
      /\ \A p \in 1..(L - tailPrefix(r, OSC)) : MayBegin(r, OSC, p) => Occurs(r, OSC, p)
  BY <1>2, ControlLengths, TailHolds
<1>6. /\ T \in Nat /\ T <= L /\ L < T + Len(OSC) /\ MayBegin(r, OSC, T + 1)
      /\ \A p \in 1..T : MayBegin(r, OSC, p) => Occurs(r, OSC, p)
  BY <1>3, <1>5, ControlLengths
<1>7. \A p : p \in S <=> p \in 1..T /\ p \in V
  <2>1. \A p : p \in 1..T => p \in 1..L BY <1>3, <1>6
  <2>2. \A p : HadBefore(r, p) <=> had \/ Block(r, p) BY DEF HadBefore, Block
  <2> HIDE DEF T, L
  <2>3. \A p : p \in S <=> p \in 1..T /\ ~InControl(r, p) /\ ~(InHistory(r, p) /\ HadBefore(r, p))
    BY DEF Shown, T, L
  <2>4. \A p : p \in V <=> p \in 1..L /\ ~InControl(r, p) /\ ~(InHistory(r, p) /\ (had \/ Block(r, p)))
    BY DEF Visible, L
  <2> HIDE DEF S, V
  <2> QED BY <2>1, <2>2, <2>3, <2>4
<1>8. \A q \in Nat : Closed(r, q) /\ q <= L => q <= T
  <2>1. SUFFICES ASSUME NEW q \in Nat, Closed(r, q), q <= L, T < q PROVE FALSE
    BY <1>3, <1>6
  <2>2. T + 1 \in 1..q BY <1>6, <2>1
  <2>3. PICK j \in Places(r, ST) : T + 1 + Len(OSC) <= j /\ j + Len(ST) <= q + 1
    BY <1>6, <2>1, <2>2 DEF Closed
  <2>4. j \in Nat BY <1>2, PlacesAre, ControlLengths
  <2> HIDE DEF T, L
  <2> QED BY <1>3, <1>6, <2>1, <2>3, <2>4, ControlLengths
<1> HIDE DEF T, L, S, V
<1>9. CASE ~im
  <2>1. Closed(r, n) /\ Len(c) < Len(OSC) /\ MayBegin(r, OSC, n + 1)
    BY <1>1, <1>9 DEF Place, Kept
  <2>2. n <= T BY <1>3, <1>8, <2>1
  <2>3. T <= n
    <3>1. SUFFICES ASSUME n < T PROVE FALSE BY <1>3, <1>6
    <3>2. n + 1 \in 1..T BY <1>3, <1>6, <3>1
    <3>3. Occurs(r, OSC, n + 1) BY <1>6, <2>1, <3>2
    <3>4. n + 1 + Len(OSC) <= L + 1 BY <3>3 DEF Occurs, L
    <3> QED BY <1>3, <2>1, <3>4, ControlLengths
  <2>4. T = n BY <1>3, <1>6, <2>2, <2>3
  <2>5. Pick(First(r, L), S) = Pick(First(r, n), S)
    <3>1. \A p \in (n + 1)..L : p \notin S BY <1>3, <1>7, <2>4
    <3>2. L <= Len(r) BY <1>3 DEF L
    <3> QED BY <1>2, <1>3, <3>1, <3>2, PickFurther
  <2>6. Pick(First(r, n), S) = Pick(First(r, n), V)
    <3>1. First(r, n) \in Seq(Byte) /\ Len(First(r, n)) = n BY <1>2, <1>3, FirstMore DEF L
    <3>2. \A p \in 1..n : p \in S <=> p \in V BY <1>7, <2>4
    <3> QED BY <3>1, <3>2, PickSame
  <2> QED BY <1>2, <1>4, <2>5, <2>6 DEF S
<1>10. CASE im
  <2>1. Len(c) < Len(ST) BY <1>1, <1>10 DEF Kept
  <2>2. PICK o \in Nat : Inside(r, o, n) BY <1>1, <1>10 DEF Place, Collects
  <2>3. /\ o \in Places(r, OSC) /\ o > 0 /\ o + Len(OSC) <= n + 1 /\ Closed(r, o - 1)
        /\ \A p \in (o + Len(OSC))..n : ~MayBegin(r, ST, p)
    BY <1>2, <2>2, PlacesAre, ControlLengths DEF Inside
  <2>4. /\ \A j \in Places(r, ST) : j \in Nat /\ MayBegin(r, ST, j) /\ j + Len(ST) <= L + 1
    BY <1>2, PlacesAre, ControlLengths DEF L
  <2>5. ASSUME NEW p \in o..L PROVE InControl(r, p)
    <3>1. CASE p = o BY <2>3, <3>1 DEF InControl
    <3>2. CASE p # o
      <4>1. o < p /\ p <= L BY <1>3, <2>2, <2>5, <3>2
      <4>2. ASSUME NEW j \in Places(r, ST), o + Len(OSC) <= j, j + Len(ST) <= p PROVE FALSE
        <5>1. j \in Nat /\ MayBegin(r, ST, j) BY <2>4
        <5>2. n < j
          <6>1. ~(j \in (o + Len(OSC))..n) BY <2>3, <5>1
          <6> QED BY <1>3, <4>2, <5>1, <6>1, ControlLengths
        <5> QED BY <1>3, <2>1, <2>5, <4>1, <4>2, <5>1, <5>2, ControlLengths
      <4> QED BY <2>3, <4>1, <4>2 DEF InControl, Unended
    <3> QED BY <3>1, <3>2
  <2>6. o - 1 <= T
    <3>1. o - 1 \in Nat /\ o - 1 <= L BY <1>3, <2>3, ControlLengths
    <3> QED BY <1>8, <2>3, <3>1
  <2>7. \A p \in 1..L : p \in S <=> p \in V
    <3>1. ASSUME NEW p \in V, p \in 1..L PROVE p \in 1..T
      <4>1. ~InControl(r, p) BY DEF V, Visible
      <4>2. ~(p \in o..L) BY <2>5, <4>1
      <4> QED BY <1>3, <1>6, <2>6, <3>1, <4>2
    <3> QED BY <1>7, <3>1
  <2>8. Pick(r, S) = Pick(r, V)
    <3>1. \A p \in 1..Len(r) : p \in S <=> p \in V BY <2>7 DEF L
    <3> QED BY <1>2, <3>1, PickSame
  <2>9. Pick(First(r, L), V) = Pick(First(r, n), V)
    <3>1. \A p \in (n + 1)..L : InControl(r, p)
      <4>1. \A p \in (n + 1)..L : p \in o..L BY <1>3, <2>3, ControlLengths
      <4> QED BY <2>5, <4>1
    <3>2. L <= Len(r) BY <1>3 DEF L
    <3> QED BY <1>2, <1>3, <3>1, <3>2, ControlGoes DEF V
  <2> QED BY <1>2, <1>4, <2>8, <2>9 DEF S
<1> QED BY <1>9, <1>10

-----------------------------------------------------------------------------
(* The history on top of the text *)

\* A history is there once, above every frame.
Top(t) ==
  \A p, q \in 1..Len(t) : t[p] \in Lines =>
    /\ t[q] = t[p] => q = p
    /\ q \in Places(t, BSU) => p < q

HasNoLine(t) == \A i \in 1..Len(t) : t[i] \notin Lines

\* t is what there is of s behind f.
Window(s, f, t) == f + Len(t) <= Len(s) /\ \A i \in 1..Len(t) : t[i] = s[f + i]

\* So it is in each part.
LEMMA TopWindow ==
  ASSUME NEW s \in Seq(Byte), NEW f \in Nat, NEW t \in Seq(Byte), Window(s, f, t)
  PROVE  /\ Top(s) => Top(t)
         /\ HasNoLine(s) => HasNoLine(t)
<1>1. Len(s) \in Nat /\ Len(t) \in Nat BY Elements
<1>2. f + Len(t) <= Len(s) /\ \A i \in 1..Len(t) : t[i] = s[f + i] BY DEF Window
<1>3. \A i \in 1..Len(t) : f + i \in 1..Len(s) BY <1>1, <1>2
<1>4. \A i, j \in 1..Len(t) : f + i = f + j => i = j OBVIOUS
<1>5. \A i, j \in 1..Len(t) : f + i < f + j => i < j OBVIOUS
<1>6. ASSUME NEW q \in Places(t, BSU) PROVE f + q \in Places(s, BSU)
  <2>1. q \in Nat /\ q > 0 /\ MayBegin(t, BSU, q) /\ q + Len(BSU) <= Len(t) + 1
    BY PlacesAre, MarkerLengths
  <2>2. f + q \in Nat /\ f + q > 0 /\ f + q + Len(BSU) <= Len(s) + 1
    BY <1>1, <1>2, <2>1, MarkerLengths
  <2>3. MayBegin(s, BSU, f + q)
    <3>1. ASSUME NEW k \in 1..Len(BSU) PROVE s[f + q + k - 1] = BSU[k]
      <4> DEFINE i == q + k - 1
      <4>1. i \in 1..Len(t) /\ f + i = f + q + k - 1 BY <1>1, <2>1, MarkerLengths
      <4>2. t[i] = BSU[k] BY <2>1, <4>1 DEF MayBegin
      <4>3. t[i] = s[f + i] BY <1>2, <4>1
      <4> HIDE DEF i
      <4> QED BY <4>1, <4>2, <4>3
    <3> QED BY <3>1 DEF MayBegin
  <2> QED BY <2>2, <2>3, PlacesAre, MarkerLengths
<1>7. ASSUME Top(s) PROVE Top(t)
  <2> SUFFICES ASSUME NEW p \in 1..Len(t), NEW q \in 1..Len(t), t[p] \in Lines
               PROVE  (t[q] = t[p] => q = p) /\ (q \in Places(t, BSU) => p < q)
    BY DEF Top
  <2>1. f + p \in 1..Len(s) /\ f + q \in 1..Len(s) /\ s[f + p] \in Lines
        /\ t[p] = s[f + p] /\ t[q] = s[f + q]
    BY <1>2, <1>3
  <2>2. /\ s[f + q] = s[f + p] => f + q = f + p
        /\ f + q \in Places(s, BSU) => f + p < f + q
    BY <1>7, <2>1 DEF Top
  <2> QED BY <1>4, <1>5, <1>6, <2>1, <2>2
<1>8. ASSUME HasNoLine(s) PROVE HasNoLine(t) BY <1>2, <1>3, <1>8 DEF HasNoLine
<1> QED BY <1>7, <1>8

\* No line is a symbol of a frame's marker.
LEMMA LineApart ==
  ASSUME NEW t \in Seq(Byte), NEW p \in 1..Len(t), t[p] \in Lines, NEW q \in Places(t, BSU)
  PROVE  p < q \/ q + Len(BSU) <= p
<1>1. q \in Nat /\ q > 0 /\ MayBegin(t, BSU, q) /\ q + Len(BSU) <= Len(t) + 1 /\ Len(t) \in Nat
  BY PlacesAre, MarkerLengths
<1>2. SUFFICES ASSUME q <= p, p < q + Len(BSU) PROVE FALSE BY <1>1, MarkerLengths
<1> DEFINE k == p - q + 1
<1>3. k \in 1..Len(BSU) /\ q + k - 1 = p BY <1>1, <1>2, MarkerLengths
<1> HIDE DEF k
<1>4. t[q + k - 1] = BSU[k] BY <1>1, <1>3 DEF MayBegin
<1> QED BY <1>3, <1>4, LinesInHistories

\* What is written on a clean terminal, and what has no history.
LEMMA TopJoin ==
  ASSUME NEW a \in Seq(Byte), NEW b \in Seq(Byte), Top(a), Top(b), a = <<>> \/ HasNoLine(b)
  PROVE  Top(a \o b)
<1>1. CASE a = <<>>
  <2>1. a \o b = b BY <1>1, JoinEmpty
  <2> QED BY <2>1
<1>2. CASE HasNoLine(b)
  <2> DEFINE t == a \o b
  <2>1. /\ t \in Seq(Byte) /\ Len(t) = Len(a) + Len(b) /\ Len(a) \in Nat /\ Len(b) \in Nat
        /\ \A i \in 1..Len(t) : t[i] = IF i <= Len(a) THEN a[i] ELSE b[i - Len(a)]
    BY ConcatProperties, Elements
  <2> HIDE DEF t
  <2>2. SUFFICES ASSUME NEW p \in 1..Len(t), NEW q \in 1..Len(t), t[p] \in Lines
                 PROVE  (t[q] = t[p] => q = p) /\ (q \in Places(t, BSU) => p < q)
    BY DEF Top, t
  <2>3. \A i \in 1..Len(t) : t[i] \in Lines => i \in 1..Len(a) /\ t[i] = a[i]
    <3>1. ASSUME NEW i \in 1..Len(t), ~(i <= Len(a)) PROVE t[i] \notin Lines
      <4>1. i - Len(a) \in 1..Len(b) /\ t[i] = b[i - Len(a)] BY <2>1, <3>1
      <4> QED BY <1>2, <4>1 DEF HasNoLine
    <3> QED BY <2>1, <3>1
  <2>4. p \in 1..Len(a) /\ a[p] \in Lines /\ t[p] = a[p] BY <2>2, <2>3
  <2>5. ASSUME t[q] = t[p] PROVE q = p
    <3>1. q \in 1..Len(a) /\ a[q] = a[p] BY <2>2, <2>3, <2>5
    <3> QED BY <2>4, <3>1 DEF Top
  <2>6. ASSUME q \in Places(t, BSU) PROVE p < q
    <3>1. SUFFICES ASSUME ~(p < q) PROVE FALSE OBVIOUS
    <3>2. q + Len(BSU) <= p BY <2>1, <2>2, <2>6, <3>1, LineApart
    <3>3. q \in Nat /\ q > 0 /\ q + Len(BSU) <= Len(a) + 1 /\ q \in 1..Len(a)
      BY <2>1, <2>4, <3>2, MarkerLengths
    <3>4. q \in Places(a, BSU)
      <4>1. q \in Places(a \o b, BSU) BY <2>6 DEF t
      <4> QED BY ONLY <4>1, <3>3, PlacesLater, MarkerLengths, a \in Seq(Byte), b \in Seq(Byte)
    <3>5. p < q BY <2>4, <3>3, <3>4 DEF Top
    <3> QED BY <3>1, <3>5
  <2> QED BY <2>5, <2>6
<1> QED BY <1>1, <1>2

\* What is picked of the beginning of a sequence.
LEMMA PickPrefix ==
  ASSUME NEW s \in Seq(Byte), NEW A, NEW f, PickRun(f, s, A), NEW n \in 0..Len(s)
  PROVE  Pick(First(s, n), A) = f[n]
<1> DEFINE t == First(s, n)
<1>0. t \in Seq(Byte) /\ Len(t) = n /\ \A i \in 1..n : t[i] = s[i]
  BY CutInTwo, FirstIs, FirstHas
<1> HIDE DEF t
<1>1. t \in Seq(Byte) /\ Len(t) = n /\ n \in Nat /\ \A i \in 1..n : t[i] = s[i] /\ i \in 1..Len(s)
  BY <1>0, Elements
<1>2. PICK g : PickRun(g, t, A) BY <1>1, PickSteps
<1> DEFINE T == {i \in 0..n : f[i] = g[i]}
<1>3. 0 \in T BY <1>1, <1>2 DEF PickRun
<1>4. ASSUME NEW k \in 1..n, k - 1 \in T PROVE k \in T
  <2>1. f[k - 1] = g[k - 1] /\ k \in 1..Len(s) /\ k \in 1..Len(t) /\ t[k] = s[k] /\ k \in 0..n
    BY <1>1, <1>4
  <2>2. f[k] = IF k \in A THEN Append(f[k - 1], s[k]) ELSE f[k - 1] BY <2>1 DEF PickRun
  <2>3. g[k] = IF k \in A THEN Append(g[k - 1], t[k]) ELSE g[k - 1] BY <1>2, <2>1 DEF PickRun
  <2> QED BY <2>1, <2>2, <2>3
<1> HIDE DEF T
<1>5. \A k \in 0..n : k \in T BY <1>1, <1>3, <1>4, UpTo
<1>6. f[n] = g[n]
  <2>1. n \in 0..n BY <1>1
  <2> QED BY <1>5, <2>1 DEF T
<1>7. Pick(t, A) = g[n] BY <1>1, <1>2 DEF PickRun
<1> QED BY <1>6, <1>7 DEF t

LEMMA FirstOfAppend ==
  ASSUME NEW s \in Seq(Byte), NEW e \in Byte, NEW i \in 1..Len(s)
  PROVE  Append(s, e)[i] = s[i] /\ First(Append(s, e), i) = First(s, i)
<1>1. Len(s) \in Nat /\ <<e>> \in Seq(Byte) BY Elements
<1>2. Append(s, e) = s \o <<e>> BY AppendIsConcat
<1>3. 1 \in 1..Len(s) BY <1>1
<1>4. SubSeq(s \o <<e>>, 1, i) = SubSeq(s, 1, i) BY <1>1, <1>3, SubSeqOfConcat1
<1>5. Append(s, e)[i] = s[i] BY AppendProperties
<1> QED BY <1>2, <1>4, <1>5 DEF First

\* x holds what is picked up to k: each of its symbols was picked at some place.
Picked(s, A, f, k) ==
  \A i \in 1..Len(f[k]) : \E p \in 1..k :
    p \in A /\ f[k][i] = s[p] /\ f[p] = First(f[k], i)

LEMMA PickPlaces ==
  ASSUME NEW s \in Seq(Byte), NEW A
  PROVE  \A i \in 1..Len(Pick(s, A)) : \E p \in 1..Len(s) :
            /\ p \in A /\ Pick(s, A)[i] = s[p]
            /\ Pick(First(s, p), A) = First(Pick(s, A), i)
<1> DEFINE n == Len(s)
<1>1. n \in Nat /\ \A i \in 1..n : s[i] \in Byte BY Elements
<1>2. PICK f : PickRun(f, s, A) BY PickSteps
<1>3. /\ f[0] = <<>> /\ Pick(s, A) = f[n]
      /\ \A i \in 1..n : f[i] = IF i \in A THEN Append(f[i - 1], s[i]) ELSE f[i - 1]
      /\ \A i \in 0..n : f[i] \in Seq(Byte)
  BY <1>2 DEF PickRun
<1> DEFINE T == {k \in 0..n : Picked(s, A, f, k)}
<1>4. 0 \in T
  <2>1. Len(f[0]) = 0 BY <1>3
  <2> QED BY <1>1, <2>1 DEF Picked
<1>5. ASSUME NEW k \in 1..n, k - 1 \in T PROVE k \in T
  <2> DEFINE x == f[k - 1]
             y == f[k]
  <2>1. /\ Picked(s, A, f, k - 1) /\ k - 1 \in 0..n /\ k \in 0..n
        /\ x \in Seq(Byte) /\ y \in Seq(Byte) /\ s[k] \in Byte
        /\ y = IF k \in A THEN Append(x, s[k]) ELSE x
        /\ \A p \in 1..(k - 1) : p \in 1..k
        /\ Len(x) \in Nat
    BY <1>1, <1>3, <1>5, Elements
  <2>2. \A i \in 1..Len(x) : \E p \in 1..k : p \in A /\ x[i] = s[p] /\ f[p] = First(x, i)
    BY <2>1 DEF Picked
  <2>3. CASE k \notin A
    <3>1. y = x BY <2>1, <2>3
    <3>2. Picked(s, A, f, k) BY <2>2, <3>1 DEF Picked
    <3> QED BY <2>1, <3>2
  <2>4. CASE k \in A
    <3>1. y = Append(x, s[k]) BY <2>1, <2>4
    <3>2. Len(y) = Len(x) + 1 /\ y[Len(x) + 1] = s[k]
      <4> HIDE DEF x, y
      <4> QED BY <2>1, <3>1, AppendProperties
    <3>3. ASSUME NEW i \in 1..Len(y)
          PROVE  \E p \in 1..k : p \in A /\ y[i] = s[p] /\ f[p] = First(y, i)
      <4>1. CASE i \in 1..Len(x)
        <5>1. y[i] = x[i] /\ First(y, i) = First(x, i)
          <6> HIDE DEF x, y
          <6> QED BY <2>1, <3>1, <4>1, FirstOfAppend
        <5> QED BY <2>2, <4>1, <5>1
      <4>2. CASE i \notin 1..Len(x)
        <5>1. i = Len(y) /\ i = Len(x) + 1 BY <2>1, <3>2, <3>3, <4>2
        <5>2. First(y, i) = y
          <6> HIDE DEF x, y
          <6> QED BY <2>1, <5>1, SubSeqFull DEF First
        <5>3. k \in 1..k BY <1>1
        <5> QED BY <2>4, <3>2, <5>1, <5>2, <5>3
      <4> QED BY <4>1, <4>2
    <3>4. Picked(s, A, f, k) BY <3>3 DEF Picked
    <3> QED BY <2>1, <3>4
  <2> QED BY <2>3, <2>4
<1> HIDE DEF T
<1>6. \A k \in 0..n : k \in T
  <2> HIDE DEF n
  <2> QED BY <1>1, <1>4, <1>5, UpTo
<1>7. Picked(s, A, f, n)
  <2>1. n \in 0..n BY <1>1
  <2> QED BY <1>6, <2>1 DEF T
<1>8. \A p \in 1..n : Pick(First(s, p), A) = f[p]
  <2>1. \A p \in 1..n : p \in 0..n BY <1>1
  <2> QED BY <1>2, <2>1, PickPrefix
<1> DEFINE v == Pick(s, A)
<1>9. v = f[n] BY <1>3
<1>10. \A i \in 1..Len(v) : \E p \in 1..n : p \in A /\ v[i] = s[p] /\ f[p] = First(v, i)
  BY <1>7, <1>9 DEF Picked
<1> HIDE DEF v
<1>11. \A i \in 1..Len(v) : \E p \in 1..n : p \in A /\ v[i] = s[p] /\ Pick(First(s, p), A) = First(v, i)
  BY <1>8, <1>10
<1> QED BY <1>11 DEF v

\* What arrived on a connection begins a stream of a producer.
Comes(r) == r = <<>> \/ \E u \in Seq(Byte), a \in BOOLEAN : r \o u \in Streams[a]

Stream(s) == s \in Seq(Byte) /\ \E a \in BOOLEAN : s \in Streams[a]

\* The first announcement is that of a history with a body, up to n.
BodyFirst(s, n) ==
  \E b \in Ends(s, {<<WithHistory>>}) : b <= n /\ \A d \in Announced(s) : ~(d < b)

LEMMA Produced ==
  ASSUME NEW s, Stream(s)
  PROVE  /\ \A b, d \in Announced(s) \cup Without(s) : b < d => \E e \in Finished(s) : b < e /\ e < d
         /\ \A p \in 1..Len(s) : s[p] \in Lines =>
              /\ \A q \in 1..Len(s) : s[q] = s[p] => q = p
              /\ InBody(s, p)
              /\ Places(Pick(First(s, p), {q \in 1..p : ~InControl(s, q)}), BSU) = {}
<1>1. PICK a \in BOOLEAN : s \in Streams[a] BY DEF Stream
<1> QED BY <1>1, LinesInHistories

\* Behind the beginning of a history no other one begins before it is finished.
LEMMA FinishFirst ==
  ASSUME NEW s, Stream(s), NEW b \in Announced(s) \cup Without(s),
         NEW e0 \in Finished(s), b < e0
  PROVE  \E e \in Finished(s) : /\ b < e /\ e <= e0
                                /\ \A d \in Announced(s) \cup Without(s) : ~(b < d /\ d < e)
<1> DEFINE F == {e \in Finished(s) : b < e}
<1>0. \A e \in Announced(s) \cup Without(s) \cup Finished(s) : e \in Nat BY HistoryNat DEF Stream
<1>1. F \subseteq Nat /\ F # {} BY <1>0
<1>2. PICK e \in F : \A x \in F : e <= x BY <1>1, HasLeast
<1>3. ASSUME NEW d \in Announced(s) \cup Without(s), b < d, d < e PROVE FALSE
  <2>1. PICK x \in Finished(s) : b < x /\ x < d BY <1>3, Produced
  <2>2. x \in Nat /\ d \in Nat /\ e \in Nat BY <1>0, <1>2, <2>1
  <2>3. e <= x BY <1>2, <2>1
  <2> QED BY <1>3, <2>1, <2>2, <2>3
<1> QED BY <1>2, <1>3

\* A history with a body that began up to n is there or under way.
LEMMA Begun ==
  ASSUME NEW s, Stream(s), NEW n \in Nat,
         NEW ih \in BOOLEAN, NEW hd \in BOOLEAN, NEW bh, NEW h,
         Remembers(s, n, ih, hd, bh, h), NEW b \in Announced(s), b <= n
  PROVE  hd \/ (ih /\ bh)
<1> DEFINE A == Till(Announced(s), n)
           W == Till(Without(s), n)
           F == Till(Finished(s), n)
<1>1. /\ ih <=> \E x \in A \cup W : \A e \in F : ~(x < e)
      /\ hd <=> (h \/ \E x \in A, e \in F : x < e /\ \A w \in W : ~(x < w /\ w < e))
      /\ (A \cup W # {}) => (bh <=> \E x \in A : \A w \in W : ~(x < w))
  BY DEF Remembers, Marks
<1>2. \A e \in Announced(s) \cup Without(s) \cup Finished(s) : e \in Nat BY HistoryNat DEF Stream
<1>3. b \in A BY DEF Till
<1>4. CASE \E e \in F : b < e
  <2>1. PICK e0 \in Finished(s) : b < e0 /\ e0 <= n BY <1>4 DEF Till
  <2>2. PICK e \in Finished(s) : b < e /\ e <= e0
                                 /\ \A d \in Announced(s) \cup Without(s) : ~(b < d /\ d < e)
    BY <2>1, FinishFirst
  <2>3. e \in F BY <1>2, <2>1, <2>2 DEF Till
  <2>4. \A w \in W : ~(b < w /\ w < e) BY <2>2 DEF Till
  <2> HIDE DEF A, W, F
  <2> QED BY <1>1, <1>3, <2>2, <2>3, <2>4
<1>5. CASE \A e \in F : ~(b < e)
  <2>1. ASSUME NEW w \in W, b < w PROVE FALSE
    <3>1. w \in Without(s) /\ w <= n BY DEF Till
    <3>2. PICK e \in Finished(s) : b < e /\ e < w BY <2>1, <3>1, Produced
    <3>3. e \in F BY <1>2, <3>1, <3>2 DEF Till
    <3> QED BY <1>5, <3>2, <3>3
  <2> HIDE DEF A, W, F
  <2> QED BY <1>1, <1>3, <1>5, <2>1
<1> QED BY <1>4, <1>5

\* Only a history with a body that is the first one is shown, and what is
\* above a line of it is shown as well.
LEMMA LineSeen ==
  ASSUME NEW s, Stream(s), NEW h, NEW p \in Visible(s, h), s[p] \in Lines
  PROVE  /\ ~h
         /\ \E b \in Ends(s, {<<WithHistory>>}) : b < p /\ \A d \in Announced(s) : ~(d < b)
         /\ \A q \in 1..p : q \in Visible(s, h) <=> ~InControl(s, q)
<1>1. /\ p \in 1..Len(s) /\ ~InControl(s, p) /\ ~(InHistory(s, p) /\ (h \/ Block(s, p)))
      /\ s \in Seq(Byte)
  BY DEF Visible, Stream
<1>2. \A e \in Announced(s) \cup Without(s) \cup Finished(s) : e \in Nat BY <1>1, HistoryNat
<1>3. PICK b \in Ends(s, {<<WithHistory>>}) : b < p /\ \A e \in Finished(s) : ~(b < e /\ e < p)
  BY <1>1, Produced DEF InBody
<1>4. b \in Announced(s) BY <1>3 DEF Announced, Ends
<1>5. InHistory(s, p) BY <1>3, <1>4 DEF InHistory
<1>6. ~h /\ ~Block(s, p) BY <1>1, <1>5
<1>7. ASSUME NEW d \in Announced(s), d < b PROVE FALSE
  <2>1. PICK e0 \in Finished(s) : d < e0 /\ e0 < b BY <1>4, <1>7, Produced
  <2>2. PICK e \in Finished(s) : d < e /\ e <= e0
                                 /\ \A x \in Announced(s) \cup Without(s) : ~(d < x /\ x < e)
    BY <2>1, FinishFirst
  <2>3. e < p BY <1>1, <1>2, <1>3, <1>4, <2>1, <2>2
  <2>4. Block(s, p) BY <2>2, <2>3 DEF Block
  <2> QED BY <1>6, <2>4
<1>8. ASSUME NEW q \in 1..p PROVE q \in Visible(s, h) <=> ~InControl(s, q)
  <2>1. q \in 1..Len(s) /\ q <= p /\ q \in Nat /\ p \in Nat BY <1>1, Elements
  <2>2. ASSUME Block(s, q) PROVE FALSE
    <3>1. PICK x \in Announced(s), e \in Finished(s) :
             x < e /\ e < q /\ \A w \in Without(s) : ~(x < w /\ w < e)
      BY <2>2 DEF Block
    <3>2. e < p BY <1>2, <2>1, <3>1
    <3>3. Block(s, p) BY <3>1, <3>2 DEF Block
    <3> QED BY <1>6, <3>3
  <2> QED BY <1>6, <2>1, <2>2 DEF Visible
<1> QED BY <1>3, <1>6, <1>7, <1>8

LEMMA FirstOfFirst ==
  ASSUME NEW s \in Seq(Byte), NEW n \in 0..Len(s), NEW p \in 0..n
  PROVE  First(First(s, n), p) = First(s, p)
<1> DEFINE f == First(s, n)
           x == First(f, p)
           y == First(s, p)
<1>1. Len(s) \in Nat /\ n \in Nat /\ p \in Nat /\ p \in 0..Len(s) BY Elements
<1>2. f \in Seq(Byte) /\ Len(f) = n /\ \A i \in 1..n : f[i] = s[i]
  BY CutInTwo, FirstIs, FirstHas
<1>3. y \in Seq(Byte) /\ Len(y) = p /\ \A i \in 1..p : y[i] = s[i]
  BY <1>1, CutInTwo, FirstIs, FirstHas
<1> HIDE DEF f, y
<1>4. x \in Seq(Byte) /\ Len(x) = p /\ \A i \in 1..p : x[i] = f[i]
  BY <1>2, CutInTwo, FirstIs, FirstHas
<1> HIDE DEF x
<1>5. \A i \in 1..Len(x) : x[i] = y[i] BY <1>1, <1>2, <1>3, <1>4
<1>6. x = y BY <1>3, <1>4, <1>5, SeqEqual
<1> QED BY <1>6 DEF f, x, y

\* Where a symbol of the text stands in the stream.
LEMMA TextPlaces ==
  ASSUME NEW s \in Seq(Byte), NEW n \in 0..Len(s), NEW V, NEW t, t = Pick(First(s, n), V)
  PROVE  /\ t \in Seq(Byte) /\ Len(t) \in Nat
         /\ \A i \in 1..Len(t) : \E p \in 1..n :
              p \in V /\ t[i] = s[p] /\ Pick(First(s, p), V) = First(t, i)
<1> DEFINE f == First(s, n)
<1>1. f \in Seq(Byte) /\ Len(f) = n /\ (\A i \in 1..n : f[i] = s[i])
  BY CutInTwo, FirstIs, FirstHas
<1>2. \A p \in 1..n : First(f, p) = First(s, p)
  <2>1. \A p \in 1..n : p \in 0..n OBVIOUS
  <2> QED BY <2>1, FirstOfFirst
<1>3. t = Pick(f, V) OBVIOUS
<1> HIDE DEF f
<1>4. \A i \in 1..Len(Pick(f, V)) : \E p \in 1..Len(f) :
            /\ p \in V /\ Pick(f, V)[i] = f[p]
            /\ Pick(First(f, p), V) = First(Pick(f, V), i)
  BY <1>1, PickPlaces
<1>5. \A i \in 1..Len(t) : \E p \in 1..n :
            p \in V /\ t[i] = f[p] /\ Pick(First(f, p), V) = First(t, i)
  BY ONLY <1>1, <1>3, <1>4
<1>6. Pick(f, V) \in Seq(Byte) BY <1>1, PickType
<1>7. t \in Seq(Byte) /\ Len(t) \in Nat BY ONLY <1>3, <1>6, Elements
<1> QED BY <1>1, <1>2, <1>5, <1>7

\* The text has a line only if the history it is of is the first one.
LEMMA LineInText ==
  ASSUME NEW s, Stream(s), NEW h, NEW n \in 0..Len(s), NEW t,
         t = Pick(First(s, n), Visible(s, h)), ~HasNoLine(t)
  PROVE  ~h /\ BodyFirst(s, n)
<1>1. s \in Seq(Byte) BY DEF Stream
<1>2. PICK i \in 1..Len(t) : t[i] \in Lines BY DEF HasNoLine
<1> DEFINE V == Visible(s, h)
<1>3. PICK p \in 1..n : p \in V /\ t[i] = s[p]
  <2> HIDE DEF V
  <2>1. t = Pick(First(s, n), V) BY DEF V
  <2> QED BY ONLY <1>1, <1>2, <2>1, n \in 0..Len(s), TextPlaces
<1>4. ~h /\ \E b \in Ends(s, {<<WithHistory>>}) : b < p /\ \A d \in Announced(s) : ~(d < b)
  BY <1>2, <1>3, LineSeen
<1>5. \A b \in Ends(s, {<<WithHistory>>}) : b \in Nat BY <1>1, EndsNat
<1>6. \A b \in Nat : b < p => b <= n BY <1>3, <1>1, Elements
<1> QED BY <1>4, <1>5, <1>6 DEF BodyFirst

\* The text has each line once, above every frame.
LEMMA TopText ==
  ASSUME NEW s, Stream(s), NEW h, NEW n \in 0..Len(s), NEW t,
         t = Pick(First(s, n), Visible(s, h))
  PROVE  Top(t)
<1> DEFINE V == Visible(s, h)
<1>1. s \in Seq(Byte) /\ Len(s) \in Nat BY Elements DEF Stream
<1>2. /\ t \in Seq(Byte) /\ Len(t) \in Nat
      /\ \A i \in 1..Len(t) : \E p \in 1..n :
              p \in V /\ t[i] = s[p] /\ Pick(First(s, p), V) = First(t, i)
  <2> HIDE DEF V
  <2>1. t = Pick(First(s, n), V) BY DEF V
  <2> QED BY ONLY <1>1, <2>1, n \in 0..Len(s), TextPlaces
<1> HIDE DEF V
<1>3. SUFFICES ASSUME NEW i \in 1..Len(t), NEW j \in 1..Len(t), t[i] \in Lines
               PROVE  (t[j] = t[i] => j = i) /\ (j \in Places(t, BSU) => i < j)
  BY DEF Top
<1>4. PICK p \in 1..n : p \in V /\ t[i] = s[p] /\ Pick(First(s, p), V) = First(t, i) BY <1>2
<1>5. p \in 1..Len(s) /\ p \in Nat BY <1>1, <1>4
<1>6. i \in 0..Len(t) /\ j \in 0..Len(t) BY <1>2
<1>7. Len(First(t, i)) = i /\ Len(First(t, j)) = j /\ First(t, i) \in Seq(Byte) BY <1>2, <1>6, FirstIs, CutInTwo
<1>8. ASSUME t[j] = t[i] PROVE j = i
  <2>1. PICK q \in 1..n : q \in V /\ t[j] = s[q] /\ Pick(First(s, q), V) = First(t, j) BY <1>2
  <2>2. q \in 1..Len(s) BY <1>1, <2>1
  <2>a. \A v \in 1..Len(s) : s[v] = s[p] => v = p
    <3>1. s[p] \in Lines BY <1>3, <1>4
    <3>2. Stream(s) OBVIOUS
    <3> QED BY ONLY <3>1, <3>2, <1>5, Produced
  <2>3. q = p BY ONLY <1>4, <1>8, <2>1, <2>2, <2>a
  <2>4. First(t, i) = First(t, j) BY <1>4, <2>1, <2>3
  <2> QED BY <1>7, <2>4
<1>9. ASSUME j \in Places(t, BSU) PROVE i < j
  <2>1. SUFFICES ASSUME ~(i < j) PROVE FALSE OBVIOUS
  <2>2. j + Len(BSU) <= i BY <1>2, <1>3, <1>9, <2>1, LineApart
  <2> DEFINE U == {q \in 1..p : ~InControl(s, q)}
             g == First(s, p)
  <2>3. g \in Seq(Byte) /\ Len(g) = p
    <3>1. p \in 0..Len(s) BY <1>5
    <3> QED BY <1>1, <3>1, CutInTwo, FirstIs
  <2>4. \A q \in 1..p : q \in V <=> q \in U BY <1>3, <1>4, LineSeen DEF V
  <2>5. Pick(g, V) = Pick(g, U)
    <3> HIDE DEF U, g
    <3> QED BY <2>3, <2>4, PickSame
  <2>6. Places(Pick(g, U), BSU) = {} BY <1>3, <1>4, <1>5, Produced
  <2>7. Places(First(t, i), BSU) = {} BY <1>4, <2>5, <2>6
  <2>8. j \in Places(First(t, i), BSU)
    <3>1. First(t, i) \o From(t, i + 1) = t /\ From(t, i + 1) \in Seq(Byte) BY <1>2, <1>6, CutInTwo
    <3>2. j \in Nat /\ j > 0 /\ j + Len(BSU) <= Len(First(t, i)) + 1
      BY <1>6, <1>7, <1>3, <2>2, MarkerLengths
    <3> DEFINE x == First(t, i)
               y == From(t, i + 1)
    <3>3. x \o y = t BY <3>1
    <3> HIDE DEF x, y
    <3>4. j \in Places(x \o y, BSU) BY <1>9, <3>3
    <3>5. x \in Seq(Byte) /\ y \in Seq(Byte) /\ j + Len(BSU) <= Len(x) + 1 BY <1>7, <3>1, <3>2 DEF x, y
    <3>6. j \in Places(x, BSU) BY ONLY <3>2, <3>4, <3>5, PlacesLater, MarkerLengths
    <3> QED BY <3>6 DEF x
  <2> QED BY <2>7, <2>8
<1> QED BY <1>8, <1>9

\* No history begins inside another.
LEMMA NotInHistory ==
  ASSUME NEW s, Stream(s), NEW n \in Nat, NEW m \in Nat, n < m,
         NEW ih, NEW hd, NEW bh, NEW h, Remembers(s, n, ih, hd, bh, h),
         m \in Announced(s) \cup Without(s),
         \A words : \A e \in Ends(s, words) : e <= m => e <= n \/ e = m
  PROVE  ~ih
<1>1. ih <=> \E x \in Till(Announced(s), n) \cup Till(Without(s), n) :
                \A e \in Till(Finished(s), n) : ~(x < e)
  BY DEF Remembers, Marks
<1>2. \A e \in Announced(s) \cup Without(s) \cup Finished(s) : e \in Nat BY HistoryNat DEF Stream
<1>3. SUFFICES ASSUME NEW x \in Till(Announced(s), n) \cup Till(Without(s), n),
                      \A e \in Till(Finished(s), n) : ~(x < e)
               PROVE  FALSE
  BY <1>1
<1>4. x \in Announced(s) \cup Without(s) /\ x <= n BY DEF Till
<1>a. x < m BY <1>2, <1>4
<1>5. PICK e \in Finished(s) : x < e /\ e < m BY <1>4, <1>a, Produced
<1>6. e <= n
  <2>1. e \in Nat BY <1>2, <1>5
  <2>2. e <= m /\ e # m BY <1>5, <2>1
  <2> QED BY <1>5, <2>2 DEF Finished
<1> QED BY <1>3, <1>5, <1>6 DEF Till

IsText(sn, s, n, h) == sn = Pick(First(s, n), Visible(s, h))

\* What a connection has heard, of the stream that what arrived begins.
LEMMA InStream ==
  ASSUME NEW r \in Seq(Byte), NEW u \in Seq(Byte), NEW n, NEW x, NEW ih \in BOOLEAN, NEW hd \in BOOLEAN,
         NEW bh, NEW h, NEW sn, MetaState(r, n, x, ih, hd, bh, h, sn),
         NEW im, NEW ma, Place(r, n, im, ma)
  PROVE  /\ n \in Nat /\ n <= Len(r) /\ n \in 0..Len(r \o u) /\ Known(r, n)
         /\ Remembers(r \o u, n, ih, hd, bh, h)
         /\ IsText(sn, r \o u, n, h)
         /\ \A words : \A e \in Nat : e <= n => (e \in Ends(r \o u, words) <=> e \in Ends(r, words))
<1>1. r \in Seq(Byte) /\ Reads(r, n, x) BY DEF MetaState
<1>2. n \in Nat /\ n <= Len(r) /\ n \in 0..Len(r \o u)
  <2>1. /\ n \in 0..Len(r) /\ Len(r) \in Nat /\ Len(u) \in Nat
        /\ Len(r \o u) = Len(r) + Len(u)
    BY <1>1, JoinLength, Elements DEF Reads
  <2> QED BY <2>1
<1>3. Known(r, n)
  <2>1. CASE im BY <2>1 DEF Place, Collects, Known
  <2>2. CASE ~im BY <2>2 DEF Place, Known
  <2> QED BY <2>1, <2>2
<1>4. MetaState(r \o u, n, x \o u, ih, hd, bh, h, sn) BY MessageTurn
<1>5. \A words : \A e \in Nat : e <= n => (e \in Ends(r \o u, words) <=> e \in Ends(r, words))
  BY <1>1, <1>2, <1>3, KnownLater
<1> DEFINE s == r \o u
<1>6. MetaState(s, n, x \o u, ih, hd, bh, h, sn) BY <1>4
<1> HIDE DEF s
<1>7. Remembers(s, n, ih, hd, bh, h) /\ IsText(sn, s, n, h)
  BY <1>6 DEF MetaState, IsText
<1> QED BY <1>2, <1>3, <1>5, <1>7 DEF s

LEMMA BodyFirstKnown ==
  ASSUME NEW r \in Seq(Byte), NEW s \in Seq(Byte), NEW n \in Nat,
         \A words : \A e \in Nat : e <= n => (e \in Ends(s, words) <=> e \in Ends(r, words))
  PROVE  BodyFirst(s, n) <=> BodyFirst(r, n)
<1> DEFINE With(t) == Ends(t, {<<WithHistory>>})
<1>1. /\ \A b \in With(r) : b \in Nat
      /\ \A b \in With(s) : b \in Nat
      /\ \A b \in Announced(r) : b \in Nat
      /\ \A b \in Announced(s) : b \in Nat
  BY EndsNat DEF Announced
<1>2. \A e \in Nat : e <= n => /\ e \in With(s) <=> e \in With(r)
                               /\ e \in Announced(s) <=> e \in Announced(r)
  BY DEF Announced
<1>3. \A t : BodyFirst(t, n) <=> \E b \in With(t) : b <= n /\ \A d \in Announced(t) : ~(d < b)
  BY DEF BodyFirst
<1> HIDE DEF With
<1>4. \A b, d \in Nat : b <= n /\ d < b => d <= n OBVIOUS
<1> QED BY <1>1, <1>2, <1>3, <1>4

\* What the screen's invariant needs to know of a connection.
LEMMA Heard ==
  ASSUME NEW r \in Seq(Byte), NEW n, NEW x, NEW ih \in BOOLEAN, NEW hd \in BOOLEAN, NEW bh,
         NEW h, NEW sn, MetaState(r, n, x, ih, hd, bh, h, sn),
         NEW im, NEW ma, Place(r, n, im, ma), Comes(r)
  PROVE  /\ h => hd
         /\ Top(sn)
         /\ HasNoLine(sn) \/ (~h /\ BodyFirst(r, n))
         /\ BodyFirst(r, n) => hd \/ (ih /\ bh)
<1>1. r \in Seq(Byte) /\ Reads(r, n, x) /\ Remembers(r, n, ih, hd, bh, h)
  BY DEF MetaState
<1>2. h => hd BY <1>1 DEF Remembers, Marks
<1>3. CASE r = <<>>
  <2>1. \A m : Places(r, m) = {} BY <1>3 DEF Places
  <2>2. \A words : Ends(r, words) = {} BY <2>1 DEF Ends
  <2>3. ~BodyFirst(r, n) BY <2>2 DEF BodyFirst
  <2>4. n = 0
    <3>1. n \in 0..0 BY <1>1, <1>3 DEF Reads
    <3> QED BY <3>1
  <2>5. First(r, n) = <<>>
    <3>1. First(<<>>, 0) = <<>>
      <4>1. 0 < 1 OBVIOUS
      <4> QED BY <4>1, SubSeqEmpty DEF First
    <3> QED BY <1>3, <2>4, <3>1
  <2>6. sn = <<>> BY <2>5, PickEmpty DEF MetaState
  <2>7. Top(sn) /\ HasNoLine(sn)
    <3>1. 1..Len(<<>>) = {} OBVIOUS
    <3> QED BY <2>6, <3>1 DEF Top, HasNoLine
  <2> QED BY <1>2, <2>3, <2>7
<1>4. CASE r # <<>>
  <2>1. PICK u \in Seq(Byte), a \in BOOLEAN : r \o u \in Streams[a] BY <1>4 DEF Comes
  <2>0. /\ n \in Nat /\ n <= Len(r) /\ n \in 0..Len(r \o u) /\ Known(r, n)
        /\ Remembers(r \o u, n, ih, hd, bh, h)
        /\ IsText(sn, r \o u, n, h)
        /\ \A words : \A e \in Nat : e <= n => (e \in Ends(r \o u, words) <=> e \in Ends(r, words))
    <3>1. MetaState(r, n, x, ih, hd, bh, h, sn) /\ Place(r, n, im, ma)
          /\ r \in Seq(Byte) /\ ih \in BOOLEAN /\ hd \in BOOLEAN /\ u \in Seq(Byte)
      OBVIOUS
    <3> QED BY ONLY <3>1, InStream
  <2> DEFINE s == r \o u
  <2>2. /\ n \in Nat /\ n \in 0..Len(s) /\ Remembers(s, n, ih, hd, bh, h)
        /\ \A words : \A e \in Nat : e <= n => (e \in Ends(s, words) <=> e \in Ends(r, words))
    BY <2>0
  <2>3. sn = Pick(First(s, n), Visible(s, h)) BY <2>0 DEF IsText
  <2>4. Stream(s) /\ s \in Seq(Byte)
    <3>1. s \in Seq(Byte) BY <1>1, JoinLength
    <3> QED BY <2>1, <3>1 DEF Stream
  <2> HIDE DEF s
  <2>5. BodyFirst(s, n) <=> BodyFirst(r, n) BY <1>1, <2>2, <2>4, BodyFirstKnown
  <2>6. Top(sn) BY <2>2, <2>3, <2>4, TopText
  <2>7. HasNoLine(sn) \/ (~h /\ BodyFirst(s, n)) BY <2>2, <2>3, <2>4, LineInText
  <2>8. BodyFirst(s, n) => hd \/ (ih /\ bh)
    <3>1. SUFFICES ASSUME BodyFirst(s, n) PROVE hd \/ (ih /\ bh) OBVIOUS
    <3>2. PICK b \in Ends(s, {<<WithHistory>>}) : b <= n BY <3>1 DEF BodyFirst
    <3>3. b \in Announced(s) BY <3>2 DEF Announced, Ends
    <3> QED BY <2>2, <2>4, <3>2, <3>3, Begun
  <2> QED BY <1>2, <2>5, <2>6, <2>7, <2>8
<1> QED BY <1>3, <1>4

\* How much of r the filter has handled.
Handled(r, c, x) == Len(r) - Len(c \o x)

LEMMA GoodAt ==
  ASSUME NEW r, NEW c, NEW x, NEW im, NEW ma, NEW ih, NEW hd, NEW bh, NEW h, NEW sn,
         Good(r, c, x, im, ma, ih, hd, bh, h, sn)
  PROVE  /\ MetaState(r, Handled(r, c, x), c \o x, ih, hd, bh, h, sn)
         /\ Place(r, Handled(r, c, x), im, ma)
         /\ r \in Seq(Byte) /\ Handled(r, c, x) \in Nat
<1>1. PICK n : MetaState(r, n, c \o x, ih, hd, bh, h, sn) /\ Place(r, n, im, ma)
  BY DEF Good
<1>2. r \in Seq(Byte) /\ Reads(r, n, c \o x) BY <1>1 DEF MetaState
<1>3. n \in Nat /\ Len(c \o x) \in Nat /\ Len(r) = n + Len(c \o x)
  <2> DEFINE y == c \o x
  <2>1. Reads(r, n, y) BY <1>2
  <2> HIDE DEF y
  <2>2. n \in Nat /\ Len(y) \in Nat /\ Len(r) = n + Len(y)
    BY ONLY <1>2, <2>1, MarkerAhead, ControlLengths, WireAssumption
  <2> QED BY <2>2 DEF y
<1>4. Handled(r, c, x) = n BY <1>3 DEF Handled
<1> QED BY <1>1, <1>2, <1>3, <1>4

LEMMA HandledIs ==
  ASSUME NEW r, NEW n, NEW x, NEW ih, NEW hd, NEW bh, NEW h, NEW sn,
         MetaState(r, n, x, ih, hd, bh, h, sn)
  PROVE  Handled(r, <<>>, x) = n /\ Handled(r, x, <<>>) = n
<1>1. r \in Seq(Byte) /\ Reads(r, n, x) BY DEF MetaState
<1>2. n \in Nat /\ x \in Seq(Byte) /\ Len(x) \in Nat /\ Len(r) = n + Len(x)
  BY ONLY <1>1, MarkerAhead, ControlLengths
<1>3. <<>> \o x = x /\ x \o <<>> = x BY <1>2, JoinEmpty
<1> QED BY <1>2, <1>3 DEF Handled

\* What a turn means for the first announcement.
LEMMA SameBody ==
  ASSUME NEW r, NEW n, NEW m, Same(r, n, m), BodyFirst(r, m)
  PROVE  BodyFirst(r, n)
BY DEF Same, BodyFirst

LEMMA OneMoreBody ==
  ASSUME NEW r \in Seq(Byte), NEW n \in Nat, NEW m \in Nat, NEW w, OneMore(r, n, m, w),
         BodyFirst(r, m)
  PROVE  BodyFirst(r, n) \/ (w = <<WithHistory>> /\ \A d \in Announced(r) : ~(d <= n))
<1>1. /\ n < m
      /\ \A words : m \in Ends(r, words) <=> w \in words
      /\ \A words : \A e \in Ends(r, words) : e <= m => e <= n \/ e = m
  BY DEF OneMore
<1>2. PICK b \in Ends(r, {<<WithHistory>>}) : b <= m /\ \A d \in Announced(r) : ~(d < b)
  BY DEF BodyFirst
<1>3. CASE b <= n BY <1>2, <1>3 DEF BodyFirst
<1>4. CASE b = m
  <2>1. w \in {<<WithHistory>>} BY <1>1, <1>2, <1>4
  <2>2. \A d \in Announced(r) : d \in Nat BY EndsNat DEF Announced
  <2>3. \A d \in Announced(r) : ~(d <= n) BY <1>1, <1>2, <1>4, <2>2
  <2> QED BY <2>1, <2>3
<1> QED BY <1>1, <1>2, <1>3, <1>4

\* As long as none is announced, none is there.
LEMMA NoneBegun ==
  ASSUME NEW s, NEW n, NEW ih, NEW hd \in BOOLEAN, NEW bh, NEW h, Remembers(s, n, ih, hd, bh, h),
         \A d \in Announced(s) : ~(d <= n), ~h
  PROVE  ~hd /\ ~(ih /\ bh)
<1> DEFINE A == Till(Announced(s), n)
           W == Till(Without(s), n)
           F == Till(Finished(s), n)
<1>1. /\ ih <=> \E b \in A \cup W : \A e \in F : ~(b < e)
      /\ hd <=> (h \/ \E b \in A, e \in F : b < e /\ \A w \in W : ~(b < w /\ w < e))
      /\ (A \cup W # {}) => (bh <=> \E b \in A : \A w \in W : ~(b < w))
  BY DEF Remembers, Marks
<1>2. A = {} BY DEF Till
<1> HIDE DEF A, W, F
<1> QED BY <1>1, <1>2

\* Up to n the same control sequences end in s and in r.
Agree(s, r, n) == \A words : \A e \in Nat : e <= n => (e \in Ends(s, words) <=> e \in Ends(r, words))

\* Nothing is announced or left out inside a history.
LEMMA Apart ==
  ASSUME NEW r, NEW s, Stream(s), NEW n \in Nat, NEW m \in Nat, NEW w, OneMore(r, n, m, w),
         Agree(s, r, m),
         NEW ih, NEW hd, NEW bh, NEW h, Remembers(s, n, ih, hd, bh, h),
         announces(w) \/ w = <<NoHistory>>
  PROVE  ~ih
<1>1. /\ n < m
      /\ \A words : m \in Ends(r, words) <=> w \in words
      /\ \A words : \A e \in Ends(r, words) : e <= m => e <= n \/ e = m
  BY DEF OneMore
<1>2. \A words : \A e \in Ends(s, words) : e \in Nat BY EndsNat DEF Stream
<1>3. \A words : \A e \in Ends(s, words) : e <= m => e <= n \/ e = m BY <1>1, <1>2 DEF Agree
<1>4. m <= m OBVIOUS
<1>5. m \in Announced(s) \cup Without(s)
  <2>1. \A words : m \in Ends(s, words) <=> w \in words BY <1>1, <1>4 DEF Agree
  <2>2. CASE announces(w) BY <2>1, <2>2 DEF announces, Announced
  <2>3. CASE w = <<NoHistory>> BY <2>1, <2>3 DEF Without
  <2> QED BY <2>2, <2>3
<1> QED BY ONLY <1>1, <1>3, <1>5, Stream(s), Remembers(s, n, ih, hd, bh, h), NotInHistory, n \in Nat, m \in Nat

-----------------------------------------------------------------------------
(* The steps of the line *)

LineTypes ==
  /\ line \in {"closed", "connecting", "open"} /\ conns \in 0..MaxConns
  /\ nohist \in BOOLEAN /\ todo \in Seq(Byte) /\ received \in Seq(Byte)

MetaTypes ==
  /\ mcarry \in Seq(Byte) /\ macc \in Seq(Byte) /\ mrest \in Seq(Byte)
  /\ mrest # <<>> => mcarry = <<>>
  /\ inMeta \in BOOLEAN /\ inHist \in BOOLEAN /\ histDone \in BOOLEAN
  /\ blockHasHist \in BOOLEAN /\ histGot \in BOOLEAN

ScreenTypes ==
  /\ painted \in BOOLEAN /\ over \in Seq(Byte) /\ past \in Seq(Byte)
  /\ had \in BOOLEAN /\ torn \in BOOLEAN

WireTypes == LineTypes /\ MetaTypes /\ ScreenTypes

\* What the terminal queues is a part of what it was given.
QueueTypes == pending \in 0..Len(Written) /\ queued \subseteq 1..pending

\* What a step of the line does to the frame filter: a new one, nothing, a
\* call, or a turn of the call; the screen then begins at its output's
\* beginning, or where it did, or after what there is of it.
FilterMove ==
  \/ makeSyncFilter /\ from' = 0
  \/ UNCHANGED syncVars /\ from' \in {from, Len(out)}
  \/ from' = from /\ \E b \in Seq(Byte) : feed(b)
  \/ from' = from /\ SyncStep

\* Where the META filter cuts its data.
LEMMA MarkerCut ==
  ASSUME NEW s \in Seq(Byte), NEW m, Marker(m), indexOf(s, m) > 0
  PROVE  /\ First(s, indexOf(s, m) - 1) \in Seq(Byte)
         /\ From(s, indexOf(s, m) + Len(m)) \in Seq(Byte)
<1> DEFINE i == indexOf(s, m)
<1>1. i \in 0..Len(s) /\ i > 0 /\ i + Len(m) <= Len(s) + 1
      /\ Len(m) \in Nat /\ Len(m) > 0 /\ Len(s) \in Nat
  <2>1. Len(m) \in Nat /\ Len(m) > 0 BY DEF Marker
  <2>2. Len(s) \in Nat BY Elements
  <2> QED BY <2>1, <2>2, IndexFits
<1> HIDE DEF i
<1>2. i - 1 \in 0..Len(s) /\ i + Len(m) - 1 \in 0..Len(s)
      /\ (i + Len(m) - 1) + 1 = i + Len(m)
  BY <1>1
<1>3. First(s, i - 1) \in Seq(Byte) BY <1>2, CutInTwo
<1>4. From(s, (i + Len(m) - 1) + 1) \in Seq(Byte) BY <1>2, CutInTwo
<1> QED BY <1>2, <1>3, <1>4 DEF i

LEMMA TailCut ==
  ASSUME NEW s \in Seq(Byte), NEW m, Marker(m)
  PROVE  /\ First(s, Len(s) - tailPrefix(s, m)) \in Seq(Byte)
         /\ From(s, Len(s) - tailPrefix(s, m) + 1) \in Seq(Byte)
<1> DEFINE cut == Len(s) - tailPrefix(s, m)
<1>1. cut \in 0..Len(s) BY TailFits, Elements
<1> HIDE DEF cut
<1>2. First(s, cut) \in Seq(Byte) /\ From(s, cut + 1) \in Seq(Byte) BY <1>1, CutInTwo
<1> QED BY <1>2 DEF cut

LEMMA PassMoves ==
  ASSUME NEW b \in Seq(Byte), pass(b), from' = from
  PROVE  FilterMove
<1>1. CASE feed(b) BY <1>1 DEF FilterMove
<1>2. CASE UNCHANGED syncVars BY <1>2 DEF FilterMove
<1> QED BY <1>1, <1>2 DEF pass

\* What the terminal was given, and what of it waits.
LEMMA WrittenIs ==
  ASSUME WireTypes, out \in Seq(Byte), from \in 0..Len(out)
  PROVE  /\ Renewed \in Seq(Byte) /\ Written \in Seq(Byte)
         /\ Len(Renewed) = Len(past) + (Len(out) - from)
         /\ Len(Written) = Len(over) + Len(Renewed)
<1>1. over \in Seq(Byte) /\ past \in Seq(Byte) BY DEF WireTypes, ScreenTypes
<1>2. From(out, from + 1) \in Seq(Byte) /\ Len(From(out, from + 1)) = Len(out) - from
  BY CutInTwo, FromIs
<1>3. Renewed \in Seq(Byte) /\ Len(Renewed) = Len(past) + (Len(out) - from)
  BY <1>1, <1>2, JoinLength DEF Renewed
<1> QED BY <1>1, <1>3, JoinLength DEF Written

LEMMA UnparsedIs ==
  ASSUME WireTypes, out \in Seq(Byte), from \in 0..Len(out), QueueTypes
  PROVE  Unparsed \in Seq(Byte) /\ Len(Unparsed) = pending
<1>1. Written \in Seq(Byte) /\ Len(Written) \in Nat BY WrittenIs, Elements
<1>2. Len(Written) - pending \in 0..Len(Written) /\ pending \in Nat BY <1>1 DEF QueueTypes
<1>3. /\ From(Written, (Len(Written) - pending) + 1) \in Seq(Byte)
      /\ Len(From(Written, (Len(Written) - pending) + 1)) = Len(Written) - (Len(Written) - pending)
  BY <1>1, <1>2, CutInTwo, FromIs
<1> QED BY <1>1, <1>2, <1>3 DEF Unparsed

LEMMA NextMoves ==
  ASSUME WireTypes, out \in Seq(Byte), from \in 0..Len(out), QueueTypes, [Next]_vars
  PROVE  WireTypes' /\ FilterMove
<1>0. /\ LineTypes /\ MetaTypes /\ ScreenTypes
      /\ todo \in Seq(Byte) /\ mrest \in Seq(Byte) /\ mcarry \in Seq(Byte)
      /\ received \in Seq(Byte) /\ macc \in Seq(Byte) /\ past \in Seq(Byte)
      /\ over \in Seq(Byte) /\ Marker(OSC) /\ Marker(ST) /\ <<>> \in Seq(Byte)
  BY WireAssumption, EmptySeq DEF WireTypes, LineTypes, MetaTypes, ScreenTypes
<1>a. UNCHANGED conn => LineTypes' BY <1>0 DEF conn, LineTypes
<1>b. UNCHANGED <<painted, over, past, ghost>> => ScreenTypes' BY <1>0 DEF ghost, ScreenTypes
<1>c. UNCHANGED <<meta, mrest, histGot>> => MetaTypes' BY <1>0 DEF meta, MetaTypes
<1>1. CASE connect
  <2>1. /\ line' = "connecting" /\ conns < MaxConns /\ conns' = conns + 1
        /\ past' = Renewed /\ from' = 0 /\ makeSyncFilter /\ reset
        /\ received' = <<>> /\ had' = histDone
        /\ UNCHANGED <<nohist, todo, mrest, histGot, painted, over, torn>>
    BY <1>1 DEF connect
  <2>2. LineTypes' BY <1>0, <2>1, WireAssumption DEF LineTypes
  <2>3. MetaTypes' BY <1>0, <2>1 DEF MetaTypes, reset
  <2>4. Renewed \in Seq(Byte) BY WrittenIs
  <2>5. ScreenTypes' BY <1>0, <2>1, <2>4 DEF ScreenTypes, MetaTypes
  <2> QED BY <2>1, <2>2, <2>3, <2>5 DEF WireTypes, FilterMove
<1>2. CASE onopen
  <2>1. /\ line' = "open" /\ nohist' = histGot /\ todo' \in Streams[histGot]
        /\ UNCHANGED <<syncVars, conns, received, meta, mrest, histGot, screen, ghost>>
    BY <1>2 DEF onopen
  <2>2. histGot \in BOOLEAN BY <1>0 DEF MetaTypes
  <2>3. todo' \in Seq(Byte)
    <3>1. Streams[histGot] \in SUBSET Seq(Byte) BY <2>2, WireAssumption
    <3> QED BY <3>1, <2>1
  <2>4. LineTypes' BY <1>0, <2>1, <2>2, <2>3 DEF LineTypes
  <2> QED BY <1>b, <1>c, <2>1, <2>4 DEF WireTypes, FilterMove, screen
<1>3. CASE onclose
  <2>1. /\ line' = "closed" /\ todo' = <<>>
        /\ torn' = (torn \/ (inHist /\ blockHasHist /\ ~histDone))
        /\ UNCHANGED <<syncVars, conns, nohist, received, meta, mrest, histGot, screen, had>>
    BY <1>3 DEF onclose
  <2>2. LineTypes' BY <1>0, <2>1 DEF LineTypes
  <2>3. torn' \in BOOLEAN BY <2>1
  <2>4. ScreenTypes' BY <1>0, <2>1, <2>3 DEF ScreenTypes, screen
  <2> QED BY <1>c, <2>1, <2>2, <2>4 DEF WireTypes, FilterMove, screen
<1>4. ASSUME NEW n \in 1..Len(todo), onmessage(n) PROVE WireTypes' /\ FilterMove
  <2>1. /\ mrest' = mcarry \o First(todo, n) /\ mcarry' = <<>>
        /\ received' = received \o First(todo, n) /\ todo' = From(todo, n + 1)
        /\ UNCHANGED <<syncVars, line, conns, nohist, inMeta, macc, inHist, histDone,
                       blockHasHist, histGot, screen, ghost>>
    BY <1>4 DEF onmessage
  <2>2. n \in 0..Len(todo) BY <1>0
  <2>3. First(todo, n) \in Seq(Byte) /\ From(todo, n + 1) \in Seq(Byte)
    BY <1>0, <2>2, CutInTwo
  <2>4. mrest' \in Seq(Byte) /\ received' \in Seq(Byte) BY <1>0, <2>1, <2>3, JoinLength
  <2>5. LineTypes' BY <1>0, <2>1, <2>3, <2>4 DEF LineTypes
  <2>6. MetaTypes' BY <1>0, <2>1, <2>4 DEF MetaTypes
  <2> QED BY <1>b, <2>1, <2>5, <2>6 DEF WireTypes, FilterMove, screen
<1>5. CASE MetaBegins
  <2> DEFINE i == indexOf(mrest, OSC)
  <2>1. /\ i > 0 /\ pass(First(mrest, i - 1)) /\ inMeta' = TRUE /\ macc' = <<>>
        /\ mrest # <<>>
        /\ mrest' = From(mrest, i + Len(OSC))
        /\ UNCHANGED <<conn, mcarry, inHist, histDone, blockHasHist, histGot, screen, ghost>>
    BY <1>5 DEF MetaBegins, turn
  <2>2. First(mrest, i - 1) \in Seq(Byte) /\ From(mrest, i + Len(OSC)) \in Seq(Byte)
    BY <1>0, <2>1, MarkerCut
  <2> HIDE DEF i
  <2>3. MetaTypes' BY <1>0, <2>1, <2>2 DEF MetaTypes
  <2>4. FilterMove BY <2>1, <2>2, PassMoves DEF screen
  <2> QED BY <1>a, <1>b, <2>1, <2>3, <2>4 DEF WireTypes, screen
<1>6. CASE OnlyText
  <2> DEFINE cut == Len(mrest) - tailPrefix(mrest, OSC)
  <2>1. /\ pass(First(mrest, cut)) /\ mcarry' = From(mrest, cut + 1) /\ mrest' = <<>>
        /\ UNCHANGED <<conn, inMeta, macc, inHist, histDone, blockHasHist, histGot, screen, ghost>>
    BY <1>6 DEF OnlyText
  <2>2. First(mrest, cut) \in Seq(Byte) /\ From(mrest, cut + 1) \in Seq(Byte)
    BY <1>0, TailCut
  <2> HIDE DEF cut
  <2>3. MetaTypes' BY <1>0, <2>1, <2>2 DEF MetaTypes
  <2>4. FilterMove BY <2>1, <2>2, PassMoves DEF screen
  <2> QED BY <1>a, <1>b, <2>1, <2>3, <2>4 DEF WireTypes, screen
<1>7. CASE MetaEnds
  <2> DEFINE j == indexOf(mrest, ST)
             payload == macc \o First(mrest, j - 1)
             begins == announces(payload) \/ payload = <<NoHistory>>
             ends == payload = <<HistEnd>>
  <2>1. /\ j > 0 /\ macc' = payload /\ inMeta' = FALSE /\ mrest' = From(mrest, j + Len(ST))
        /\ inHist' = ((inHist \/ begins) /\ ~ends)
        /\ blockHasHist' = IF begins THEN announces(payload) ELSE blockHasHist
        /\ histDone' = (histDone \/ (ends /\ blockHasHist))
        /\ onMeta(payload) /\ mrest # <<>>
        /\ UNCHANGED <<syncVars, conn, mcarry, painted, ghost>>
    BY <1>7 DEF MetaEnds, turn
  <2>2. First(mrest, j - 1) \in Seq(Byte) /\ From(mrest, j + Len(ST)) \in Seq(Byte)
    BY <1>0, <2>1, MarkerCut
  <2> HIDE DEF j
  <2>3. payload \in Seq(Byte) BY <1>0, <2>2, JoinLength
  <2> HIDE DEF payload, begins, ends
  <2>4. announces(payload) \in BOOLEAN BY DEF announces
  <2>5. blockHasHist' \in BOOLEAN BY <1>0, <2>1, <2>4 DEF MetaTypes
  <2>6. inHist' \in BOOLEAN /\ histDone' \in BOOLEAN /\ inMeta' \in BOOLEAN BY <2>1
  <2>7. /\ histGot' \in BOOLEAN /\ past' \in Seq(Byte) /\ from' \in {from, Len(out)}
        /\ over' \in Seq(Byte)
    BY <1>0, <2>1, UnparsedIs DEF onMeta, MetaTypes
  <2>8. MetaTypes' BY <1>0, <2>1, <2>2, <2>3, <2>5, <2>6, <2>7 DEF MetaTypes
  <2>9. ScreenTypes' BY <1>0, <2>1, <2>7 DEF ScreenTypes, ghost
  <2> QED BY <1>a, <2>1, <2>7, <2>8, <2>9 DEF WireTypes, FilterMove
<1>8. CASE MetaGoesOn
  <2> DEFINE cut == Len(mrest) - tailPrefix(mrest, ST)
  <2>1. /\ macc' = macc \o First(mrest, cut) /\ mcarry' = From(mrest, cut + 1) /\ mrest' = <<>>
        /\ UNCHANGED <<syncVars, conn, inMeta, inHist, histDone, blockHasHist, histGot, screen, ghost>>
    BY <1>8 DEF MetaGoesOn
  <2>2. First(mrest, cut) \in Seq(Byte) /\ From(mrest, cut + 1) \in Seq(Byte)
    BY <1>0, TailCut
  <2> HIDE DEF cut
  <2>3. macc' \in Seq(Byte) BY <1>0, <2>1, <2>2, JoinLength
  <2>4. MetaTypes' BY <1>0, <2>1, <2>2, <2>3 DEF MetaTypes
  <2> QED BY <1>a, <1>b, <2>1, <2>4 DEF WireTypes, FilterMove, screen
<1>9. CASE Write
  <2>1. /\ SyncStep /\ painted' = (painted \/ out' # out)
        /\ UNCHANGED <<conn, meta, mrest, histGot, over, past, from, ghost>>
    BY <1>9 DEF Write
  <2>2. painted' \in BOOLEAN BY <2>1
  <2>3. ScreenTypes' BY <1>0, <2>1, <2>2 DEF ScreenTypes, ghost
  <2> QED BY <1>a, <1>c, <2>1, <2>3 DEF WireTypes, FilterMove
<1>10. CASE Parse
  <2>1. UNCHANGED <<syncVars, conn, meta, mrest, histGot, painted, over, past, from, ghost>>
    BY <1>10 DEF Parse
  <2> QED BY <1>a, <1>b, <1>c, <2>1 DEF WireTypes, FilterMove
<1>11. CASE UNCHANGED vars
  <2>1. UNCHANGED <<syncVars, conn, meta, mrest, histGot, screen, ghost>>
    BY <1>11 DEF vars
  <2> QED BY <1>a, <1>b, <1>c, <2>1 DEF WireTypes, FilterMove, screen
<1> QED
  BY <1>1, <1>2, <1>3, <1>4, <1>5, <1>6, <1>7, <1>8, <1>9, <1>10, <1>11 DEF Next

\* What waits stays a part of what was given, whose length is known.
LEMMA JoinThree ==
  ASSUME NEW v \in Seq(Byte), NEW a \in Seq(Byte), NEW u \in Seq(Byte)
  PROVE  Len(v \o (a \o u)) = Len(v) + (Len(a) + Len(u))
<1> DEFINE w == a \o u
<1>1. w \in Seq(Byte) /\ Len(w) = Len(a) + Len(u) BY JoinLength
<1> HIDE DEF w
<1>2. Len(v \o w) = Len(v) + Len(w) BY <1>1, JoinLength
<1> QED BY <1>1, <1>2 DEF w

LEMMA GivenLength ==
  ASSUME NEW v \in Seq(Byte), NEW a \in Seq(Byte), NEW o \in Seq(Byte), NEW f \in 0..Len(o)
  PROVE  Len(v \o (a \o From(o, f + 1))) = Len(v) + (Len(a) + (Len(o) - f))
<1> DEFINE u == From(o, f + 1)
<1>1. u \in Seq(Byte) /\ Len(u) = Len(o) - f
  BY CutInTwo, FromIs
<1> HIDE DEF u
<1>2. Len(v \o (a \o u)) = Len(v) + (Len(a) + Len(u)) BY <1>1, JoinThree
<1> QED BY <1>1, <1>2 DEF u

LEMMA PassWritesNothing ==
  ASSUME NEW b, pass(b)
  PROVE  out' = out
BY DEF pass, feed, syncVars

LEMMA NextQueue ==
  ASSUME SyncInv, WireTypes, from \in 0..Len(out), QueueTypes, [Next]_vars,
         WireTypes', out' \in Seq(Byte), from' \in 0..Len(out')
  PROVE  QueueTypes'
<1>1. /\ over \in Seq(Byte) /\ past \in Seq(Byte) /\ out \in Seq(Byte)
      /\ over' \in Seq(Byte) /\ past' \in Seq(Byte)
  BY DEF WireTypes, ScreenTypes, SyncInv, SyncSeqs
<1>2. /\ Len(over) \in Nat /\ Len(past) \in Nat /\ Len(out) \in Nat
      /\ Len(over') \in Nat /\ Len(past') \in Nat /\ Len(out') \in Nat
  BY <1>1, Elements
<1>3. Len(Written) = Len(over) + (Len(past) + (Len(out) - from))
  BY <1>1, GivenLength DEF Written, Renewed
<1>4. Len(Written') = Len(over') + (Len(past') + (Len(out') - from'))
  <2>1. ASSUME NEW v \in Seq(Byte), NEW a \in Seq(Byte), NEW o \in Seq(Byte), NEW f \in 0..Len(o),
               Written' = v \o (a \o From(o, f + 1))
        PROVE  Len(Written') = Len(v) + (Len(a) + (Len(o) - f))
    BY ONLY <2>1, GivenLength
  <2>2. Written' = over' \o (past' \o From(out', from' + 1)) BY DEF Written, Renewed
  <2>3. from' \in 0..Len(out') /\ out' \in Seq(Byte) OBVIOUS
  <2> QED BY ONLY <1>1, <2>1, <2>2, <2>3
<1>5. /\ pending \in Nat /\ pending <= Len(Written)
      /\ \A k \in queued : k \in Nat /\ k > 0 /\ k <= pending
  BY <1>2, <1>3 DEF QueueTypes
<1>6. ASSUME UNCHANGED <<over, past, from, out, pending, queued>> PROVE QueueTypes'
  <2>1. Written' = Written BY <1>6 DEF Written, Renewed
  <2> QED BY <1>6, <2>1 DEF QueueTypes
<1>7. CASE connect
  <2>1. /\ over' = over /\ past' = Renewed /\ from' = 0 /\ out' = <<>>
        /\ UNCHANGED <<pending, queued>>
    BY <1>7 DEF connect, makeSyncFilter
  <2>2. Len(Renewed) = Len(past) + (Len(out) - from) BY <1>1, WrittenIs
  <2>3. Len(Written') = Len(Written) BY <1>2, <1>3, <1>4, <2>1, <2>2
  <2> QED BY <2>1, <2>3 DEF QueueTypes
<1>8. CASE onopen BY <1>6, <1>8 DEF onopen, syncVars, screen
<1>9. CASE onclose BY <1>6, <1>9 DEF onclose, syncVars, screen
<1>10. CASE \E n \in 1..Len(todo) : onmessage(n) BY <1>6, <1>10 DEF onmessage, syncVars, screen
<1>11. CASE MetaBegins
  <2>1. UNCHANGED screen /\ \E b : pass(b) BY <1>11 DEF MetaBegins
  <2> QED BY <1>6, <2>1, PassWritesNothing DEF screen
<1>12. CASE OnlyText
  <2>1. UNCHANGED screen /\ \E b : pass(b) BY <1>12 DEF OnlyText
  <2> QED BY <1>6, <2>1, PassWritesNothing DEF screen
<1>13. CASE MetaEnds
  <2>1. UNCHANGED <<out, pending, queued>> /\ \E w : onMeta(w)
    BY <1>13 DEF MetaEnds, syncVars
  <2>2. \/ UNCHANGED <<over, past, from>>
        \/ over' = Unparsed /\ past' = <<>> /\ from' = Len(out)
    BY <2>1 DEF onMeta
  <2>3. CASE UNCHANGED <<over, past, from>> BY <1>6, <2>1, <2>3
  <2>4. CASE over' = Unparsed /\ past' = <<>> /\ from' = Len(out)
    <3>1. Len(over') = pending BY <1>1, <2>4, UnparsedIs
    <3>2. Len(past') = 0 BY <2>4
    <3>3. Len(Written') = pending BY <1>2, <1>4, <1>5, <2>1, <2>4, <3>1, <3>2
    <3> QED BY <1>5, <2>1, <3>3 DEF QueueTypes
  <2> QED BY <2>2, <2>3, <2>4
<1>14. CASE MetaGoesOn BY <1>6, <1>14 DEF MetaGoesOn, syncVars, screen
<1>15. CASE Write
  <2>1. /\ SyncStep /\ UNCHANGED <<over, past, from>>
        /\ IF out' = out THEN UNCHANGED <<pending, queued>> ELSE write(Len(out') - Len(out))
    BY <1>15 DEF Write
  <2> DEFINE n == Len(out') - Len(out)
  <2>2. Len(out) <= Len(out') /\ (Len(out') = Len(out) => out' = out)
    <3>1. P!Deliver BY <2>1, StepKeeps
    <3>2. Len(out) <= Len(out') /\ SubSeq(out', 1, Len(out)) = out
      BY <3>1 DEF P!Deliver, P!Extends
    <3>3. SubSeq(out', 1, Len(out')) = out' BY <1>2, SubSeqFull
    <3> QED BY <3>2, <3>3
  <2>3. n \in Nat /\ (out' # out => n > 0) /\ Len(Written') = Len(Written) + n
    BY <1>2, <1>3, <1>4, <2>1, <2>2
  <2> HIDE DEF n
  <2>4. CASE UNCHANGED <<pending, queued>>
    BY <1>2, <1>3, <1>5, <2>3, <2>4 DEF QueueTypes
  <2>5. CASE out' # out /\ pending' = pending + n /\ queued' = {k + n : k \in queued} \cup {n}
    <3>1. pending' \in Nat /\ pending' <= Len(Written') BY <1>2, <1>3, <1>5, <2>3, <2>5
    <3>2. \A k \in queued' : k \in 1..pending' BY <1>5, <2>3, <2>5, <3>1
    <3> QED BY <1>4, <1>2, <3>1, <3>2 DEF QueueTypes
  <2> QED BY <2>1, <2>4, <2>5 DEF write, n
<1>16. CASE Parse
  <2>1. /\ pending' \in queued \cup {0} /\ pending' < pending
        /\ queued' = {k \in queued : k <= pending'}
        /\ UNCHANGED <<over, past, from, out>>
    BY <1>16 DEF Parse, syncVars
  <2>2. Written' = Written BY <2>1 DEF Written, Renewed
  <2>3. pending' \in Nat /\ pending' <= Len(Written) BY <1>2, <1>3, <1>5, <2>1
  <2>4. \A k \in queued' : k \in 1..pending' BY <1>5, <2>1, <2>3
  <2> QED BY <1>2, <1>3, <2>2, <2>3, <2>4 DEF QueueTypes
<1>17. CASE UNCHANGED vars BY <1>6, <1>17 DEF vars, syncVars, screen
<1> QED
  BY <1>7, <1>8, <1>9, <1>10, <1>11, <1>12, <1>13, <1>14, <1>15, <1>16, <1>17 DEF Next

-----------------------------------------------------------------------------
(* The text of a connection *)

Origin ==
  /\ Comes(received)
  /\ line = "connecting" => received = <<>>
  /\ line = "open" => received \o todo \in Streams[nohist]

\* The filter has handled what arrived, and passed on what is to be shown.
TextInv == Good(received, mcarry, mrest, inMeta, macc, inHist, histDone, blockHasHist, had, sent)

TextMove == TextInv' /\ Origin'

Done == Handled(received, mcarry, mrest)

\* Text passed on.
LEMMA PassAdds ==
  ASSUME NEW b \in Seq(Byte), sent \in Seq(Byte), pass(b)
  PROVE  sent' = Passed(sent, inHist, histDone, b)
<1>1. CASE inHist /\ histDone BY <1>1 DEF pass, Passed, syncVars
<1>2. CASE ~(inHist /\ histDone) /\ b = <<>>
  <2>1. sent' = sent /\ sent \o b = sent BY <1>2, JoinEmpty DEF pass, syncVars
  <2> QED BY <1>2, <2>1 DEF Passed
<1>3. CASE ~(inHist /\ histDone) /\ b # <<>>
  <2>1. sent' = sent \o b BY <1>3 DEF pass, feed
  <2> QED BY <1>3, <2>1 DEF Passed
<1> QED BY <1>1, <1>2, <1>3

\* Two ways a step leaves the filter and the line as they are.
LEMMA TextStays ==
  ASSUME TextInv, Origin, UNCHANGED <<conn, meta, mrest, sent, had>>
  PROVE  TextMove
<1>1. UNCHANGED <<line, nohist, todo, received, mcarry, inMeta, macc, inHist, histDone,
                  blockHasHist, mrest, sent, had>>
  BY DEF conn, meta
<1> QED BY <1>1 DEF TextMove, TextInv, Origin

LEMMA OriginStays ==
  ASSUME Origin, UNCHANGED conn
  PROVE  Origin'
BY DEF Origin, conn

\* The turns of the loop.
LEMMA MetaBeginsText ==
  ASSUME WireTypes, sent \in Seq(Byte), TextInv, Origin, MetaBegins
  PROVE  TextMove /\ Same(received, Done, Done')
<1>0. /\ todo \in Seq(Byte) /\ mrest \in Seq(Byte) /\ mcarry \in Seq(Byte)
      /\ received \in Seq(Byte) /\ macc \in Seq(Byte) /\ nohist \in BOOLEAN
      /\ inHist \in BOOLEAN /\ histDone \in BOOLEAN /\ blockHasHist \in BOOLEAN
      /\ histGot \in BOOLEAN /\ had \in BOOLEAN /\ <<>> \in Seq(Byte)
      /\ Marker(OSC) /\ Marker(ST)
  BY WireAssumption, EmptySeq DEF WireTypes, LineTypes, MetaTypes, ScreenTypes
<1> DEFINE i == indexOf(mrest, OSC)
<1>1. /\ mrest # <<>> /\ ~inMeta /\ i > 0 /\ pass(First(mrest, i - 1)) /\ inMeta' = TRUE
      /\ macc' = <<>> /\ mrest' = From(mrest, i + Len(OSC))
      /\ UNCHANGED <<conn, mcarry, inHist, histDone, blockHasHist, had>>
  BY DEF MetaBegins, turn, ghost
<1>2. First(mrest, i - 1) \in Seq(Byte) /\ From(mrest, i + Len(OSC)) \in Seq(Byte)
  BY <1>0, <1>1, MarkerCut
<1>3. mcarry = <<>> /\ \E n : /\ MetaState(received, n, mrest, inHist, histDone, blockHasHist, had, sent)
                              /\ Place(received, n, inMeta, macc)
  BY <1>0, <1>1, GoodTurn DEF TextInv
<1>4. PICK n : /\ MetaState(received, n, mrest, inHist, histDone, blockHasHist, had, sent)
               /\ Closed(received, n)
  BY <1>1, <1>3 DEF Place
<1>5. sent' = Passed(sent, inHist, histDone, First(mrest, i - 1))
  BY <1>1, <1>2, PassAdds
<1>6. PICK m : /\ MetaState(received, m, From(mrest, i + Len(OSC)), inHist, histDone,
                            blockHasHist, had, Passed(sent, inHist, histDone, First(mrest, i - 1)))
               /\ Place(received, m, TRUE, <<>>) /\ Same(received, n, m)
  <2>1. inHist \in BOOLEAN /\ histDone \in BOOLEAN BY <1>0
  <2>2. indexOf(mrest, OSC) > 0 BY <1>1
  <2> QED BY ONLY <1>4, <2>1, <2>2, BeginsTurn
<1> HIDE DEF i
<1>7. Good(received, <<>>, From(mrest, i + Len(OSC)), TRUE, <<>>, inHist, histDone,
           blockHasHist, had, Passed(sent, inHist, histDone, First(mrest, i - 1)))
  BY <1>2, <1>6, GoodAfter
<1>8. TextInv' BY <1>1, <1>3, <1>5, <1>7 DEF TextInv, conn
<1>9. Origin' BY <1>1, OriginStays
<1>a. Handled(received, <<>>, mrest) = n /\ Done = n
  <2>1. Handled(received, <<>>, mrest) = n BY <1>4, HandledIs
  <2> QED BY <2>1, <1>3 DEF Done
<1>b. Done' = m
  <2>1. Handled(received, <<>>, From(mrest, i + Len(OSC))) = m BY <1>6, HandledIs
  <2>2. received' = received BY <1>1 DEF conn
  <2> QED BY <2>1, <2>2, <1>1, <1>3 DEF Done
<1>c. Same(received, Done, Done') BY <1>6, <1>a, <1>b
<1> QED BY <1>8, <1>9, <1>c DEF TextMove

LEMMA OnlyTextText ==
  ASSUME WireTypes, sent \in Seq(Byte), TextInv, Origin, OnlyText
  PROVE  TextMove /\ Same(received, Done, Done')
<1>0. /\ todo \in Seq(Byte) /\ mrest \in Seq(Byte) /\ mcarry \in Seq(Byte)
      /\ received \in Seq(Byte) /\ macc \in Seq(Byte) /\ nohist \in BOOLEAN
      /\ inHist \in BOOLEAN /\ histDone \in BOOLEAN /\ blockHasHist \in BOOLEAN
      /\ histGot \in BOOLEAN /\ had \in BOOLEAN /\ <<>> \in Seq(Byte)
      /\ Marker(OSC) /\ Marker(ST)
  BY WireAssumption, EmptySeq DEF WireTypes, LineTypes, MetaTypes, ScreenTypes
<1> DEFINE cut == Len(mrest) - tailPrefix(mrest, OSC)
<1>1. /\ mrest # <<>> /\ ~inMeta /\ indexOf(mrest, OSC) = 0 /\ pass(First(mrest, cut))
      /\ mcarry' = From(mrest, cut + 1) /\ mrest' = <<>>
      /\ UNCHANGED <<conn, inMeta, macc, inHist, histDone, blockHasHist, had>>
  BY DEF OnlyText, turn, ghost
<1>2. First(mrest, cut) \in Seq(Byte) /\ From(mrest, cut + 1) \in Seq(Byte)
  BY <1>0, TailCut
<1>3. mcarry = <<>> /\ \E n : /\ MetaState(received, n, mrest, inHist, histDone, blockHasHist, had, sent)
                            /\ Place(received, n, inMeta, macc)
  BY <1>0, <1>1, GoodTurn DEF TextInv
<1>4. PICK n : /\ MetaState(received, n, mrest, inHist, histDone, blockHasHist, had, sent)
               /\ Closed(received, n)
  BY <1>1, <1>3 DEF Place
<1>5. cut \in Nat /\ Adds(cut, tailPrefix(mrest, OSC), Len(mrest))
  <2>1. tailPrefix(mrest, OSC) \in 0..Len(mrest) /\ Len(mrest) \in Nat
    BY <1>0, TailFits, Elements
  <2> QED BY <2>1 DEF Adds
<1> HIDE DEF cut
<1>6. sent' = Passed(sent, inHist, histDone, First(mrest, cut)) BY <1>1, <1>2, PassAdds
<1>7. PICK m : /\ MetaState(received, m, From(mrest, cut + 1), inHist, histDone, blockHasHist,
                            had, Passed(sent, inHist, histDone, First(mrest, cut)))
               /\ \A ma : Place(received, m, FALSE, ma)
               /\ Kept(received, m, From(mrest, cut + 1), FALSE) /\ Same(received, n, m)
  <2>1. inHist \in BOOLEAN /\ histDone \in BOOLEAN BY <1>0
  <2>2. indexOf(mrest, OSC) = 0 BY <1>1
  <2> QED BY ONLY <1>4, <1>5, <2>1, <2>2, TextTurn
<1>8. Good(received, From(mrest, cut + 1), <<>>, FALSE, macc, inHist, histDone, blockHasHist,
           had, Passed(sent, inHist, histDone, First(mrest, cut)))
  BY <1>2, <1>7, GoodKept
<1>9. inMeta' = FALSE
  <2>1. inMeta \in BOOLEAN BY DEF WireTypes, MetaTypes
  <2> QED BY <1>1, <2>1
<1>10. TextInv' BY <1>1, <1>6, <1>8, <1>9 DEF TextInv, conn
<1>11. Origin' BY <1>1, OriginStays
<1>a. Handled(received, <<>>, mrest) = n /\ Done = n
  <2>1. Handled(received, <<>>, mrest) = n BY <1>4, HandledIs
  <2> QED BY <2>1, <1>3 DEF Done
<1>b. Done' = m
  <2>1. Handled(received, From(mrest, cut + 1), <<>>) = m BY <1>7, HandledIs
  <2>2. received' = received BY <1>1 DEF conn
  <2> QED BY <2>1, <2>2, <1>1, <1>3 DEF Done
<1>c. Same(received, Done, Done') BY <1>7, <1>a, <1>b
<1> QED BY <1>10, <1>11, <1>c DEF TextMove

LEMMA MetaEndsText ==
  ASSUME WireTypes, sent \in Seq(Byte), TextInv, Origin, MetaEnds
  PROVE  TextMove /\ OneMore(received, Done, Done', macc')
<1>0. /\ todo \in Seq(Byte) /\ mrest \in Seq(Byte) /\ mcarry \in Seq(Byte)
      /\ received \in Seq(Byte) /\ macc \in Seq(Byte) /\ nohist \in BOOLEAN
      /\ inHist \in BOOLEAN /\ histDone \in BOOLEAN /\ blockHasHist \in BOOLEAN
      /\ histGot \in BOOLEAN /\ had \in BOOLEAN /\ <<>> \in Seq(Byte)
      /\ Marker(OSC) /\ Marker(ST)
  BY WireAssumption, EmptySeq DEF WireTypes, LineTypes, MetaTypes, ScreenTypes
<1> DEFINE j == indexOf(mrest, ST)
           payload == macc \o First(mrest, j - 1)
           begins == announces(payload) \/ payload = <<NoHistory>>
           ends == payload = <<HistEnd>>
<1>1. /\ mrest # <<>> /\ inMeta /\ j > 0 /\ inMeta' = FALSE /\ macc' = payload
      /\ mrest' = From(mrest, j + Len(ST))
      /\ inHist' = ((inHist \/ begins) /\ ~ends)
      /\ blockHasHist' = IF begins THEN announces(payload) ELSE blockHasHist
      /\ histDone' = (histDone \/ (ends /\ blockHasHist))
      /\ UNCHANGED <<syncVars, conn, mcarry, had>>
  BY DEF MetaEnds, turn, ghost
<1>2. From(mrest, j + Len(ST)) \in Seq(Byte) BY <1>0, <1>1, MarkerCut
<1>3. MarksAfter(payload, inHist, histDone, blockHasHist, inHist', histDone', blockHasHist')
  <2> HIDE DEF payload
  <2> QED BY <1>1, Zenon DEF MarksAfter
<1>4. mcarry = <<>> /\ \E n : /\ MetaState(received, n, mrest, inHist, histDone, blockHasHist, had, sent)
                              /\ Place(received, n, inMeta, macc)
  BY <1>0, <1>1, GoodTurn DEF TextInv
<1>5. PICK n : /\ MetaState(received, n, mrest, inHist, histDone, blockHasHist, had, sent)
               /\ Collects(received, n, macc)
  <2>1. inMeta = TRUE
    <3>1. inMeta \in BOOLEAN BY DEF WireTypes, MetaTypes
    <3> QED BY <1>1, <3>1
  <2> QED BY <1>4, <2>1 DEF Place
<1>6. PICK u \in Seq(Byte), a \in BOOLEAN : received \o u \in Streams[a]
  <2>1. received # <<>>
    <3>1. Reads(received, n, mrest) BY <1>5 DEF MetaState
    <3>2. Len(received) = n + Len(mrest) /\ n \in Nat /\ Len(mrest) \in Nat
      BY <1>0, <3>1, MarkerAhead, ControlLengths
    <3>3. Len(mrest) # 0 BY <1>0, <1>1, EmptySeq
    <3>4. Len(received) # 0 BY <3>2, <3>3
    <3> QED BY <3>4
  <2> QED BY <2>1 DEF Origin, Comes
<1>7. PICK m : /\ MetaState(received, m, From(mrest, j + Len(ST)), inHist', histDone',
                            blockHasHist', had, sent)
               /\ Closed(received, m) /\ OneMore(received, n, m, payload)
  <2>1. inHist \in BOOLEAN /\ histDone \in BOOLEAN /\ blockHasHist \in BOOLEAN /\ had \in BOOLEAN
    BY <1>0
  <2>2. indexOf(mrest, ST) > 0 BY <1>1
  <2>3. Joins(macc, First(mrest, indexOf(mrest, ST) - 1), payload) BY DEF Joins
  <2> HIDE DEF payload
  <2> QED BY ONLY <1>3, <1>5, <1>6, <2>1, <2>2, <2>3, EndsTurn
<1> HIDE DEF j, payload
<1>8. Good(received, <<>>, From(mrest, j + Len(ST)), FALSE, payload, inHist', histDone',
           blockHasHist', had, sent)
  BY <1>2, <1>7, GoodAfter DEF Place
<1>9. TextInv' BY <1>1, <1>4, <1>8 DEF TextInv, conn, syncVars
<1>10. Origin' BY <1>1, OriginStays
<1>a. Handled(received, <<>>, mrest) = n /\ Done = n
  <2>1. Handled(received, <<>>, mrest) = n BY <1>5, HandledIs
  <2> QED BY <2>1, <1>4 DEF Done
<1>b. Done' = m
  <2>1. Handled(received, <<>>, From(mrest, j + Len(ST))) = m BY <1>7, HandledIs
  <2>2. received' = received BY <1>1 DEF conn
  <2> QED BY <2>1, <2>2, <1>1, <1>4 DEF Done
<1>c. OneMore(received, Done, Done', macc') BY <1>1, <1>7, <1>a, <1>b
<1> QED BY <1>9, <1>10, <1>c DEF TextMove

LEMMA MetaGoesOnText ==
  ASSUME WireTypes, sent \in Seq(Byte), TextInv, Origin, MetaGoesOn
  PROVE  TextMove /\ Same(received, Done, Done')
<1>0. /\ todo \in Seq(Byte) /\ mrest \in Seq(Byte) /\ mcarry \in Seq(Byte)
      /\ received \in Seq(Byte) /\ macc \in Seq(Byte) /\ nohist \in BOOLEAN
      /\ inHist \in BOOLEAN /\ histDone \in BOOLEAN /\ blockHasHist \in BOOLEAN
      /\ histGot \in BOOLEAN /\ had \in BOOLEAN /\ <<>> \in Seq(Byte)
      /\ Marker(OSC) /\ Marker(ST)
  BY WireAssumption, EmptySeq DEF WireTypes, LineTypes, MetaTypes, ScreenTypes
<1> DEFINE cut == Len(mrest) - tailPrefix(mrest, ST)
           joined == macc \o First(mrest, cut)
<1>1. /\ mrest # <<>> /\ inMeta /\ indexOf(mrest, ST) = 0 /\ macc' = joined
      /\ mcarry' = From(mrest, cut + 1) /\ mrest' = <<>>
      /\ UNCHANGED <<syncVars, conn, inMeta, inHist, histDone, blockHasHist, had>>
  BY DEF MetaGoesOn, turn, ghost
<1>2. First(mrest, cut) \in Seq(Byte) /\ From(mrest, cut + 1) \in Seq(Byte)
  BY <1>0, TailCut
<1>3. inMeta = TRUE
  <2>1. inMeta \in BOOLEAN BY DEF WireTypes, MetaTypes
  <2> QED BY <1>1, <2>1
<1>4. mcarry = <<>> /\ \E n : /\ MetaState(received, n, mrest, inHist, histDone, blockHasHist, had, sent)
                            /\ Place(received, n, inMeta, macc)
  BY <1>0, <1>1, GoodTurn DEF TextInv
<1>5. PICK n : /\ MetaState(received, n, mrest, inHist, histDone, blockHasHist, had, sent)
               /\ Collects(received, n, macc)
  BY <1>3, <1>4 DEF Place
<1>6. cut \in Nat /\ Adds(cut, tailPrefix(mrest, ST), Len(mrest))
  <2>1. tailPrefix(mrest, ST) \in 0..Len(mrest) /\ Len(mrest) \in Nat
    BY <1>0, TailFits, Elements
  <2> QED BY <2>1 DEF Adds
<1> HIDE DEF cut
<1>7. PICK m : /\ MetaState(received, m, From(mrest, cut + 1), inHist, histDone, blockHasHist,
                            had, sent)
               /\ Collects(received, m, joined) /\ Len(From(mrest, cut + 1)) < Len(ST)
               /\ Same(received, n, m)
  <2>1. inHist \in BOOLEAN /\ histDone \in BOOLEAN BY <1>0
  <2>2. indexOf(mrest, ST) = 0 BY <1>1
  <2>3. Joins(macc, First(mrest, cut), joined) BY DEF Joins
  <2> HIDE DEF joined
  <2> QED BY ONLY <1>5, <1>6, <2>1, <2>2, <2>3, GoesOnTurn
<1> HIDE DEF joined
<1>8. Good(received, From(mrest, cut + 1), <<>>, TRUE, joined, inHist,
           histDone, blockHasHist, had, sent)
  BY <1>2, <1>7, GoodKept DEF Place, Kept
<1>9. inMeta' = TRUE BY <1>1, <1>3
<1>10. TextInv' BY <1>1, <1>8, <1>9 DEF TextInv, conn, syncVars
<1>11. Origin' BY <1>1, OriginStays
<1>a. Handled(received, <<>>, mrest) = n /\ Done = n
  <2>1. Handled(received, <<>>, mrest) = n BY <1>5, HandledIs
  <2> QED BY <2>1, <1>4 DEF Done
<1>b. Done' = m
  <2>1. Handled(received, From(mrest, cut + 1), <<>>) = m BY <1>7, HandledIs
  <2>2. received' = received BY <1>1 DEF conn
  <2> QED BY <2>1, <2>2, <1>1, <1>4 DEF Done
<1>c. Same(received, Done, Done') BY <1>7, <1>a, <1>b
<1> QED BY <1>10, <1>11, <1>c DEF TextMove

LEMMA NextText ==
  ASSUME WireTypes, sent \in Seq(Byte), TextInv, Origin, [Next]_vars
  PROVE  TextMove
<1>0. /\ todo \in Seq(Byte) /\ mrest \in Seq(Byte) /\ mcarry \in Seq(Byte)
      /\ received \in Seq(Byte) /\ macc \in Seq(Byte) /\ nohist \in BOOLEAN
      /\ inHist \in BOOLEAN /\ histDone \in BOOLEAN /\ blockHasHist \in BOOLEAN
      /\ histGot \in BOOLEAN /\ had \in BOOLEAN /\ <<>> \in Seq(Byte)
      /\ Marker(OSC) /\ Marker(ST)
  BY WireAssumption, EmptySeq DEF WireTypes, LineTypes, MetaTypes, ScreenTypes
<1>1. CASE connect
  <2>1. /\ line' = "connecting" /\ makeSyncFilter /\ reset /\ received' = <<>>
        /\ had' = histDone /\ mrest' = mrest /\ mrest = <<>>
    BY <1>1 DEF connect, quiet
  <2>2. /\ mcarry' = <<>> /\ inMeta' = FALSE /\ macc' = <<>> /\ inHist' = FALSE
        /\ histDone' = histDone /\ blockHasHist' = blockHasHist /\ sent' = <<>>
    BY <2>1 DEF reset, makeSyncFilter
  <2>3. Good(<<>>, <<>>, <<>>, FALSE, <<>>, FALSE, histDone, blockHasHist, histDone, <<>>)
    BY <1>0, GoodStart
  <2>4. TextInv' BY <2>1, <2>2, <2>3 DEF TextInv
  <2>5. Origin' BY <2>1 DEF Origin, Comes
  <2> QED BY <2>4, <2>5 DEF TextMove
<1>2. CASE onopen
  <2>1. /\ line = "connecting" /\ line' = "open" /\ nohist' = histGot
        /\ todo' \in Streams[histGot]
        /\ UNCHANGED <<syncVars, received, meta, mrest, had>>
    BY <1>2 DEF onopen, ghost
  <2>2. received = <<>> BY <2>1 DEF Origin
  <2>3. todo' \in Seq(Byte)
    <3>1. Streams[histGot] \in SUBSET Seq(Byte) BY <1>0, WireAssumption
    <3> QED BY <3>1, <2>1
  <2>4. received \o todo' = todo' BY <2>2, <2>3, JoinEmpty
  <2>5. Origin' BY <2>1, <2>2, <2>4 DEF Origin, Comes
  <2>6. TextInv' BY <2>1 DEF TextInv, meta, syncVars
  <2> QED BY <2>5, <2>6 DEF TextMove
<1>3. CASE onclose
  <2>1. line' = "closed" /\ UNCHANGED <<syncVars, received, meta, mrest, had>>
    BY <1>3 DEF onclose
  <2>2. Origin' BY <2>1 DEF Origin
  <2>3. TextInv' BY <2>1 DEF TextInv, meta, syncVars
  <2> QED BY <2>2, <2>3 DEF TextMove
<1>4. ASSUME NEW k \in 1..Len(todo), onmessage(k) PROVE TextMove
  <2> DEFINE b == First(todo, k)
             d == From(todo, k + 1)
  <2>1. /\ line = "open" /\ mrest = <<>> /\ mrest' = mcarry \o b /\ mcarry' = <<>>
        /\ received' = received \o b /\ todo' = d
        /\ UNCHANGED <<syncVars, line, nohist, inMeta, macc, inHist, histDone, blockHasHist, had>>
    BY <1>4 DEF onmessage, quiet, ghost
  <2>2. b \in Seq(Byte) /\ d \in Seq(Byte) /\ b \o d = todo
    <3>1. k \in 0..Len(todo) BY <1>0
    <3> QED BY <1>0, <3>1, CutInTwo
  <2>a. b \in Seq(Byte) /\ d \in Seq(Byte) BY <2>2
  <2> HIDE DEF b, d
  <2>3. received' \o todo' = received \o todo
    <3>1. (received \o b) \o d = received \o (b \o d)
      <4>1. received \in Seq(Byte) BY <1>0
      <4> QED BY ONLY <4>1, <2>a, JoinAssociative
    <3> QED BY <2>1, <2>2, <3>1
  <2>4. received \o todo \in Streams[nohist] BY <2>1 DEF Origin
  <2>5. Origin'
    <3>1. received' \o todo' \in Streams[nohist'] /\ todo' \in Seq(Byte) /\ nohist' \in BOOLEAN
      BY <1>0, <2>1, <2>2, <2>3, <2>4
    <3>2. line' = "open" BY <2>1
    <3> QED BY <3>1, <3>2 DEF Origin, Comes
  <2>6. PICK n : /\ MetaState(received, n, mcarry, inHist, histDone, blockHasHist, had, sent)
                 /\ Place(received, n, inMeta, macc)
    <3>1. mcarry \o <<>> = mcarry BY <1>0, JoinEmpty
    <3> QED BY <2>1, <3>1 DEF TextInv, Good
  <2>7. /\ MetaState(received \o b, n, mcarry \o b, inHist, histDone, blockHasHist, had, sent)
        /\ Place(received \o b, n, inMeta, macc)
    <3>1. inHist \in BOOLEAN /\ histDone \in BOOLEAN BY <1>0
    <3> QED BY ONLY <2>a, <2>6, <3>1, MessageTurn
  <2>8. mcarry \o b \in Seq(Byte) BY <1>0, <2>2, JoinLength
  <2>9. Good(received \o b, <<>>, mcarry \o b, inMeta, macc, inHist, histDone, blockHasHist,
             had, sent)
    BY <2>7, <2>8, GoodAfter
  <2>10. TextInv' BY <2>1, <2>9 DEF TextInv, syncVars
  <2> QED BY <2>5, <2>10 DEF TextMove
<1>5. CASE MetaBegins BY <1>5, MetaBeginsText
<1>6. CASE OnlyText BY <1>6, OnlyTextText
<1>7. CASE MetaEnds BY <1>7, MetaEndsText
<1>8. CASE MetaGoesOn BY <1>8, MetaGoesOnText
<1>9. CASE Write
  <2>1. SyncStep /\ UNCHANGED <<conn, meta, mrest, had>> BY <1>9 DEF Write, ghost
  <2>2. sent' = sent BY <2>1 DEF SyncStep, OpenFrame, PassText, CloseFrame, HoldFrame
  <2> QED BY <2>1, <2>2, TextStays
<1>10. CASE Parse
  <2>1. UNCHANGED <<conn, meta, mrest, sent, had>> BY <1>10 DEF Parse, syncVars, ghost
  <2> QED BY <2>1, TextStays
<1>11. CASE UNCHANGED vars
  <2>1. UNCHANGED <<conn, meta, mrest, sent, had>> BY <1>11 DEF vars, syncVars, ghost
  <2> QED BY <2>1, TextStays
<1> QED
  BY <1>1, <1>2, <1>3, <1>4, <1>5, <1>6, <1>7, <1>8, <1>9, <1>10, <1>11 DEF Next

LEMMA InitText == Init => TextInv /\ Origin
<1> SUFFICES ASSUME Init PROVE TextInv /\ Origin OBVIOUS
<1>1. /\ sent = <<>> /\ line = "closed" /\ received = <<>> /\ mcarry = <<>>
      /\ inMeta = FALSE /\ macc = <<>> /\ mrest = <<>> /\ inHist = FALSE
      /\ histDone = FALSE /\ blockHasHist = FALSE /\ had = FALSE
  BY DEF Init, SyncInit
<1>2. Good(<<>>, <<>>, <<>>, FALSE, <<>>, FALSE, FALSE, FALSE, FALSE, <<>>) BY GoodStart
<1>3. TextInv BY <1>1, <1>2 DEF TextInv
<1> QED BY <1>1, <1>3 DEF Origin, Comes

LEMMA TextInvImplies == WireTypes /\ TextInv => ExactlyTheText
<1> SUFFICES ASSUME WireTypes, TextInv, quiet PROVE sent = Pick(received, Shown(received))
  BY DEF ExactlyTheText
<1>1. mrest = <<>> BY DEF quiet
<1>2. Good(received, mcarry, <<>>, inMeta, macc, inHist, histDone, blockHasHist, had, sent)
  BY <1>1 DEF TextInv
<1>3. mcarry \in Seq(Byte) BY DEF WireTypes, MetaTypes
<1> QED BY <1>2, <1>3, GoodIsExact

-----------------------------------------------------------------------------
(* The terminal *)

\* What earlier connections left has a history only if the filter remembers
\* one, and then this connection's is not shown; the page takes a history for
\* received only if the filter has one or is inside it, which it is not between
\* two connections.
Clean ==
  /\ HasNoLine(over)
  /\ Top(past) /\ (~had => HasNoLine(past))
  /\ histGot => histDone \/ (inHist /\ blockHasHist)
  /\ line = "closed" => ~(inHist /\ blockHasHist /\ ~histDone)
  /\ line = "connecting" => ~inHist
  /\ nohist => histDone
  /\ ~had /\ BodyFirst(received, Done) => past = <<>>

ScreenInv ==
  /\ ~painted => past = <<>> /\ out = <<>>
  /\ line # "open" => mrest = <<>>
  /\ histDone \/ blockHasHist => histGot
  /\ ~torn => Clean

LEMMA JoinNoLine ==
  ASSUME NEW a \in Seq(Byte), NEW b \in Seq(Byte), HasNoLine(a), HasNoLine(b)
  PROVE  HasNoLine(a \o b)
<1>1. /\ Len(a \o b) = Len(a) + Len(b) /\ Len(a) \in Nat /\ Len(b) \in Nat
      /\ \A i \in 1..Len(a \o b) : (a \o b)[i] = IF i <= Len(a) THEN a[i] ELSE b[i - Len(a)]
  BY ConcatProperties, Elements
<1>2. SUFFICES ASSUME NEW i \in 1..Len(a \o b) PROVE (a \o b)[i] \notin Lines BY DEF HasNoLine
<1>3. CASE i <= Len(a)
  <2>1. i \in 1..Len(a) /\ (a \o b)[i] = a[i] BY <1>1, <1>3
  <2> QED BY <2>1 DEF HasNoLine
<1>4. CASE ~(i <= Len(a))
  <2>1. i - Len(a) \in 1..Len(b) /\ (a \o b)[i] = b[i - Len(a)] BY <1>1, <1>4
  <2> QED BY <2>1 DEF HasNoLine
<1> QED BY <1>3, <1>4

LEMMA EmptyTop == Top(<<>>) /\ HasNoLine(<<>>)
<1>1. 1..Len(<<>>) = {} OBVIOUS
<1> QED BY <1>1 DEF Top, HasNoLine

\* The end of a beginning.
LEMMA EndWindow ==
  ASSUME NEW o \in Seq(Byte), NEW z \in Seq(Byte), NEW f \in 0..Len(o)
  PROVE  From(o, f + 1) \in Seq(Byte) /\ Window(o \o z, f, From(o, f + 1))
<1> DEFINE t == From(o, f + 1)
<1>1. Len(o) \in Nat /\ Len(z) \in Nat /\ f \in Nat /\ f <= Len(o) BY Elements
<1>2. t \in Seq(Byte) /\ Len(t) = Len(o) - f BY CutInTwo, FromIs
<1>3. \A i \in 1..Len(t) : t[i] = o[f + i]
  <2>1. \A i \in (f + 1)..Len(o) : o[i] \in Byte BY <1>1, Elements
  <2>2. f + 1 \in Int /\ Len(o) \in Int BY <1>1
  <2>3. \A i \in 1..(Len(o) - (f + 1) + 1) : t[i] = o[(f + 1) + i - 1]
    BY <2>1, <2>2, SubSeqProperties DEF From
  <2>4. \A i \in 1..Len(t) : i \in 1..(Len(o) - (f + 1) + 1) /\ (f + 1) + i - 1 = f + i
    <3> HIDE DEF t
    <3> QED BY <1>1, <1>2
  <2> HIDE DEF t
  <2> QED BY <2>3, <2>4
<1> HIDE DEF t
<1>4. /\ Len(o \o z) = Len(o) + Len(z)
      /\ \A i \in 1..Len(o \o z) : (o \o z)[i] = IF i <= Len(o) THEN o[i] ELSE z[i - Len(o)]
  BY ConcatProperties
<1>5. \A i \in 1..Len(t) : f + i \in 1..Len(o \o z) /\ f + i <= Len(o) BY <1>1, <1>2, <1>4
<1>6. f + Len(t) <= Len(o \o z) BY <1>1, <1>2, <1>4
<1>7. \A i \in 1..Len(t) : t[i] = (o \o z)[f + i] BY <1>3, <1>4, <1>5
<1> QED BY <1>2, <1>6, <1>7 DEF Window, t

\* What this connection has heard.
LEMMA HeardHere ==
  ASSUME WireTypes, TextInv, Origin
  PROVE  /\ had => histDone
         /\ Top(sent)
         /\ HasNoLine(sent) \/ (~had /\ BodyFirst(received, Done))
         /\ BodyFirst(received, Done) => histDone \/ (inHist /\ blockHasHist)
<1>1. /\ MetaState(received, Done, mcarry \o mrest, inHist, histDone, blockHasHist, had, sent)
      /\ Place(received, Done, inMeta, macc) /\ received \in Seq(Byte)
  BY GoodAt DEF TextInv, Done
<1>2. Comes(received) BY DEF Origin
<1>3. inHist \in BOOLEAN /\ histDone \in BOOLEAN BY DEF WireTypes, MetaTypes
<1> QED BY ONLY <1>1, <1>2, <1>3, Heard

LEMMA TerminalIsTop ==
  ASSUME SyncInv, WireTypes, from \in 0..Len(out), TextInv, Origin, ScreenInv, ~torn
  PROVE  /\ Top(Renewed)
         /\ (line = "closed" /\ ~histDone) \/ ~histGot => HasNoLine(Renewed)
<1> DEFINE t == From(out, from + 1)
           z == acc \o (carry \o rest)
<1>1. Clean BY DEF ScreenInv
<1>2. /\ past \in Seq(Byte) /\ out \in Seq(Byte) /\ sent \in Seq(Byte)
      /\ z \in Seq(Byte) /\ sent = out \o z
  <2>1. carry \o rest \in Seq(Byte) BY JoinLength DEF SyncInv, SyncSeqs
  <2>2. z \in Seq(Byte) BY <2>1, JoinLength DEF SyncInv, SyncSeqs
  <2> QED BY <2>2 DEF SyncInv, SyncSeqs, Lossless, WireTypes, ScreenTypes
<1> HIDE DEF z
<1>3. t \in Seq(Byte) /\ Window(sent, from, t) BY <1>2, EndWindow
<1>4. from \in Nat BY <1>2, Elements
<1> HIDE DEF t
<1>5. /\ had => histDone
      /\ Top(sent)
      /\ HasNoLine(sent) \/ (~had /\ BodyFirst(received, Done))
      /\ BodyFirst(received, Done) => histDone \/ (inHist /\ blockHasHist)
  BY HeardHere
<1>6. Top(t) /\ (HasNoLine(sent) => HasNoLine(t)) BY ONLY <1>2, <1>3, <1>4, <1>5, TopWindow
<1>7. past = <<>> \/ HasNoLine(t) BY <1>1, <1>5, <1>6 DEF Clean
<1>8. Top(past \o t)
  <2>1. Top(past) BY <1>1 DEF Clean
  <2> QED BY ONLY <1>2, <1>3, <1>6, <1>7, <2>1, TopJoin
<1>9. ASSUME (line = "closed" /\ ~histDone) \/ ~histGot PROVE HasNoLine(past \o t)
  <2>1. ~histDone /\ ~(inHist /\ blockHasHist) BY <1>1, <1>9 DEF Clean, ScreenInv
  <2>2. HasNoLine(past) BY <1>1, <1>5, <2>1 DEF Clean
  <2>3. HasNoLine(t) BY <1>5, <1>6, <2>1
  <2> QED BY <1>2, <1>3, <2>2, <2>3, JoinNoLine
<1>10. Renewed = past \o t BY DEF Renewed, t
<1> QED BY <1>8, <1>9, <1>10

\* Before the page knows of a history there is no line of one, in the queue
\* neither.
LEMMA NoLineUnparsed ==
  ASSUME SyncInv, WireTypes, from \in 0..Len(out), QueueTypes, TextInv, Origin, ScreenInv,
         ~torn, ~histGot
  PROVE  HasNoLine(Unparsed)
<1> DEFINE n == Len(Written) - pending
<1>1. out \in Seq(Byte) BY DEF SyncInv, SyncSeqs
<1>2. Written \in Seq(Byte) /\ Renewed \in Seq(Byte) /\ Len(Written) \in Nat
  BY <1>1, WrittenIs, Elements
<1>3. n \in 0..Len(Written) /\ n \in Nat BY <1>2 DEF QueueTypes
<1> HIDE DEF n
<1>4. HasNoLine(Written)
  <2>1. HasNoLine(Renewed) BY TerminalIsTop
  <2>2. HasNoLine(over) BY DEF ScreenInv, Clean
  <2>3. over \in Seq(Byte) BY DEF WireTypes, ScreenTypes
  <2> QED BY <1>2, <2>1, <2>2, <2>3, JoinNoLine DEF Written
<1>5. Written \o <<>> = Written /\ <<>> \in Seq(Byte) BY <1>2, JoinEmpty
<1>6. From(Written, n + 1) \in Seq(Byte) /\ Window(Written \o <<>>, n, From(Written, n + 1))
  BY <1>2, <1>3, <1>5, EndWindow
<1>7. HasNoLine(From(Written, n + 1)) BY <1>2, <1>3, <1>4, <1>5, <1>6, TopWindow
<1> QED BY <1>7 DEF Unparsed, n

LEMMA NoBodyYet ==
  ASSUME NEW n
  PROVE  ~BodyFirst(<<>>, n)
<1>1. \A m : Places(<<>>, m) = {} BY DEF Places
<1>2. \A words : Ends(<<>>, words) = {} BY <1>1 DEF Ends
<1> QED BY <1>2 DEF BodyFirst

LEMMA ConnectScreen ==
  ASSUME SyncInv, WireTypes, from \in 0..Len(out), TextInv, Origin, ScreenInv, connect
  PROVE  ScreenInv'
<1>1. /\ line = "closed" /\ mrest = <<>> /\ line' = "connecting"
      /\ past' = Renewed /\ over' = over /\ makeSyncFilter /\ reset
      /\ received' = <<>> /\ had' = histDone
      /\ UNCHANGED <<nohist, mrest, histGot, painted, torn>>
  BY DEF connect, quiet
<1>2. /\ out' = <<>> /\ inHist' = FALSE
      /\ UNCHANGED <<histDone, blockHasHist>>
  BY <1>1 DEF makeSyncFilter, reset
<1>3. ASSUME ~painted PROVE Renewed = <<>>
  <2>1. past = <<>> /\ out = <<>> BY <1>3 DEF ScreenInv
  <2>2. from = 0 /\ out \in Seq(Byte) /\ 0 \in 0..Len(out)
    <3>1. Len(out) = 0 BY <2>1
    <3> QED BY <3>1, <2>1, EmptySeq
  <2>3. Len(From(out, 0 + 1)) = 0 /\ From(out, 0 + 1) \in Seq(Byte)
    <3>1. Len(out) - 0 = 0 BY <2>1
    <3> QED BY <2>2, <3>1, FromIs, CutInTwo
  <2>4. From(out, from + 1) = <<>> BY <2>2, <2>3, EmptySeq
  <2>5. <<>> \o <<>> = <<>> BY EmptySeq, ConcatEmptySeq
  <2> QED BY <2>1, <2>4, <2>5 DEF Renewed
<1>4. ASSUME ~torn PROVE Clean'
  <2>1. Top(Renewed) /\ (~histDone => HasNoLine(Renewed)) BY <1>1, <1>4, TerminalIsTop
  <2>2. (histGot => histDone) /\ (nohist => histDone) BY <1>1, <1>4 DEF ScreenInv, Clean
  <2>3. ~BodyFirst(received', Done') BY <1>1, NoBodyYet
  <2>4. torn' = torn /\ line' # "closed" BY <1>1 DEF connect
  <2>5. HasNoLine(over') /\ Top(past') /\ (~had' => HasNoLine(past'))
    BY <1>1, <1>4, <2>1 DEF ScreenInv, Clean
  <2>6. (histGot' => histDone') /\ (nohist' => histDone') BY <1>1, <1>2, <2>2
  <2>7. ~(inHist' /\ blockHasHist' /\ ~histDone') /\ ~inHist' BY <1>2
  <2> QED BY <2>3, <2>5, <2>6, <2>7 DEF Clean
<1> QED BY <1>1, <1>2, <1>3, <1>4 DEF ScreenInv

\* A step that leaves the screen and the memory of histories as they are.
LEMMA ScreenStays ==
  ASSUME ScreenInv, UNCHANGED <<painted, over, past, out, had, torn, histGot, inHist,
                                histDone, blockHasHist, nohist>>,
         line' # "open" => line' = line /\ mrest' = <<>>,
         BodyFirst(received', Done') => BodyFirst(received, Done)
  PROVE  ScreenInv'
<1>1. ASSUME ~torn PROVE Clean' BY <1>1 DEF ScreenInv, Clean
<1> QED BY <1>1 DEF ScreenInv

\* What is read of a connection does not change with what follows.
LEMMA GoodInStream ==
  ASSUME NEW r, NEW c, NEW x, NEW im, NEW ma, NEW ih \in BOOLEAN, NEW hd \in BOOLEAN,
         NEW bh, NEW h, NEW sn, Good(r, c, x, im, ma, ih, hd, bh, h, sn), NEW u \in Seq(Byte)
  PROVE  /\ Handled(r, c, x) <= Len(r)
         /\ Remembers(r \o u, Handled(r, c, x), ih, hd, bh, h)
         /\ Agree(r \o u, r, Handled(r, c, x))
<1> DEFINE n == Handled(r, c, x)
           y == c \o x
<1>1. MetaState(r, n, y, ih, hd, bh, h, sn) /\ Place(r, n, im, ma) /\ r \in Seq(Byte)
  BY GoodAt
<1> HIDE DEF n, y
<1>2. ih \in BOOLEAN /\ hd \in BOOLEAN /\ u \in Seq(Byte) OBVIOUS
<1>3. /\ n <= Len(r) /\ Remembers(r \o u, n, ih, hd, bh, h)
      /\ \A words : \A e \in Nat : e <= n => (e \in Ends(r \o u, words) <=> e \in Ends(r, words))
  BY ONLY <1>1, <1>2, InStream
<1> QED BY <1>3 DEF n, Agree

LEMMA MessageScreen ==
  ASSUME WireTypes, TextInv, Origin, ScreenInv, NEW k \in 1..Len(todo), onmessage(k)
  PROVE  ScreenInv'
<1> DEFINE b == First(todo, k)
<1>1. /\ line = "open" /\ mrest = <<>> /\ mrest' = mcarry \o b /\ mcarry' = <<>>
      /\ received' = received \o b
      /\ UNCHANGED <<line, nohist, painted, over, past, out, had, torn, histGot, inHist, histDone,
                     blockHasHist>>
  BY DEF onmessage, quiet, syncVars, screen, ghost
<1>2. todo \in Seq(Byte) /\ mcarry \in Seq(Byte) /\ received \in Seq(Byte)
  BY DEF WireTypes, LineTypes, MetaTypes
<1>3. b \in Seq(Byte)
  <2>1. k \in 0..Len(todo) BY <1>2
  <2> QED BY <1>2, <2>1, CutInTwo
<1> HIDE DEF b
<1>4. Done' = Done
  <2>1. /\ Len(mcarry \o b) = Len(mcarry) + Len(b) /\ mcarry \o b \in Seq(Byte)
        /\ Len(received \o b) = Len(received) + Len(b)
        /\ Len(mcarry) \in Nat /\ Len(b) \in Nat /\ Len(received) \in Nat
    BY <1>2, <1>3, JoinLength, Elements
  <2>2. <<>> \o (mcarry \o b) = mcarry \o b /\ mcarry \o <<>> = mcarry BY <1>2, <2>1, JoinEmpty
  <2>3. Done = Len(received) - Len(mcarry) BY <1>1, <2>2 DEF Done, Handled
  <2>4. Done' = Len(received \o b) - Len(mcarry \o b) BY <1>1, <2>2 DEF Done, Handled
  <2> QED BY <2>1, <2>3, <2>4
<1>5. BodyFirst(received \o b, Done) => BodyFirst(received, Done)
  <2>1. received \in Seq(Byte) /\ Done \in Nat BY GoodAt DEF TextInv, Done
  <2>2. inHist \in BOOLEAN /\ histDone \in BOOLEAN BY DEF WireTypes, MetaTypes
  <2>3. Agree(received \o b, received, Done)
    <3>1. Good(received, mcarry, mrest, inMeta, macc, inHist, histDone, blockHasHist, had, sent)
      BY DEF TextInv
    <3>2. Agree(received \o b, received, Handled(received, mcarry, mrest))
      BY ONLY <1>3, <2>2, <3>1, GoodInStream
    <3> QED BY <3>2 DEF Done
  <2>4. received \o b \in Seq(Byte) BY <1>2, <1>3, JoinLength
  <2> QED BY <2>1, <2>3, <2>4, BodyFirstKnown DEF Agree
<1>6. BodyFirst(received', Done') => BodyFirst(received, Done) BY <1>1, <1>4, <1>5
<1> QED BY <1>1, <1>6, ScreenStays

\* At a control sequence.
LEMMA EndsScreen ==
  ASSUME SyncInv, WireTypes, from \in 0..Len(out), QueueTypes,
         TextInv, Origin, ScreenInv, MetaEnds, TextInv',
         OneMore(received, Done, Done', macc')
  PROVE  ScreenInv'
<1> DEFINE w == macc'
           begins == announces(w) \/ w = <<NoHistory>>
           ends == w = <<HistEnd>>
<1>1. /\ mrest # <<>>
      /\ inHist' = ((inHist \/ begins) /\ ~ends)
      /\ blockHasHist' = IF begins THEN announces(w) ELSE blockHasHist
      /\ histDone' = (histDone \/ (ends /\ blockHasHist))
      /\ onMeta(w)
      /\ UNCHANGED <<line, nohist, received, out, painted, had, torn>>
  BY DEF MetaEnds, turn, syncVars, conn, ghost
<1> HIDE DEF w
<1>2. line = "open" BY <1>1 DEF ScreenInv
<1>3. /\ past' \in {past, <<>>} /\ histGot' = (histGot \/ announces(w))
      /\ announces(w) /\ ~histGot /\ painted /\ w = <<WithHistory>> => past' = <<>>
      /\ over' = over \/ (~histGot /\ over' = Unparsed)
  BY <1>1 DEF onMeta, WireTypes, MetaTypes
<1>6. histDone' \/ blockHasHist' => histGot' BY <1>1, <1>3 DEF ScreenInv
<1>4. ASSUME ~painted PROVE past' = <<>> /\ out' = <<>> BY <1>1, <1>3, <1>4 DEF ScreenInv
<1>5. ASSUME ~torn PROVE Clean'
  <2>0. Clean BY <1>5 DEF ScreenInv
  <2>1. /\ received \in Seq(Byte) /\ Done \in Nat /\ Done' \in Nat
        /\ MetaState(received, Done, mcarry \o mrest, inHist, histDone, blockHasHist, had, sent)
    <3>1. Done \in Nat /\ MetaState(received, Done, mcarry \o mrest, inHist, histDone, blockHasHist, had, sent)
      BY GoodAt DEF TextInv, Done
    <3>2. Good(received', mcarry', mrest', inMeta', macc', inHist', histDone', blockHasHist', had', sent')
      BY DEF TextInv
    <3>3. Handled(received', mcarry', mrest') \in Nat BY ONLY <3>2, GoodAt
    <3> QED BY <3>1, <3>3 DEF WireTypes, LineTypes, Done
  <2>2. /\ inHist \in BOOLEAN /\ histDone \in BOOLEAN /\ blockHasHist \in BOOLEAN
        /\ had \in BOOLEAN /\ histGot \in BOOLEAN
    BY DEF WireTypes, MetaTypes, ScreenTypes
  <2>3. Top(past') /\ (~had' => HasNoLine(past'))
    <3>1. Top(past) /\ (~had => HasNoLine(past)) BY <2>0 DEF Clean
    <3> QED BY <1>1, <1>3, <3>1, EmptyTop
  <2>4. announces(w) \/ w = <<NoHistory>> => ~inHist
    <3>1. Good(received, mcarry, mrest, inMeta, macc, inHist, histDone, blockHasHist, had, sent)
      BY DEF TextInv
    <3>2. Good(received, mcarry', mrest', inMeta', macc', inHist', histDone', blockHasHist', had', sent')
      BY <1>1 DEF TextInv
    <3>3. Done' = Handled(received, mcarry', mrest') BY <1>1 DEF Done
    <3>4. inHist' \in BOOLEAN /\ histDone' \in BOOLEAN BY <1>1, <2>2
    <3>5. received # <<>>
      <4>1. Done < Done' BY DEF OneMore
      <4>2. Handled(received, mcarry', mrest') <= Len(received)
        <5>1. <<>> \in Seq(Byte) BY EmptySeq
        <5> QED BY ONLY <3>2, <3>4, <5>1, GoodInStream
      <4>3. Len(received) # 0 BY <2>1, <3>3, <4>1, <4>2, Elements
      <4> QED BY <4>3
    <3>6. PICK u \in Seq(Byte), a \in BOOLEAN : received \o u \in Streams[a]
      BY <3>5 DEF Origin, Comes
    <3> DEFINE s == received \o u
    <3>7. Stream(s)
      <4>1. s \in Seq(Byte) BY <2>1, JoinLength
      <4> QED BY <3>6, <4>1 DEF Stream
    <3>8. u \in Seq(Byte) BY <3>6
    <3>9. Remembers(s, Done, inHist, histDone, blockHasHist, had)
      <4>1. Remembers(received \o u, Handled(received, mcarry, mrest), inHist, histDone, blockHasHist, had)
        BY ONLY <2>2, <3>1, <3>8, GoodInStream
      <4> QED BY <4>1 DEF Done
    <3>10. Agree(s, received, Done')
      <4>1. Agree(received \o u, received, Handled(received, mcarry', mrest'))
        BY ONLY <3>2, <3>4, <3>8, GoodInStream
      <4> QED BY <3>3, <4>1
    <3>11. OneMore(received, Done, Done', w) BY DEF w
    <3> HIDE DEF s
    <3> QED BY ONLY <2>1, <3>7, <3>9, <3>10, <3>11, Apart
  <2>5. histGot' => histDone' \/ (inHist' /\ blockHasHist')
    <3>1. histGot => histDone \/ (inHist /\ blockHasHist) BY <2>0 DEF Clean
    <3>2. announces(w) => w # <<HistEnd>> BY Words
    <3> QED BY <1>1, <1>3, <2>2, <2>4, <3>1, <3>2
  <2>6. ASSUME ~had, BodyFirst(received, Done') PROVE past' = <<>>
    <3>1. BodyFirst(received, Done) \/ (w = <<WithHistory>> /\ \A d \in Announced(received) : ~(d <= Done))
      BY <2>1, <2>6, OneMoreBody DEF w
    <3>2. CASE BodyFirst(received, Done) BY <1>3, <2>0, <2>6, <3>2 DEF Clean
    <3>3. CASE w = <<WithHistory>> /\ \A d \in Announced(received) : ~(d <= Done)
      <4>1. Remembers(received, Done, inHist, histDone, blockHasHist, had) BY <2>1 DEF MetaState
      <4>2. ~histDone /\ ~(inHist /\ blockHasHist)
        BY ONLY <2>2, <2>6, <3>3, <4>1, NoneBegun
      <4>3. ~histGot BY <2>0, <4>2 DEF Clean
      <4>4. announces(w) BY <3>3 DEF announces
      <4> QED BY <1>3, <1>4, <3>3, <4>3, <4>4
    <3> QED BY <3>1, <3>2, <3>3
  <2>7. nohist' => histDone' BY <1>1, <2>0 DEF Clean
  <2>8. HasNoLine(over')
    <3>1. HasNoLine(over) BY <2>0 DEF Clean
    <3> QED BY <1>3, <1>5, <3>1, NoLineUnparsed
  <2> QED BY <1>1, <1>2, <2>3, <2>5, <2>6, <2>7, <2>8 DEF Clean
<1> QED BY <1>1, <1>2, <1>4, <1>5, <1>6 DEF ScreenInv

LEMMA InitScreen == Init => ScreenInv
<1> SUFFICES ASSUME Init PROVE ScreenInv OBVIOUS
<1>1. /\ past = <<>> /\ over = <<>> /\ out = <<>> /\ mrest = <<>> /\ received = <<>>
      /\ histGot = FALSE /\ inHist = FALSE /\ nohist = FALSE
      /\ histDone = FALSE /\ blockHasHist = FALSE
  BY DEF Init, SyncInit
<1>2. Clean BY <1>1, EmptyTop DEF Clean
<1> QED BY <1>1, <1>2 DEF ScreenInv

LEMMA NextScreen ==
  ASSUME SyncInv, WireTypes, from \in 0..Len(out), QueueTypes, TextInv, Origin, ScreenInv,
         [Next]_vars
  PROVE  ScreenInv'
<1>0. sent \in Seq(Byte) BY DEF SyncInv, SyncSeqs
<1>1. CASE connect BY <1>1, ConnectScreen
<1>2. CASE onopen
  <2>1. /\ line = "connecting" /\ line' = "open" /\ nohist' = histGot
        /\ UNCHANGED <<out, received, mcarry, mrest, inHist, histDone, blockHasHist,
                       histGot, painted, over, past, had, torn>>
    BY <1>2 DEF onopen, syncVars, meta, screen, ghost
  <2>2. Done' = Done BY <2>1 DEF Done
  <2>3. ASSUME ~torn PROVE Clean' BY <2>1, <2>2, <2>3 DEF ScreenInv, Clean
  <2> QED BY <2>1, <2>3 DEF ScreenInv
<1>3. CASE onclose
  <2>1. /\ mrest = <<>> /\ line' = "closed"
        /\ torn' = (torn \/ (inHist /\ blockHasHist /\ ~histDone))
        /\ UNCHANGED <<out, received, mcarry, mrest, inHist, histDone, blockHasHist,
                       histGot, nohist, painted, over, past, had>>
    BY <1>3 DEF onclose, quiet, syncVars, meta, screen
  <2>2. Done' = Done BY <2>1 DEF Done
  <2>3. ASSUME ~torn' PROVE Clean'
    <3>1. ~torn /\ ~(inHist /\ blockHasHist /\ ~histDone) BY <2>1, <2>3
    <3> QED BY <2>1, <2>2, <3>1 DEF ScreenInv, Clean
  <2> QED BY <2>1, <2>3 DEF ScreenInv
<1>4. CASE \E n \in 1..Len(todo) : onmessage(n) BY <1>4, MessageScreen
<1>5. CASE MetaBegins
  <2>1. /\ line' = line /\ mrest # <<>> /\ received' = received
        /\ UNCHANGED <<nohist, inHist, histDone, blockHasHist, histGot, painted, over, past, had, torn>>
        /\ \E b : pass(b)
    BY <1>5 DEF MetaBegins, turn, conn, screen, ghost
  <2>2. out' = out BY <2>1 DEF pass, feed, syncVars
  <2>3. Same(received, Done, Done') BY <1>0, <1>5, MetaBeginsText
  <2>4. line = "open" BY <2>1 DEF ScreenInv
  <2> QED BY <2>1, <2>2, <2>3, <2>4, SameBody, ScreenStays
<1>6. CASE OnlyText
  <2>1. /\ line' = line /\ mrest # <<>> /\ received' = received
        /\ UNCHANGED <<nohist, inHist, histDone, blockHasHist, histGot, painted, over, past, had, torn>>
        /\ \E b : pass(b)
    BY <1>6 DEF OnlyText, turn, conn, screen, ghost
  <2>2. out' = out BY <2>1 DEF pass, feed, syncVars
  <2>3. Same(received, Done, Done') BY <1>0, <1>6, OnlyTextText
  <2>4. line = "open" BY <2>1 DEF ScreenInv
  <2> QED BY <2>1, <2>2, <2>3, <2>4, SameBody, ScreenStays
<1>7. CASE MetaEnds
  <2>1. TextInv' /\ OneMore(received, Done, Done', macc')
    BY <1>0, <1>7, MetaEndsText DEF TextMove
  <2> QED BY <1>7, <2>1, EndsScreen
<1>8. CASE MetaGoesOn
  <2>1. /\ line' = line /\ mrest # <<>> /\ received' = received
        /\ UNCHANGED <<nohist, out, inHist, histDone, blockHasHist, histGot, painted, over, past, had, torn>>
    BY <1>8 DEF MetaGoesOn, turn, conn, syncVars, screen, ghost
  <2>2. Same(received, Done, Done') BY <1>0, <1>8, MetaGoesOnText
  <2>3. line = "open" BY <2>1 DEF ScreenInv
  <2> QED BY <2>1, <2>2, <2>3, SameBody, ScreenStays
<1>9. CASE Write
  <2>1. /\ painted' = (painted \/ out' # out)
        /\ UNCHANGED <<line, received, mcarry, mrest, inHist, histDone, blockHasHist,
                       histGot, nohist, over, past, had, torn>>
    BY <1>9 DEF Write, conn, meta, ghost
  <2>2. Done' = Done BY <2>1 DEF Done
  <2>3. ASSUME ~torn PROVE Clean' BY <2>1, <2>2, <2>3 DEF ScreenInv, Clean
  <2>4. ASSUME ~painted' PROVE past' = <<>> /\ out' = <<>>
    BY <2>1, <2>4 DEF ScreenInv
  <2> QED BY <2>1, <2>3, <2>4 DEF ScreenInv
<1>10. CASE Parse
  <2>1. UNCHANGED <<line, out, received, mcarry, mrest, inHist, histDone, blockHasHist,
                    histGot, nohist, painted, over, past, had, torn>>
    BY <1>10 DEF Parse, syncVars, conn, meta, ghost
  <2>2. Done' = Done BY <2>1 DEF Done
  <2> QED BY <2>1, <2>2, ScreenStays DEF ScreenInv
<1>11. CASE UNCHANGED vars
  <2>1. UNCHANGED <<line, out, received, mcarry, mrest, inHist, histDone, blockHasHist,
                    histGot, nohist, painted, over, past, had, torn>>
    BY <1>11 DEF vars, syncVars, conn, meta, screen, ghost
  <2>2. Done' = Done BY <2>1 DEF Done
  <2> QED BY <2>1, <2>2, ScreenStays DEF ScreenInv
<1> QED
  BY <1>1, <1>2, <1>3, <1>4, <1>5, <1>6, <1>7, <1>8, <1>9, <1>10, <1>11 DEF Next

\* Below something without a line.
LEMMA TopBelow ==
  ASSUME NEW a \in Seq(Byte), NEW b \in Seq(Byte), HasNoLine(a), Top(b),
         NEW p \in 1..Len(a \o b), NEW q \in 1..Len(a \o b), (a \o b)[p] \in Lines
  PROVE  /\ (a \o b)[q] = (a \o b)[p] => q = p
         /\ q > Len(a) /\ q \in Places(a \o b, BSU) => p < q
<1> DEFINE t == a \o b
           m == Len(a)
<1>1. /\ t \in Seq(Byte) /\ Len(t) = m + Len(b) /\ m \in Nat /\ Len(b) \in Nat
      /\ \A i \in 1..Len(t) : t[i] = IF i <= m THEN a[i] ELSE b[i - m]
  BY ConcatProperties, Elements
<1>2. p \in 1..Len(t) /\ q \in 1..Len(t) /\ t[p] \in Lines OBVIOUS
<1>3. \A i \in 1..m : a[i] \notin Lines BY DEF HasNoLine
<1> HIDE DEF t, m
<1>4. \A i \in 1..Len(t) : t[i] \in Lines => i - m \in 1..Len(b) /\ t[i] = b[i - m]
  BY <1>1, <1>3
<1>5. p - m \in 1..Len(b) /\ t[p] = b[p - m] /\ b[p - m] \in Lines BY <1>2, <1>4
<1>6. ASSUME t[q] = t[p] PROVE q = p
  <2>1. q - m \in 1..Len(b) /\ b[q - m] = b[p - m] BY <1>2, <1>4, <1>5, <1>6
  <2>2. q - m = p - m BY <1>5, <2>1 DEF Top
  <2> QED BY <1>1, <1>2, <2>2
<1>7. ASSUME q > m, q \in Places(t, BSU) PROVE p < q
  <2>1. MayBegin(t, BSU, q) /\ q + Len(BSU) <= Len(t) + 1 BY <1>1, <1>7, PlacesAre, MarkerLengths
  <2>2. q - m \in Nat /\ q - m > 0 /\ (q - m) + Len(BSU) <= Len(b) + 1
    BY <1>1, <1>2, <1>7, <2>1, MarkerLengths
  <2>3. MayBegin(b, BSU, q - m)
    <3>1. ASSUME NEW k \in 1..Len(BSU) PROVE b[(q - m) + k - 1] = BSU[k]
      <4>1. q + k - 1 \in 1..Len(t) /\ ~(q + k - 1 <= m) /\ (q + k - 1) - m = (q - m) + k - 1
        BY <1>1, <1>2, <1>7, <2>1, MarkerLengths
      <4>2. t[q + k - 1] = BSU[k] BY <2>1 DEF MayBegin
      <4> QED BY <1>1, <4>1, <4>2
    <3> QED BY <3>1 DEF MayBegin
  <2>4. q - m \in Places(b, BSU) BY <2>2, <2>3, PlacesAre, MarkerLengths
  <2>5. q - m \in 1..Len(b) BY <1>1, <2>2, MarkerLengths
  <2>6. p - m < q - m BY <1>5, <2>4, <2>5 DEF Top
  <2> QED BY <1>1, <1>2, <2>6
<1> QED BY <1>6, <1>7 DEF t, m

LEMMA ScreenInvImplies ==
  ASSUME SyncInv, WireTypes, from \in 0..Len(out), TextInv, Origin, ScreenInv
  PROVE  HistoryOnceOnTop /\ NoHistUnlessTorn
<1>1. ASSUME ~torn PROVE Top(Renewed) /\ HasNoLine(over)
  BY <1>1, TerminalIsTop DEF ScreenInv, Clean
<1>2. ASSUME ~torn PROVE nohist => histDone BY <1>2 DEF ScreenInv, Clean
<1>3. over \in Seq(Byte) /\ Renewed \in Seq(Byte)
  <2>1. out \in Seq(Byte) BY DEF SyncInv, SyncSeqs
  <2> QED BY <2>1, WrittenIs DEF WireTypes, ScreenTypes
<1>4. HistoryOnceOnTop
  <2> SUFFICES ASSUME ~torn, NEW p \in 1..Len(Written), NEW q \in 1..Len(Written),
                      Written[p] \in Lines
               PROVE  /\ Written[q] = Written[p] => q = p
                      /\ q > Len(over) /\ q \in Places(Written, BSU) => p < q
    BY DEF HistoryOnceOnTop
  <2> QED BY <1>1, <1>3, TopBelow DEF Written
<1> QED BY <1>2, <1>4 DEF NoHistUnlessTorn, NoHistAfterHistory

-----------------------------------------------------------------------------
(* The invariant *)

Inv == /\ SyncInv /\ Frames /\ syncing \in BOOLEAN /\ WireTypes /\ from \in 0..Len(out)
       /\ QueueTypes /\ TextInv /\ Origin /\ ScreenInv

PipeStep == [P!PipeNext]_(P!pipeVars)

LEMMA InitInv == Init => Inv /\ P!PipeInit
<1> SUFFICES ASSUME Init PROVE Inv /\ P!PipeInit OBVIOUS
<1>1. /\ carry = <<>> /\ syncing = FALSE /\ acc = <<>> /\ rest = <<>>
      /\ sent = <<>> /\ out = <<>> /\ cuts = {}
  BY DEF Init, SyncInit
<1>2. <<>> \in Seq(Byte) /\ <<>> = <<>> \o (<<>> \o (<<>> \o <<>>))
  <2>1. <<>> \in Seq(Byte) BY EmptySeq
  <2>2. <<>> \o <<>> = <<>> BY <2>1, ConcatEmptySeq
  <2> QED BY <2>1, <2>2
<1>3. SyncInv BY <1>1, <1>2 DEF SyncInv, SyncSeqs, Lossless
<1>4. WireTypes
  <2>1. LineTypes
    <3>1. /\ line = "closed" /\ conns = 0 /\ nohist = FALSE /\ todo = <<>>
          /\ received = <<>>
      BY DEF Init
    <3>2. conns \in 0..MaxConns BY <3>1, WireAssumption
    <3> QED BY <1>2, <3>1, <3>2 DEF LineTypes
  <2>2. MetaTypes BY <1>2 DEF Init, MetaTypes
  <2>3. ScreenTypes BY <1>2 DEF Init, ScreenTypes
  <2> QED BY <2>1, <2>2, <2>3 DEF WireTypes
<1>5. Frames
  <2>1. Len(out) = 0 /\ Len(carry) = 0 /\ Len(sent) = 0 BY <1>1
  <2>2. Sealed(sent, 0) BY DEF Sealed
  <2>3. MayBegin(sent, BSU, 1) BY <2>1, MarkerLengths DEF MayBegin
  <2> QED BY <1>1, <2>1, <2>2, <2>3, MarkerLengths DEF Frames
<1>6. from \in 0..Len(out)
  <2>1. from = 0 /\ Len(out) = 0 BY <1>1 DEF Init
  <2> QED BY <2>1
<1>7. TextInv /\ Origin /\ ScreenInv BY InitText, InitScreen
<1>8. QueueTypes
  <2>1. pending = 0 /\ queued = {} BY DEF Init
  <2>2. Len(Written) \in Nat BY <1>1, <1>2, <1>4, <1>6, WrittenIs, Elements
  <2> QED BY <2>1, <2>2 DEF QueueTypes
<1> QED BY <1>1, <1>3, <1>4, <1>5, <1>6, <1>7, <1>8 DEF Inv, P!PipeInit

LEMMA NextInv == Inv /\ [Next]_vars => Inv' /\ PipeStep
<1> SUFFICES ASSUME Inv, [Next]_vars PROVE Inv' /\ PipeStep OBVIOUS
<1>0. /\ SyncInv /\ Frames /\ syncing \in BOOLEAN /\ WireTypes /\ from \in 0..Len(out)
      /\ out \in Seq(Byte) /\ Len(out) \in Nat /\ sent \in Seq(Byte) /\ TextInv /\ Origin
      /\ ScreenInv /\ QueueTypes
  BY Elements DEF Inv, SyncInv, SyncSeqs
<1>1. WireTypes' /\ FilterMove BY <1>0, NextMoves
<1>t. TextInv' /\ Origin' /\ ScreenInv' BY <1>0, NextText, NextScreen DEF TextMove
<1>2. CASE makeSyncFilter /\ from' = 0
  <2>1. /\ carry' = <<>> /\ syncing' = FALSE /\ acc' = <<>> /\ rest' = <<>>
        /\ sent' = <<>> /\ out' = <<>> /\ cuts' = {} /\ from' = 0
    BY <1>2 DEF makeSyncFilter
  <2>2. SyncInv' /\ PipeStep BY <1>2, NewFilter DEF PipeStep, P!PipeNext
  <2>3. Frames' BY <2>1, NewFilterFrames
  <2>4. from' \in 0..Len(out') BY <2>1
  <2>5. QueueTypes' BY <1>0, <1>1, <2>2, <2>4, NextQueue DEF SyncInv, SyncSeqs
  <2> QED BY <1>1, <1>t, <2>1, <2>2, <2>3, <2>4, <2>5 DEF Inv
<1>3. CASE UNCHANGED syncVars /\ from' \in {from, Len(out)}
  <2>1. UNCHANGED <<carry, syncing, acc, rest, sent, out, cuts>>
    BY <1>3 DEF syncVars, hold
  <2>2. SyncInv' BY <1>0, <2>1 DEF SyncInv, SyncSeqs, Lossless, idle
  <2>3. Frames' BY <1>0, <2>1 DEF Frames, idle
  <2>4. PipeStep BY <2>1 DEF PipeStep, P!pipeVars
  <2>5. from' \in 0..Len(out') BY <1>0, <1>3, <2>1
  <2>6. QueueTypes' BY <1>0, <1>1, <2>2, <2>5, NextQueue DEF SyncInv, SyncSeqs
  <2> QED BY <1>0, <1>1, <1>t, <2>1, <2>2, <2>3, <2>4, <2>5, <2>6 DEF Inv
<1>4. ASSUME NEW b \in Seq(Byte), feed(b), from' = from PROVE Inv' /\ PipeStep
  <2>1. UNCHANGED <<syncing, out, from>> BY <1>4 DEF feed
  <2>2. SyncInv' /\ P!Send BY <1>0, <1>4, FeedKeeps
  <2>3. Frames' BY <1>0, <1>4, FeedFrames
  <2>4. from' \in 0..Len(out') BY <1>0, <2>1
  <2>5. QueueTypes' BY <1>0, <1>1, <2>2, <2>4, NextQueue DEF SyncInv, SyncSeqs
  <2> QED BY <1>0, <1>1, <1>t, <2>1, <2>2, <2>3, <2>5 DEF Inv, PipeStep, P!PipeNext
<1>5. CASE from' = from /\ SyncStep
  <2>1. SyncInv' /\ P!Deliver BY <1>0, <1>5, StepKeeps
  <2>2. Frames' BY <1>0, <1>5, OpenFrameFrames, PassTextFrames, CloseFrameFrames,
                   HoldFrameFrames DEF SyncStep
  <2>3. syncing' \in BOOLEAN
    BY <1>0, <1>5 DEF SyncStep, OpenFrame, PassText, CloseFrame, HoldFrame
  <2>4. from' \in 0..Len(out')
    <3>1. Len(out) <= Len(out') BY <2>1 DEF P!Deliver, P!Extends
    <3>2. Len(out') \in Nat BY <2>1, Elements DEF SyncInv, SyncSeqs
    <3> QED BY <1>0, <1>5, <3>1, <3>2
  <2>5. QueueTypes' BY <1>0, <1>1, <2>1, <2>4, NextQueue DEF SyncInv, SyncSeqs
  <2> QED BY <1>1, <1>t, <2>1, <2>2, <2>3, <2>4, <2>5 DEF Inv, PipeStep, P!PipeNext
<1> QED BY <1>1, <1>2, <1>3, <1>4, <1>5 DEF FilterMove

-----------------------------------------------------------------------------
LEMMA InvImplies ==
  Inv => /\ TypeOK /\ Lossless /\ ChunkingInvisible /\ FrameInOneWrite
         /\ ExactlyTheText /\ HistoryOnceOnTop /\ NoHistUnlessTorn
<1>1. Inv => TypeOK
  BY DEF Inv, SyncInv, SyncSeqs, Frames, WireTypes, LineTypes, MetaTypes, ScreenTypes,
         QueueTypes, TypeOK
<1>2. Inv => Lossless BY DEF Inv, SyncInv
<1>3. Inv => ChunkingInvisible /\ FrameInOneWrite
  BY FramesInvisible, FramesInOneWrite DEF Inv
<1>4. Inv => ExactlyTheText BY TextInvImplies DEF Inv
<1>5. Inv => HistoryOnceOnTop /\ NoHistUnlessTorn BY ScreenInvImplies DEF Inv
<1> QED BY <1>1, <1>2, <1>3, <1>4, <1>5

\* Every variable keeps to its values, and what is on the screen of this
\* connection is a part of what its filter emitted (term.js 128-220, 396-449).
THEOREM TypeCorrect == Spec => []TypeOK
BY InvImplies, InitInv, NextInv, PTL DEF Spec

\* Every byte that was fed to the frame filter of a connection is in one place
\* and in its order, wherever a message was cut (sync.js 40-44).
THEOREM NothingLostInTheFilter == Spec => []Lossless
BY InvImplies, InitInv, NextInv, PTL DEF Spec

\* Between two messages the terminal has exactly what may be shown of the bytes
\* fed, however they were cut into messages (sync.js 50-87).
THEOREM CutsDoNotShow == Spec => []ChunkingInvisible
BY InvImplies, InitInv, NextInv, PTL DEF Spec

\* No write to the terminal ends inside a frame or inside its opening marker,
\* nested and unclosed frames included (sync.js 41-43).
THEOREM FramesAreWhole == Spec => []FrameInOneWrite
BY InvImplies, InitInv, NextInv, PTL DEF Spec

\* Between two messages the frame filter has been given exactly the text of
\* this connection, without control sequences and without a history the page
\* already has, wherever the messages were cut and whatever came before
\* (term.js 128-220).
THEOREM OnlyTheTextIsShown == Spec => []ExactlyTheText
BY InvImplies, InitInv, NextInv, PTL DEF Spec

\* A line of a history stands once on the terminal, through every cut and
\* reconnection, as long as no connection was cut inside a history, and above
\* every frame except those that were queued, not parsed, when the terminal was
\* reset before it: the second history is dropped, the first one is written
\* after the reset at its announcement, which takes what was parsed before it
\* away, and what was queued then holds no line (term.js 119-122, 441-449).
THEOREM HistoryStaysOnTop == Spec => []HistoryOnceOnTop
BY InvImplies, InitInv, NextInv, PTL DEF Spec

\* The page asks for no history before it has one only after a connection was cut
\* inside a history; so the early note of onMeta does harm in that case only
\* (term.js 396-401, 441-449).
THEOREM HistoryAskedUntilGot == Spec => []NoHistUnlessTorn
BY InvImplies, InitInv, NextInv, PTL DEF Spec

\* The line implements the pipe: the terminal is given a prefix of the text of
\* this connection, in order, whatever the producer sends and whenever the
\* line is cut.
THEOREM ImplementsPipe == Spec => PipeSpec
BY InitInv, NextInv, PTL DEF Spec, PipeSpec, P!PipeSpec, PipeStep
=============================================================================
