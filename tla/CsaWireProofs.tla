---------------------------- MODULE CsaWireProofs ----------------------------
(***************************************************************************)
(* The header codec is right for every header that fits its fields: what   *)
(* Deserialize reads is what Serialize wrote, and what comes off is what   *)
(* went on.  Hence the fragments of CsaWire keep their payload and slot.   *)
(*                                                                         *)
(* WireInv says which packet of the sender every fragment on air and every *)
(* state stands for: the i-th accepted is the i-th sent, with the i-th     *)
(* sequence number.  With the round trip of the header that is all Receive *)
(* needs.                                                                  *)
(***************************************************************************)
EXTENDS CsaWire, CsaSums

MacAddress == {a \in Seq(Byte) : Len(a) = 6}

\* The headers whose fields hold what their width can hold.
Header ==
  {h \in [source : MacAddress, dest : MacAddress, protocol : Half,
          seqNo : Word, length : Word, s : Byte, n : Byte,
          allSlots : Seq(Word), currentSlot : Word] :
     Len(h.allSlots) = h.n}

\* The bytes t stand in b behind the first m.
InPlace(b, m, t) == \A i \in 1..Len(t) : b[m + i] = t[i]

-----------------------------------------------------------------------------
(* Sequences of bytes *)

LEMMA ConcatFacts ==
  ASSUME NEW s \in Seq(Byte), NEW t \in Seq(Byte)
  PROVE  /\ s \o t \in Seq(Byte) /\ Len(s \o t) = Len(s) + Len(t)
         /\ InPlace(s \o t, 0, s) /\ InPlace(s \o t, Len(s), t)
BY DEF InPlace

LEMMA AsFunction ==
  ASSUME NEW S, NEW s \in Seq(S)
  PROVE  s = [i \in 1..Len(s) |-> s[i]]
<1> DEFINE f == [i \in 1..Len(s) |-> s[i]]
<1>1. f \in Seq(S) /\ Len(f) = Len(s)
  OBVIOUS
<1>2. \A i \in 1..Len(s) : f[i] = s[i]
  OBVIOUS
<1> HIDE DEF f
<1>3. f = s
  BY <1>1, <1>2
<1> QED
  BY <1>3 DEF f

LEMMA ConcatKeeps ==
  ASSUME NEW s \in Seq(Byte), NEW t \in Seq(Byte), NEW m \in Nat,
         NEW u \in Seq(Byte), m + Len(u) <= Len(s), InPlace(s, m, u)
  PROVE  InPlace(s \o t, m, u)
<1> SUFFICES ASSUME NEW i \in 1..Len(u)
             PROVE  (s \o t)[m + i] = u[i]
  BY DEF InPlace
<1>1. m + i \in 1..Len(s)
  OBVIOUS
<1> QED
  BY <1>1 DEF InPlace

LEMMA PlaceInPlace ==
  ASSUME NEW b, NEW s \in Seq(Byte), NEW u \in Seq(Byte),
         NEW k \in Nat, NEW m \in Nat, m + Len(u) <= Len(s),
         InPlace(b, k, s), InPlace(s, m, u)
  PROVE  InPlace(b, k + m, u)
<1> SUFFICES ASSUME NEW i \in 1..Len(u)
             PROVE  b[k + m + i] = u[i]
  BY DEF InPlace
<1>1. m + i \in 1..Len(s) /\ k + (m + i) = k + m + i
  OBVIOUS
<1>2. b[k + (m + i)] = s[m + i] /\ s[m + i] = u[i]
  BY <1>1 DEF InPlace
<1> QED
  BY <1>1, <1>2

LEMMA ReadBack ==
  ASSUME NEW b \in Seq(Byte), NEW m \in Nat, NEW t \in Seq(Byte),
         m + Len(t) <= Len(b), InPlace(b, m, t)
  PROVE  SubSeq(b, m + 1, m + Len(t)) = t
<1> DEFINE u == SubSeq(b, m + 1, m + Len(t))
<1>1. u \in Seq(Byte) /\ Len(u) = Len(t)
  OBVIOUS
<1>2. ASSUME NEW i \in 1..Len(t)
      PROVE  u[i] = t[i]
  <2>1. u[i] = b[m + 1 + i - 1]
    BY <1>1
  <2>2. m + 1 + i - 1 = m + i
    OBVIOUS
  <2> QED
    BY <2>1, <2>2 DEF InPlace
<1> HIDE DEF u
<1>3. u = t
  BY <1>1, <1>2
<1> QED
  BY <1>3 DEF u

-----------------------------------------------------------------------------
(* Numbers *)

LEMMA U16Facts ==
  ASSUME NEW x \in Half
  PROVE  /\ U16(x) \in Seq(Byte) /\ Len(U16(x)) = 2
         /\ U16(x)[1] + 256 * U16(x)[2] = x
<1>1. x % 256 \in Byte /\ x \div 256 \in Byte /\ (x % 256) + 256 * (x \div 256) = x
  BY SMT DEF Half, Byte
<1> QED
  BY <1>1 DEF U16

LEMMA ReadU16 ==
  ASSUME NEW b, NEW m \in Nat, NEW x \in Half, InPlace(b, m, U16(x))
  PROVE  GetU16(b, m + 1) = x
<1>1. b[m + 1] = U16(x)[1] /\ b[m + 2] = U16(x)[2]
  BY U16Facts DEF InPlace
<1>2. m + 1 + 1 = m + 2
  OBVIOUS
<1> QED
  BY <1>1, <1>2, U16Facts DEF GetU16

LEMMA Halves ==
  ASSUME NEW x \in Word
  PROVE  /\ x % 65536 \in Half /\ x \div 65536 \in Half
         /\ (x % 65536) + 65536 * (x \div 65536) = x
<1>1. x \in Nat /\ x \div 65536 < 65536
  BY SMT DEF Word
<1> QED
  BY <1>1, SMT DEF Half

LEMMA U32Facts ==
  ASSUME NEW x \in Word
  PROVE  /\ U32(x) \in Seq(Byte) /\ Len(U32(x)) = 4
         /\ InPlace(U32(x), 0, U16(x % 65536))
         /\ InPlace(U32(x), 2, U16(x \div 65536))
<1> DEFINE lo == x % 65536  hi == x \div 65536
<1>1. lo \in Half /\ hi \in Half
  BY Halves, SMT
<1>2. U32(x) = U16(lo) \o U16(hi)
  BY SMT DEF U32
<1> SUFFICES /\ U32(x) \in Seq(Byte) /\ Len(U32(x)) = 4
             /\ InPlace(U32(x), 0, U16(lo)) /\ InPlace(U32(x), 2, U16(hi))
  BY SMT
<1> HIDE DEF lo, hi
<1> QED
  BY <1>1, <1>2, U16Facts, ConcatFacts

LEMMA ReadU32 ==
  ASSUME NEW b, NEW m \in Nat, NEW x \in Word, InPlace(b, m, U32(x))
  PROVE  GetU32(b, m + 1) = x
<1> DEFINE lo == x % 65536  hi == x \div 65536
<1>1. lo \in Half /\ hi \in Half /\ lo + 65536 * hi = x
  BY Halves, SMT
<1>2. InPlace(U32(x), 0, U16(lo)) /\ InPlace(U32(x), 2, U16(hi))
  BY U32Facts, SMT
<1> HIDE DEF lo, hi
<1>3. InPlace(b, m, U16(lo)) /\ InPlace(b, m + 2, U16(hi))
  <2>1. /\ U32(x) \in Seq(Byte) /\ Len(U32(x)) = 4
        /\ U16(lo) \in Seq(Byte) /\ Len(U16(lo)) = 2
        /\ U16(hi) \in Seq(Byte) /\ Len(U16(hi)) = 2
    BY <1>1, U16Facts, U32Facts
  <2>2. 0 \in Nat /\ 2 \in Nat /\ 0 + 2 <= 4 /\ 2 + 2 <= 4 /\ m + 0 = m
    OBVIOUS
  <2>3. InPlace(b, m + 0, U16(lo))
    BY <1>2, <2>1, <2>2, PlaceInPlace
  <2>4. InPlace(b, m + 2, U16(hi))
    BY <1>2, <2>1, <2>2, PlaceInPlace
  <2> QED
    BY <2>2, <2>3, <2>4
<1>4. GetU16(b, m + 1) = lo /\ GetU16(b, m + 2 + 1) = hi
  BY <1>1, <1>3, ReadU16
<1>5. m + 2 + 1 = m + 1 + 2
  OBVIOUS
<1> QED
  BY <1>1, <1>4, <1>5, SMT DEF GetU32

-----------------------------------------------------------------------------
(* The header as bytes *)

LEMMA FixedFacts ==
  ASSUME NEW h \in Header
  PROVE  /\ FixedBytes(h) \in Seq(Byte) /\ Len(FixedBytes(h)) = 24
         /\ InPlace(FixedBytes(h), 0, h.source)
         /\ InPlace(FixedBytes(h), 6, h.dest)
         /\ InPlace(FixedBytes(h), 12, U16(h.protocol))
         /\ InPlace(FixedBytes(h), 14, U32(h.seqNo))
         /\ InPlace(FixedBytes(h), 18, U32(h.length))
         /\ InPlace(FixedBytes(h), 22, <<h.s, h.n>>)
<1> DEFINE o == h.source  e == h.dest
           p == U16(h.protocol)  q == U32(h.seqNo)  l == U32(h.length)
           t == <<h.s, h.n>>
           c1 == o \o e  c2 == c1 \o p  c3 == c2 \o q  c4 == c3 \o l
           c5 == c4 \o t
<1>1. /\ o \in Seq(Byte) /\ Len(o) = 6
      /\ e \in Seq(Byte) /\ Len(e) = 6
  BY DEF Header, MacAddress
<1>2. /\ p \in Seq(Byte) /\ Len(p) = 2
      /\ q \in Seq(Byte) /\ Len(q) = 4
      /\ l \in Seq(Byte) /\ Len(l) = 4
  BY U16Facts, U32Facts DEF Header
<1>3. t \in Seq(Byte) /\ Len(t) = 2
  BY DEF Header
<1>4. FixedBytes(h) = c5
  BY DEF FixedBytes
<1> SUFFICES /\ c5 \in Seq(Byte) /\ Len(c5) = 24
             /\ InPlace(c5, 0, o) /\ InPlace(c5, 6, e) /\ InPlace(c5, 12, p)
             /\ InPlace(c5, 14, q) /\ InPlace(c5, 18, l) /\ InPlace(c5, 22, t)
  BY <1>4
<1> HIDE DEF o, e, p, q, l, t, c1, c2, c3, c4, c5
<1>5. /\ c1 \in Seq(Byte) /\ Len(c1) = 12
      /\ InPlace(c1, 0, o) /\ InPlace(c1, 6, e)
  <2>1. c1 \in Seq(Byte) /\ Len(c1) = Len(o) + Len(e) /\ InPlace(c1, Len(o), e)
    BY <1>1, <1>2, <1>3, ConcatFacts DEF c1
  <2>2. InPlace(c1, 0, o)
    BY <1>1, <1>2, <1>3, ConcatFacts DEF c1
  <2> QED
    BY <1>1, <1>2, <1>3, <2>1, <2>2
<1>6. /\ c2 \in Seq(Byte) /\ Len(c2) = 14
      /\ InPlace(c2, 0, o) /\ InPlace(c2, 6, e) /\ InPlace(c2, 12, p)
  <2>1. c2 \in Seq(Byte) /\ Len(c2) = Len(c1) + Len(p) /\ InPlace(c2, Len(c1), p)
    BY <1>1, <1>2, <1>3, <1>5, ConcatFacts DEF c2
  <2>2. /\ 0 \in Nat /\ 0 + Len(o) <= Len(c1)
        /\ 6 \in Nat /\ 6 + Len(e) <= Len(c1)
    BY <1>1, <1>2, <1>3, <1>5
  <2>3. InPlace(c2, 0, o) /\ InPlace(c2, 6, e)
    BY <1>1, <1>2, <1>3, <1>5, <2>2, ConcatKeeps DEF c2
  <2> QED
    BY <1>1, <1>2, <1>3, <1>5, <2>1, <2>3
<1>7. /\ c3 \in Seq(Byte) /\ Len(c3) = 18
      /\ InPlace(c3, 0, o) /\ InPlace(c3, 6, e) /\ InPlace(c3, 12, p)
      /\ InPlace(c3, 14, q)
  <2>1. c3 \in Seq(Byte) /\ Len(c3) = Len(c2) + Len(q) /\ InPlace(c3, Len(c2), q)
    BY <1>1, <1>2, <1>3, <1>6, ConcatFacts DEF c3
  <2>2. /\ 0 \in Nat /\ 0 + Len(o) <= Len(c2)
        /\ 6 \in Nat /\ 6 + Len(e) <= Len(c2)
        /\ 12 \in Nat /\ 12 + Len(p) <= Len(c2)
    BY <1>1, <1>2, <1>3, <1>6
  <2>3. InPlace(c3, 0, o) /\ InPlace(c3, 6, e) /\ InPlace(c3, 12, p)
    BY <1>1, <1>2, <1>3, <1>6, <2>2, ConcatKeeps DEF c3
  <2> QED
    BY <1>1, <1>2, <1>3, <1>6, <2>1, <2>3
<1>8. /\ c4 \in Seq(Byte) /\ Len(c4) = 22
      /\ InPlace(c4, 0, o) /\ InPlace(c4, 6, e) /\ InPlace(c4, 12, p)
      /\ InPlace(c4, 14, q) /\ InPlace(c4, 18, l)
  <2>1. c4 \in Seq(Byte) /\ Len(c4) = Len(c3) + Len(l) /\ InPlace(c4, Len(c3), l)
    BY <1>1, <1>2, <1>3, <1>7, ConcatFacts DEF c4
  <2>2. /\ 0 \in Nat /\ 0 + Len(o) <= Len(c3)
        /\ 6 \in Nat /\ 6 + Len(e) <= Len(c3)
        /\ 12 \in Nat /\ 12 + Len(p) <= Len(c3)
        /\ 14 \in Nat /\ 14 + Len(q) <= Len(c3)
    BY <1>1, <1>2, <1>3, <1>7
  <2>3. InPlace(c4, 0, o) /\ InPlace(c4, 6, e) /\ InPlace(c4, 12, p) /\ InPlace(c4, 14, q)
    BY <1>1, <1>2, <1>3, <1>7, <2>2, ConcatKeeps DEF c4
  <2> QED
    BY <1>1, <1>2, <1>3, <1>7, <2>1, <2>3
<1>9. /\ c5 \in Seq(Byte) /\ Len(c5) = 24
      /\ InPlace(c5, 0, o) /\ InPlace(c5, 6, e) /\ InPlace(c5, 12, p)
      /\ InPlace(c5, 14, q) /\ InPlace(c5, 18, l) /\ InPlace(c5, 22, t)
  <2>1. c5 \in Seq(Byte) /\ Len(c5) = Len(c4) + Len(t) /\ InPlace(c5, Len(c4), t)
    BY <1>1, <1>2, <1>3, <1>8, ConcatFacts DEF c5
  <2>2. /\ 0 \in Nat /\ 0 + Len(o) <= Len(c4)
        /\ 6 \in Nat /\ 6 + Len(e) <= Len(c4)
        /\ 12 \in Nat /\ 12 + Len(p) <= Len(c4)
        /\ 14 \in Nat /\ 14 + Len(q) <= Len(c4)
        /\ 18 \in Nat /\ 18 + Len(l) <= Len(c4)
    BY <1>1, <1>2, <1>3, <1>8
  <2>3. InPlace(c5, 0, o) /\ InPlace(c5, 6, e) /\ InPlace(c5, 12, p) /\ InPlace(c5, 14, q) /\ InPlace(c5, 18, l)
    BY <1>1, <1>2, <1>3, <1>8, <2>2, ConcatKeeps DEF c5
  <2> QED
    BY <1>1, <1>2, <1>3, <1>8, <2>1, <2>3
<1> QED
  BY <1>9

LEMMA SlotBytesFacts ==
  ASSUME NEW h \in Header
  PROVE  /\ SlotBytes(h) \in Seq(Byte) /\ Len(SlotBytes(h)) = 4 * h.n
         /\ \A i \in 1..h.n :
              InPlace(SlotBytes(h), 4 * (i - 1), U32(h.allSlots[i]))
<1>1. h.n \in Nat /\ h.allSlots \in Seq(Word) /\ Len(h.allSlots) = h.n
  BY DEF Header, Byte
<1>2. \A i \in 1..h.n : U32(h.allSlots[i]) \in Seq(Byte) /\ Len(U32(h.allSlots[i])) = 4
  BY <1>1, U32Facts
<1>3. ASSUME NEW j \in 1..(4 * h.n)
      PROVE  (j + 3) \div 4 \in 1..h.n /\ 1 + ((j + 3) % 4) \in 1..4
  BY <1>1, SMT
<1>4. ASSUME NEW j \in 1..(4 * h.n)
      PROVE  SlotBytes(h)[j] \in Byte
  <2> DEFINE i == (j + 3) \div 4  k == 1 + ((j + 3) % 4)
  <2>1. i \in 1..h.n /\ k \in 1..4
    BY <1>3
  <2>2. SlotBytes(h)[j] = U32(h.allSlots[i])[k]
    BY DEF SlotBytes
  <2> HIDE DEF i, k
  <2> QED
    BY <1>2, <2>1, <2>2
<1>5. SlotBytes(h) \in Seq(Byte) /\ Len(SlotBytes(h)) = 4 * h.n
  <2> DEFINE N == 4 * h.n
  <2>1. N \in Nat
    BY <1>1
  <2>2. SlotBytes(h) = [j \in 1..N |-> SlotBytes(h)[j]]
    BY DEF SlotBytes
  <2>3. \A j \in 1..N : SlotBytes(h)[j] \in Byte
    BY <1>4
  <2> HIDE DEF N
  <2>4. SlotBytes(h) \in Seq(Byte) /\ Len(SlotBytes(h)) = N
    BY <2>1, <2>2, <2>3
  <2> QED
    BY <2>4 DEF N
<1>6. ASSUME NEW i \in 1..h.n, NEW k \in 1..4
      PROVE  SlotBytes(h)[4 * (i - 1) + k] = U32(h.allSlots[i])[k]
  <2>1. /\ 4 * (i - 1) + k \in 1..(4 * h.n)
        /\ (4 * (i - 1) + k + 3) \div 4 = i
        /\ 1 + ((4 * (i - 1) + k + 3) % 4) = k
    BY <1>1, SMT
  <2> QED
    BY <2>1 DEF SlotBytes
<1> QED
  BY <1>2, <1>5, <1>6 DEF InPlace

LEMMA SerializeFacts ==
  ASSUME NEW h \in Header
  PROVE  /\ Serialize(h) \in Seq(Byte) /\ Len(Serialize(h)) = 28 + 4 * h.n
         /\ InPlace(Serialize(h), 0, FixedBytes(h))
         /\ InPlace(Serialize(h), 24, SlotBytes(h))
         /\ InPlace(Serialize(h), 24 + 4 * h.n, U32(h.currentSlot))
<1> DEFINE f == FixedBytes(h)  t == SlotBytes(h)  c == U32(h.currentSlot)
           ft == f \o t
<1>1. h.n \in Nat /\ h.currentSlot \in Word
  BY DEF Header, Byte
<1>2. /\ f \in Seq(Byte) /\ Len(f) = 24
      /\ t \in Seq(Byte) /\ Len(t) = 4 * h.n
      /\ c \in Seq(Byte) /\ Len(c) = 4
  <2>1. f \in Seq(Byte) /\ Len(f) = 24
    BY FixedFacts
  <2>2. t \in Seq(Byte) /\ Len(t) = 4 * h.n
    BY SlotBytesFacts
  <2>3. c \in Seq(Byte) /\ Len(c) = 4
    BY <1>1, U32Facts
  <2> QED
    BY <2>1, <2>2, <2>3
<1>3. Serialize(h) = ft \o c
  BY DEF Serialize
<1> HIDE DEF f, t, c, ft
<1>4. /\ ft \in Seq(Byte) /\ Len(ft) = Len(f) + Len(t)
      /\ InPlace(ft, 0, f) /\ InPlace(ft, Len(f), t)
  BY <1>2, ConcatFacts DEF ft
<1>5. /\ Serialize(h) \in Seq(Byte) /\ Len(Serialize(h)) = Len(ft) + Len(c)
      /\ InPlace(Serialize(h), Len(ft), c)
  <2>1. /\ ft \o c \in Seq(Byte) /\ Len(ft \o c) = Len(ft) + Len(c)
        /\ InPlace(ft \o c, Len(ft), c)
    BY <1>2, <1>4, ConcatFacts
  <2> QED
    BY <1>3, <2>1
<1>6. 0 \in Nat /\ 0 + Len(f) <= Len(ft) /\ Len(f) \in Nat /\ Len(f) + Len(t) <= Len(ft)
  BY <1>1, <1>2, <1>4
<1>7. InPlace(Serialize(h), 0, f) /\ InPlace(Serialize(h), Len(f), t)
  BY <1>2, <1>3, <1>4, <1>6, ConcatKeeps
<1>8. Len(ft) = 24 + 4 * h.n /\ 24 + 4 * h.n + 4 = 28 + 4 * h.n
  BY <1>1, <1>2, <1>4
<1>9. Len(Serialize(h)) = 28 + 4 * h.n
  <2>1. Len(Serialize(h)) = (24 + 4 * h.n) + 4
    BY <1>2, <1>5, <1>8
  <2> QED
    BY <1>8, <2>1
<1>10. /\ InPlace(Serialize(h), 0, f) /\ InPlace(Serialize(h), 24, t)
       /\ InPlace(Serialize(h), 24 + 4 * h.n, c)
  <2>1. InPlace(Serialize(h), 24 + 4 * h.n, c)
    BY <1>5, <1>8, Zenon
  <2>2. InPlace(Serialize(h), 24, t)
    BY <1>2, <1>7, Zenon
  <2> QED
    BY <1>7, <2>1, <2>2, Zenon
<1> QED
  BY <1>5, <1>9, <1>10 DEF f, t, c

\* Where the fields are in a packet with a header.
LEMMA AddHeaderFacts ==
  ASSUME NEW h \in Header, NEW payload \in Seq(Byte)
  PROVE  LET a == AddHeader(h, payload) IN
         /\ a \in Seq(Byte) /\ Len(a) = 28 + 4 * h.n + Len(payload)
         /\ InPlace(a, 0, Serialize(h))
         /\ InPlace(a, 28 + 4 * h.n, payload)
<1> DEFINE a == AddHeader(h, payload)  w == Serialize(h)
           size == 28 + 4 * h.n  N == size + Len(payload)
<1>1. size \in Nat /\ N \in Nat /\ w \in Seq(Byte) /\ Len(w) = size
  <2>1. h.n \in Nat
    BY DEF Header, Byte
  <2>2. Len(payload) \in Nat
    OBVIOUS
  <2>3. w \in Seq(Byte) /\ Len(w) = size
    BY SerializeFacts, Zenon
  <2> QED
    BY <2>1, <2>2, <2>3
<1>2. GetSerializedSize(h) = size
  BY DEF GetSerializedSize, Header, Byte
<1>3. a = [i \in 1..N |-> IF i <= Len(w) THEN w[i] ELSE payload[i - size]]
  BY <1>2 DEF AddHeader
<1> SUFFICES /\ a \in Seq(Byte) /\ Len(a) = N
             /\ InPlace(a, 0, w) /\ InPlace(a, size, payload)
  OBVIOUS
<1>4. N = size + Len(payload)
  OBVIOUS
<1> HIDE DEF a, w, size, N
<1>5. ASSUME NEW i \in 1..N
      PROVE  a[i] \in Byte
  <2>1. a[i] = IF i <= Len(w) THEN w[i] ELSE payload[i - size]
    BY <1>3
  <2>2. CASE i <= Len(w)
    <3>1. i \in 1..Len(w)
      BY <1>1, <2>2
    <3> QED
      BY <1>1, <2>1, <2>2, <3>1
  <2>3. CASE ~(i <= Len(w))
    <3>1. i - size \in 1..Len(payload)
      BY <1>1, <1>4, <2>3
    <3> QED
      BY <2>1, <2>3, <3>1
  <2> QED
    BY <2>2, <2>3
<1>6. a \in Seq(Byte) /\ Len(a) = N
  BY <1>1, <1>3, <1>5
<1>7. ASSUME NEW i \in 1..Len(w)
      PROVE  a[0 + i] = w[i]
  BY <1>1, <1>3, <1>4
<1>8. ASSUME NEW i \in 1..Len(payload)
      PROVE  a[size + i] = payload[i]
  <2>1. ASSUME NEW j \in 1..N, ~(j <= Len(w))
        PROVE  a[j] = payload[j - size]
    BY <1>3, <2>1
  <2> DEFINE j == size + i
  <2>2. j \in 1..N /\ ~(j <= Len(w)) /\ j - size = i
    BY <1>1, <1>4
  <2> HIDE DEF j
  <2>3. a[j] = payload[i]
    BY <2>1, <2>2
  <2> QED
    BY <2>3 DEF j
<1> QED
  BY <1>6, <1>7, <1>8 DEF InPlace

\* Deserialize reads what Serialize wrote, and the rest is the payload: for every
\* header whose fields fit their width, with any number of slots.
THEOREM HeaderRoundTrip ==
  ASSUME NEW h \in Header, NEW payload \in Seq(Byte)
  PROVE  RemoveHeader(AddHeader(h, payload)) = [header |-> h, rest |-> payload]
<1> DEFINE a == AddHeader(h, payload)  w == Serialize(h)  f == FixedBytes(h)
           t == SlotBytes(h)  size == 28 + 4 * h.n
<1>1. /\ a \in Seq(Byte) /\ Len(a) = size + Len(payload)
      /\ InPlace(a, 0, w) /\ InPlace(a, size, payload)
  BY AddHeaderFacts
<1>2. /\ w \in Seq(Byte) /\ Len(w) = size
      /\ InPlace(w, 0, f) /\ InPlace(w, 24, t)
      /\ InPlace(w, 24 + 4 * h.n, U32(h.currentSlot))
  BY SerializeFacts
<1>3. /\ f \in Seq(Byte) /\ Len(f) = 24
      /\ t \in Seq(Byte) /\ Len(t) = 4 * h.n
  BY FixedFacts, SlotBytesFacts
<1>4. h.n \in Nat /\ size \in Nat /\ size = 28 + 4 * h.n
  BY DEF Header, Byte
<1> SUFFICES RemoveHeader(a) = [header |-> h, rest |-> payload]
  OBVIOUS
<1> HIDE DEF a, w, f, t, size
<1>5. InPlace(a, 0, f) /\ InPlace(a, 24, t) /\ InPlace(a, 24 + 4 * h.n, U32(h.currentSlot))
  <2>0. U32(h.currentSlot) \in Seq(Byte) /\ Len(U32(h.currentSlot)) = 4
    <3>1. h.currentSlot \in Word
      BY DEF Header
    <3> QED
      BY <3>1, U32Facts
  <2>1. /\ 0 \in Nat /\ 24 \in Nat /\ 24 + 4 * h.n \in Nat
        /\ 0 + Len(f) <= Len(w) /\ 24 + Len(t) <= Len(w)
        /\ 24 + 4 * h.n + Len(U32(h.currentSlot)) <= Len(w)
    <3>1. Len(w) = 28 + 4 * h.n /\ Len(f) = 24 /\ Len(t) = 4 * h.n
      BY <1>2, <1>3, <1>4
    <3> QED
      BY <1>4, <2>0, <3>1
  <2>2. ASSUME NEW m \in Nat, NEW u \in Seq(Byte), m + Len(u) <= Len(w), InPlace(w, m, u)
        PROVE  InPlace(a, m, u)
    <3>1. 0 \in Nat /\ 0 + m = m
      OBVIOUS
    <3>2. InPlace(a, 0 + m, u)
      BY <1>1, <1>2, <2>2, <3>1, PlaceInPlace
    <3> QED
      BY <3>1, <3>2
  <2>3. InPlace(a, 0, f) /\ InPlace(a, 24, t)
    BY <1>2, <1>3, <2>1, <2>2
  <2>4. InPlace(a, 24 + 4 * h.n, U32(h.currentSlot))
    BY <1>2, <2>0, <2>1, <2>2
  <2> QED
    BY <2>3, <2>4
<1>6. /\ InPlace(a, 0, h.source) /\ InPlace(a, 6, h.dest)
      /\ InPlace(a, 12, U16(h.protocol)) /\ InPlace(a, 14, U32(h.seqNo))
      /\ InPlace(a, 18, U32(h.length)) /\ InPlace(a, 22, <<h.s, h.n>>)
  <2>1. /\ h.source \in Seq(Byte) /\ h.dest \in Seq(Byte)
        /\ U16(h.protocol) \in Seq(Byte) /\ U32(h.seqNo) \in Seq(Byte)
        /\ U32(h.length) \in Seq(Byte) /\ <<h.s, h.n>> \in Seq(Byte)
        /\ Len(h.source) = 6 /\ Len(h.dest) = 6 /\ Len(U16(h.protocol)) = 2
        /\ Len(U32(h.seqNo)) = 4 /\ Len(U32(h.length)) = 4
        /\ Len(<<h.s, h.n>>) = 2
    BY U16Facts, U32Facts DEF Header, MacAddress
  <2>2. /\ InPlace(f, 0, h.source) /\ InPlace(f, 6, h.dest)
        /\ InPlace(f, 12, U16(h.protocol)) /\ InPlace(f, 14, U32(h.seqNo))
        /\ InPlace(f, 18, U32(h.length)) /\ InPlace(f, 22, <<h.s, h.n>>)
    BY FixedFacts DEF f
  <2>3. ASSUME NEW m \in Nat, NEW u \in Seq(Byte), m + Len(u) <= Len(f), InPlace(f, m, u)
        PROVE  InPlace(a, m, u)
    <3>1. 0 \in Nat /\ 0 + m = m
      OBVIOUS
    <3>2. InPlace(a, 0 + m, u)
      BY <1>3, <1>5, <2>3, <3>1, PlaceInPlace
    <3> QED
      BY <3>1, <3>2
  <2>4. /\ 0 \in Nat /\ 0 + 6 <= 24 /\ 6 \in Nat /\ 6 + 6 <= 24
        /\ 12 \in Nat /\ 12 + 2 <= 24 /\ 14 \in Nat /\ 14 + 4 <= 24
        /\ 18 \in Nat /\ 18 + 4 <= 24 /\ 22 \in Nat /\ 22 + 2 <= 24
    OBVIOUS
  <2>5. InPlace(a, 0, h.source) /\ InPlace(a, 6, h.dest)
    BY <1>3, <2>1, <2>2, <2>3, <2>4
  <2>6. InPlace(a, 12, U16(h.protocol)) /\ InPlace(a, 14, U32(h.seqNo))
    BY <1>3, <2>1, <2>2, <2>3, <2>4
  <2>7. InPlace(a, 18, U32(h.length)) /\ InPlace(a, 22, <<h.s, h.n>>)
    BY <1>3, <2>1, <2>2, <2>3, <2>4
  <2> QED
    BY <2>5, <2>6, <2>7
<1>7. SubSeq(a, 1, 6) = h.source /\ SubSeq(a, 7, 12) = h.dest
  <2>1. /\ h.source \in Seq(Byte) /\ Len(h.source) = 6
        /\ h.dest \in Seq(Byte) /\ Len(h.dest) = 6
    BY DEF Header, MacAddress
  <2>2. Len(a) \in Nat /\ 28 <= Len(a)
    BY <1>1, <1>4
  <2>3. /\ 0 \in Nat /\ 6 \in Nat /\ 0 + Len(h.source) <= Len(a)
        /\ 6 + Len(h.dest) <= Len(a)
    BY <2>1, <2>2
  <2>4. /\ SubSeq(a, 0 + 1, 0 + Len(h.source)) = h.source
        /\ SubSeq(a, 6 + 1, 6 + Len(h.dest)) = h.dest
    BY <1>1, <1>6, <2>1, <2>3, ReadBack
  <2>5. /\ 0 + 1 = 1 /\ 0 + Len(h.source) = 6
        /\ 6 + 1 = 7 /\ 6 + Len(h.dest) = 12
    BY <2>1
  <2> QED
    BY <2>4, <2>5, Zenon
<1>8. /\ GetU16(a, 13) = h.protocol /\ GetU32(a, 15) = h.seqNo
      /\ GetU32(a, 19) = h.length /\ GetU32(a, 25 + 4 * h.n) = h.currentSlot
  <2>1. /\ h.protocol \in Half /\ h.seqNo \in Word /\ h.length \in Word
        /\ h.currentSlot \in Word
    BY DEF Header
  <2>2. /\ 12 \in Nat /\ 14 \in Nat /\ 18 \in Nat /\ 24 + 4 * h.n \in Nat
        /\ 12 + 1 = 13 /\ 14 + 1 = 15 /\ 18 + 1 = 19
        /\ 24 + 4 * h.n + 1 = 25 + 4 * h.n
    BY <1>4
  <2>3. GetU16(a, 12 + 1) = h.protocol
    BY <1>6, <2>1, <2>2, ReadU16
  <2>4. GetU32(a, 14 + 1) = h.seqNo /\ GetU32(a, 18 + 1) = h.length
    BY <1>6, <2>1, <2>2, ReadU32
  <2>5. GetU32(a, 24 + 4 * h.n + 1) = h.currentSlot
    BY <1>5, <2>1, <2>2, ReadU32
  <2> QED
    BY <2>2, <2>3, <2>4, <2>5
<1>9. a[23] = h.s /\ a[24] = h.n
  <2> DEFINE u == <<h.s, h.n>>
  <2>1. Len(u) = 2 /\ u[1] = h.s /\ u[2] = h.n /\ InPlace(a, 22, u)
    BY <1>6
  <2> HIDE DEF u
  <2>2. a[22 + 1] = u[1] /\ a[22 + 2] = u[2]
    BY <2>1 DEF InPlace
  <2> QED
    BY <2>1, <2>2
<1>10. [i \in 1..h.n |-> GetU32(a, 21 + 4 * i)] = h.allSlots
  <2>1. h.allSlots \in Seq(Word) /\ Len(h.allSlots) = h.n
    BY DEF Header
  <2>2. ASSUME NEW i \in 1..h.n
        PROVE  GetU32(a, 21 + 4 * i) = h.allSlots[i]
    <3> DEFINE x == h.allSlots[i]  m == 4 * (i - 1)
    <3>1. x \in Word
      BY <2>1
    <3>2. InPlace(t, m, U32(x))
      BY SlotBytesFacts DEF t
    <3>3. U32(x) \in Seq(Byte) /\ Len(U32(x)) = 4
      BY <3>1, U32Facts
    <3>4. m \in Nat /\ m + Len(U32(x)) <= Len(t) /\ 24 \in Nat
      BY <1>3, <1>4, <3>3
    <3>5. 24 + m \in Nat /\ 24 + m + 1 = 21 + 4 * i
      BY <1>4
    <3> HIDE DEF x, m
    <3>6. InPlace(a, 24 + m, U32(x))
      BY <1>3, <1>5, <3>2, <3>3, <3>4, PlaceInPlace
    <3>7. GetU32(a, 24 + m + 1) = x
      BY <3>1, <3>5, <3>6, ReadU32
    <3> QED
      BY <3>5, <3>7 DEF x
  <2>3. h.allSlots = [i \in 1..h.n |-> h.allSlots[i]]
    BY <2>1, AsFunction, Zenon
  <2>4. [i \in 1..h.n |-> GetU32(a, 21 + 4 * i)] = [i \in 1..h.n |-> h.allSlots[i]]
    BY <2>2
  <2> QED
    BY <2>3, <2>4
<1>11. Deserialize(a) = h
  BY <1>7, <1>8, <1>9, <1>10 DEF Deserialize, Header
<1>12. GetSerializedSize(h) = size
  BY <1>4 DEF GetSerializedSize
<1>13. SubSeq(a, size + 1, Len(a)) = payload
  <2>1. size + Len(payload) <= Len(a)
    BY <1>1, <1>4
  <2>2. SubSeq(a, size + 1, size + Len(payload)) = payload
    BY <1>1, <1>4, <2>1, ReadBack
  <2> QED
    BY <1>1, <2>2
<1> QED
  BY <1>11, <1>12, <1>13 DEF RemoveHeader

-----------------------------------------------------------------------------
(* The packet states of CsaWire *)

\* What the application hands down, and what the queue keeps of it.
Given == [size : Sizes, tid : Tids, time : Nat]
Queued(g) ==
  [size |-> g.size, csa |-> WriteCsaTag([dest |-> Broadcast, protocol |-> Ipv4]),
   sim |-> WriteSimulationTag([tid |-> g.tid, txTime |-> g.time])]

\* The header of the copy of v's i-th packet in slot x.
HeaderOf(v, i, x) ==
  [source |-> Address(v), dest |-> Broadcast, protocol |-> Ipv4,
   seqNo |-> FirstSeqNo + i - 1, length |-> accepted[v][i].size,
   s |-> strategy[v].s, n |-> strategy[v].n, allSlots |-> drawn[v][i],
   currentSlot |-> x]

SimTagOf(v, i) == [tid |-> accepted[v][i].tid, txTime |-> accepted[v][i].time]

\* The size of a fragment of v's i-th packet.
PartSize(v, i) == FragSize(accepted[v][i].size, strategy[v].s)

QueuedPacket == {Queued(g) : g \in Given}
TxCall == [sender : Nat, tid : Tids, time : Nat, node : Nodes]

WireTypes ==
  /\ strategy \in [Nodes -> Strategies]
  /\ seqNo \in [Nodes -> Nat]
  /\ queue \in [Nodes -> Seq(QueuedPacket)]
  /\ accepted \in [Nodes -> Seq(Given)]
  /\ drawn \in [Nodes -> Seq(Seq(Word))]
  /\ txTrace \in Seq(TxCall)

\* The queue q holds what was accepted and is not among the n sent, in order.
Match(q, acc, n) ==
  /\ Len(acc) = n + Len(q)
  /\ \A j \in 1..Len(q) : q[j] = Queued(acc[n + j])

QueueInv(v) ==
  /\ seqNo[v] = FirstSeqNo + Len(drawn[v])
  /\ Len(accepted[v]) <= Len(txTrace)
  /\ Match(queue[v], accepted[v], Len(drawn[v]))
  /\ \A i \in 1..Len(drawn[v]) : Len(drawn[v][i]) = strategy[v].n

\* A fragment on air is a copy of one of the packets sent.
AirInv(f) ==
  /\ f.from \in Nodes /\ f.slot \in Word /\ f.payload \in Seq(Byte)
  /\ \E i \in 1..Len(drawn[f.from]) :
       /\ f.bytes = AddHeader(HeaderOf(f.from, i, f.slot), f.payload)
       /\ f.sim = WriteSimulationTag(SimTagOf(f.from, i))
       /\ Len(f.payload) = PartSize(f.from, i)

\* A state is that of one of the packets sent by another node.
StateInv(r, k) ==
  \E v \in Nodes \ {r} : \E i \in 1..Len(drawn[v]) :
    /\ k = <<Address(v), FirstSeqNo + i - 1>>
    /\ \E x \in Word :
         states[r][k] = PacketState(HeaderOf(v, i, x), SimTagOf(v, i))

WireInv ==
  /\ WireTypes
  /\ Len(txTrace) <= MaxPackets
  /\ DOMAIN states = Nodes
  /\ \A v \in Nodes : QueueInv(v)
  /\ \A f \in air : AirInv(f)
  /\ \A r \in Nodes : \A k \in DOMAIN states[r] : StateInv(r, k)

-----------------------------------------------------------------------------
(* The parts of a header *)

LEMMA AddressFacts ==
  ASSUME NEW v \in Nodes
  PROVE  Address(v) \in MacAddress
<1>1. v \div 256 \in Byte /\ v % 256 \in Byte /\ 0 \in Byte
  BY WireAssumption, SMT DEF Half, Byte
<1> QED
  BY <1>1 DEF Address, MacAddress

LEMMA BroadcastFacts == Broadcast \in MacAddress /\ Ipv4 \in Half
BY SMT DEF Broadcast, MacAddress, Byte, Ipv4, Half

\* The tag Enqueue adds comes back in PrepareHeader.
LEMMA CsaTagRoundTrip ==
  ASSUME NEW d \in MacAddress, NEW p \in Half
  PROVE  ReadCsaTag(WriteCsaTag([dest |-> d, protocol |-> p]))
           = [dest |-> d, protocol |-> p]
<1> DEFINE b == d \o U16(p)
<1>1. d \in Seq(Byte) /\ Len(d) = 6 /\ U16(p) \in Seq(Byte) /\ Len(U16(p)) = 2
  BY U16Facts DEF MacAddress
<1>2. b \in Seq(Byte) /\ Len(b) = 8 /\ InPlace(b, 0, d) /\ InPlace(b, 6, U16(p))
  <2>1. b \in Seq(Byte) /\ Len(b) = Len(d) + Len(U16(p)) /\ InPlace(b, 0, d)
        /\ InPlace(b, Len(d), U16(p))
    BY <1>1, ConcatFacts
  <2> QED
    BY <1>1, <2>1
<1>3. WriteCsaTag([dest |-> d, protocol |-> p]) = b
  BY DEF WriteCsaTag
<1> HIDE DEF b
<1>4. SubSeq(b, 1, 6) = d
  <2>1. 0 \in Nat /\ 0 + Len(d) <= Len(b) /\ 0 + 1 = 1 /\ 0 + Len(d) = 6
    BY <1>1, <1>2
  <2>2. SubSeq(b, 0 + 1, 0 + Len(d)) = d
    BY <1>1, <1>2, <2>1, ReadBack
  <2> QED
    BY <2>1, <2>2
<1>5. GetU16(b, 7) = p
  <2>1. 6 \in Nat /\ 6 + 1 = 7
    OBVIOUS
  <2>2. GetU16(b, 6 + 1) = p
    BY <1>2, <2>1, ReadU16
  <2> QED
    BY <2>1, <2>2
<1> QED
  BY <1>3, <1>4, <1>5 DEF ReadCsaTag

\* The script's tag comes back from its two bytes.
LEMMA SimTagRoundTrip ==
  ASSUME NEW t, NEW x
  PROVE  ReadSimulationTag(WriteSimulationTag([tid |-> t, txTime |-> x]))
           = [tid |-> t, txTime |-> x]
BY DEF ReadSimulationTag, WriteSimulationTag

LEMMA SumBounds ==
  ASSUME NEW n \in Nat, NEW q \in Nat, NEW a, a = n + q
  PROVE  /\ \A i \in 1..n : i \in 1..a
         /\ \A j \in 1..q : n + j \in 1..a
OBVIOUS

\* How long the histories are.
LEMMA Lengths ==
  ASSUME WireInv, NEW v \in Nodes
  PROVE  /\ accepted[v] \in Seq(Given) /\ Len(accepted[v]) \in Nat
         /\ queue[v] \in Seq(QueuedPacket) /\ Len(queue[v]) \in Nat
         /\ drawn[v] \in Seq(Seq(Word)) /\ Len(drawn[v]) \in Nat
         /\ txTrace \in Seq(TxCall) /\ Len(txTrace) \in Nat /\ MaxPackets \in Nat
         /\ Len(accepted[v]) = Len(drawn[v]) + Len(queue[v])
         /\ Len(accepted[v]) <= Len(txTrace) /\ Len(txTrace) <= MaxPackets
         /\ \A i \in 1..Len(drawn[v]) : i \in 1..Len(accepted[v])
<1>1. /\ accepted[v] \in Seq(Given) /\ queue[v] \in Seq(QueuedPacket)
      /\ drawn[v] \in Seq(Seq(Word)) /\ txTrace \in Seq(TxCall)
  BY DEF WireInv, WireTypes
<1>2. /\ Len(accepted[v]) \in Nat /\ Len(queue[v]) \in Nat
      /\ Len(drawn[v]) \in Nat /\ Len(txTrace) \in Nat /\ MaxPackets \in Nat
  BY <1>1, WireAssumption
<1>3. /\ Len(accepted[v]) = Len(drawn[v]) + Len(queue[v])
      /\ Len(accepted[v]) <= Len(txTrace) /\ Len(txTrace) <= MaxPackets
  BY DEF WireInv, QueueInv, Match
<1>4. \A i \in 1..Len(drawn[v]) : i \in 1..Len(accepted[v])
  BY <1>2, <1>3, SumBounds
<1> QED
  BY <1>1, <1>2, <1>3, <1>4

LEMMA AppendFacts ==
  ASSUME NEW S, NEW s \in Seq(S), NEW x \in S
  PROVE  /\ Append(s, x) \in Seq(S) /\ Len(Append(s, x)) = Len(s) + 1
         /\ Append(s, x)[Len(s) + 1] = x
         /\ \A i \in 1..Len(s) : Append(s, x)[i] = s[i]
OBVIOUS

\* Every field of a packet's header fits its width.
LEMMA HeaderFits ==
  ASSUME WireInv, NEW v \in Nodes, NEW i \in 1..Len(drawn[v]), NEW x \in Word
  PROVE  HeaderOf(v, i, x) \in Header
<1>1. /\ strategy[v].s \in Byte /\ strategy[v].n \in Byte
  BY WireAssumption DEF WireInv, WireTypes
<1>2. drawn[v] \in Seq(Seq(Word)) /\ accepted[v] \in Seq(Given)
  BY Lengths
<1>3. Len(drawn[v][i]) = strategy[v].n
  BY DEF WireInv, QueueInv
<1>4. i \in 1..Len(accepted[v]) /\ i \in Nat /\ 1 <= i /\ i <= MaxPackets
  <2>1. i \in 1..Len(accepted[v])
    BY Lengths
  <2>2. /\ Len(accepted[v]) \in Nat /\ Len(txTrace) \in Nat /\ MaxPackets \in Nat
        /\ Len(accepted[v]) <= Len(txTrace) /\ Len(txTrace) <= MaxPackets
    BY Lengths
  <2> QED
    BY <2>1, <2>2
<1>5. drawn[v][i] \in Seq(Word) /\ accepted[v][i] \in Given
  BY <1>2, <1>4
<1>6. accepted[v][i].size \in Word
  BY <1>5, WireAssumption DEF Given
<1>7. FirstSeqNo + i - 1 \in Word
  <2>1. i \in Nat /\ 1 <= i /\ i <= MaxPackets /\ FirstSeqNo \in Nat /\ MaxPackets \in Nat
    BY <1>4, WireAssumption
  <2> DEFINE a == FirstSeqNo + i - 1  c == FirstSeqNo + MaxPackets
  <2>2. a \in Nat /\ c \in Nat /\ a <= c
    BY <2>1
  <2>3. c \div 65536 < 65536
    BY WireAssumption, SMT DEF Word
  <2> HIDE DEF a, c
  <2>4. a \div 65536 < 65536
    BY <2>2, <2>3, SMT
  <2> QED
    BY <2>2, <2>4, SMT DEF a, Word
<1> QED
  BY <1>1, <1>3, <1>5, <1>6, <1>7, AddressFacts, BroadcastFacts DEF HeaderOf, Header

\* What Receive takes off a fragment on air.
LEMMA FragmentReads ==
  ASSUME WireInv, NEW f \in air
  PROVE  /\ f.from \in Nodes /\ f.slot \in Word
         /\ \E i \in 1..Len(drawn[f.from]) :
              /\ RemoveHeader(f.bytes) = [header |-> HeaderOf(f.from, i, f.slot),
                                          rest |-> f.payload]
              /\ ReadSimulationTag(f.sim) = SimTagOf(f.from, i)
              /\ Len(f.payload) = PartSize(f.from, i)
<1>1. AirInv(f)
  BY DEF WireInv
<1>2. f.from \in Nodes /\ f.slot \in Word /\ f.payload \in Seq(Byte)
  BY <1>1 DEF AirInv
<1>3. PICK i \in 1..Len(drawn[f.from]) :
        /\ f.bytes = AddHeader(HeaderOf(f.from, i, f.slot), f.payload)
        /\ f.sim = WriteSimulationTag(SimTagOf(f.from, i))
        /\ Len(f.payload) = PartSize(f.from, i)
  BY <1>1 DEF AirInv
<1>4. HeaderOf(f.from, i, f.slot) \in Header
  BY <1>2, HeaderFits
<1>5. RemoveHeader(f.bytes) = [header |-> HeaderOf(f.from, i, f.slot), rest |-> f.payload]
  BY <1>2, <1>3, <1>4, HeaderRoundTrip
<1>6. ReadSimulationTag(f.sim) = SimTagOf(f.from, i)
  BY <1>3, SimTagRoundTrip DEF SimTagOf
<1> QED
  BY <1>2, <1>3, <1>5, <1>6

LEMMA MatchAppend ==
  ASSUME NEW acc \in Seq(Given), NEW q \in Seq(QueuedPacket), NEW n \in Nat,
         Match(q, acc, n), NEW g \in Given
  PROVE  Match(Append(q, Queued(g)), Append(acc, g), n)
<1> DEFINE q2 == Append(q, Queued(g))  acc2 == Append(acc, g)
<1>1. Queued(g) \in QueuedPacket
  BY DEF QueuedPacket
<1>2. /\ Len(q2) = Len(q) + 1 /\ q2[Len(q) + 1] = Queued(g)
      /\ \A j \in 1..Len(q) : q2[j] = q[j]
  BY <1>1, AppendFacts
<1>3. /\ Len(acc2) = Len(acc) + 1 /\ acc2[Len(acc) + 1] = g
      /\ \A j \in 1..Len(acc) : acc2[j] = acc[j]
  BY AppendFacts
<1>4. /\ Len(q) \in Nat /\ Len(acc) = n + Len(q)
      /\ \A j \in 1..Len(q) : q[j] = Queued(acc[n + j])
  BY DEF Match
<1> HIDE DEF q2, acc2
<1>5. ASSUME NEW j \in 1..Len(q2)
      PROVE  q2[j] = Queued(acc2[n + j])
  <2>1. CASE j \in 1..Len(q)
    <3>1. n + j \in 1..Len(acc)
      BY <1>4, <2>1
    <3> QED
      BY <1>2, <1>3, <1>4, <2>1, <3>1
  <2>2. CASE j = Len(q) + 1
    <3>1. n + j = Len(acc) + 1
      BY <1>4, <2>2
    <3> QED
      BY <1>2, <1>3, <2>2, <3>1
  <2> QED
    BY <1>2, <1>4, <2>1, <2>2
<1>6. Len(acc2) = n + Len(q2)
  BY <1>2, <1>3, <1>4
<1> QED
  BY <1>5, <1>6 DEF Match, q2, acc2

LEMMA MatchTail ==
  ASSUME NEW acc \in Seq(Given), NEW q \in Seq(QueuedPacket), NEW n \in Nat,
         Match(q, acc, n), q # <<>>
  PROVE  /\ Match(Tail(q), acc, n + 1)
         /\ Head(q) = Queued(acc[n + 1]) /\ n + 1 \in 1..Len(acc)
<1>1. /\ Len(q) \in Nat /\ Len(acc) = n + Len(q) /\ 1 \in 1..Len(q)
      /\ \A j \in 1..Len(q) : q[j] = Queued(acc[n + j])
  BY DEF Match
<1>2. /\ Tail(q) \in Seq(QueuedPacket) /\ Len(Tail(q)) = Len(q) - 1
      /\ \A j \in 1..Len(Tail(q)) : Tail(q)[j] = q[j + 1]
      /\ Head(q) = q[1]
  OBVIOUS
<1>3. ASSUME NEW j \in 1..Len(Tail(q))
      PROVE  Tail(q)[j] = Queued(acc[n + 1 + j])
  <2>1. j + 1 \in 1..Len(q) /\ n + (j + 1) = n + 1 + j
    BY <1>1, <1>2
  <2>2. q[j + 1] = Queued(acc[n + (j + 1)])
    BY <1>1, <2>1
  <2> QED
    BY <1>2, <2>1, <2>2
<1>4. Len(acc) = n + 1 + Len(Tail(q)) /\ n + 1 \in 1..Len(acc)
  BY <1>1, <1>2
<1> QED
  BY <1>1, <1>2, <1>3, <1>4 DEF Match

-----------------------------------------------------------------------------
(* Keeping WireInv *)

\* What was accepted and drawn for the packets sent does not change any more.
HistoryKept ==
  /\ strategy' = strategy
  /\ \A v \in Nodes : \A i \in 1..Len(drawn[v]) :
       /\ i \in 1..Len(drawn'[v]) /\ drawn'[v][i] = drawn[v][i]
       /\ accepted'[v][i] = accepted[v][i]

LEMMA PacketKept ==
  ASSUME HistoryKept, NEW v \in Nodes, NEW i \in 1..Len(drawn[v]), NEW x
  PROVE  /\ HeaderOf(v, i, x)' = HeaderOf(v, i, x) /\ SimTagOf(v, i)' = SimTagOf(v, i)
         /\ PartSize(v, i)' = PartSize(v, i)
BY DEF HistoryKept, HeaderOf, SimTagOf, PartSize

LEMMA FragmentKept ==
  ASSUME HistoryKept, NEW f, AirInv(f)
  PROVE  AirInv(f)'
<1>1. /\ f.from \in Nodes /\ f.slot \in Word /\ f.payload \in Seq(Byte)
  BY DEF AirInv
<1>2. PICK i \in 1..Len(drawn[f.from]) :
        /\ f.bytes = AddHeader(HeaderOf(f.from, i, f.slot), f.payload)
        /\ f.sim = WriteSimulationTag(SimTagOf(f.from, i))
        /\ Len(f.payload) = PartSize(f.from, i)
  BY DEF AirInv
<1>3. i \in 1..Len(drawn'[f.from])
  BY <1>1 DEF HistoryKept
<1>4. /\ HeaderOf(f.from, i, f.slot)' = HeaderOf(f.from, i, f.slot)
      /\ SimTagOf(f.from, i)' = SimTagOf(f.from, i)
      /\ PartSize(f.from, i)' = PartSize(f.from, i)
  BY <1>1, PacketKept
<1> QED
  BY <1>1, <1>2, <1>3, <1>4 DEF AirInv

LEMMA StateKept ==
  ASSUME HistoryKept, NEW r, NEW k, StateInv(r, k), states'[r][k] = states[r][k]
  PROVE  StateInv(r, k)'
<1>1. PICK v \in Nodes \ {r} : \E i \in 1..Len(drawn[v]) :
        /\ k = <<Address(v), FirstSeqNo + i - 1>>
        /\ \E x \in Word :
             states[r][k] = PacketState(HeaderOf(v, i, x), SimTagOf(v, i))
  BY DEF StateInv
<1>2. PICK i \in 1..Len(drawn[v]), x \in Word :
        /\ k = <<Address(v), FirstSeqNo + i - 1>>
        /\ states[r][k] = PacketState(HeaderOf(v, i, x), SimTagOf(v, i))
  BY <1>1
<1>3. i \in 1..Len(drawn'[v])
  BY DEF HistoryKept
<1>4. HeaderOf(v, i, x)' = HeaderOf(v, i, x) /\ SimTagOf(v, i)' = SimTagOf(v, i)
  BY PacketKept
<1> QED
  BY <1>2, <1>3, <1>4 DEF StateInv

LEMMA WireInit == Init => WireInv
<1> SUFFICES ASSUME Init PROVE WireInv
  OBVIOUS
<1>1. WireTypes
  BY WireAssumption DEF Init, WireTypes
<1>2. Len(txTrace) <= MaxPackets /\ DOMAIN states = Nodes
  BY WireAssumption DEF Init
<1>3. \A v \in Nodes : QueueInv(v)
  BY WireAssumption DEF Init, QueueInv, Match
<1>4. /\ \A f \in air : AirInv(f)
      /\ \A r \in Nodes : \A k \in DOMAIN states[r] : StateInv(r, k)
  BY DEF Init
<1> QED
  BY <1>1, <1>2, <1>3, <1>4 DEF WireInv

\* Enqueue puts what it traced at the end of the queue.
LEMMA EnqueueKeepsInv ==
  ASSUME WireInv, NEW v \in Nodes, NEW t \in Tids, NEW size \in Sizes,
         Enqueue(v, t, size)
  PROVE  WireInv'
<1> DEFINE g == [size |-> size, tid |-> t, time |-> Now]
           c == [sender |-> SenderId(Address(v)), tid |-> t, time |-> Now, node |-> v]
<1>1. /\ strategy \in [Nodes -> Strategies] /\ seqNo \in [Nodes -> Nat]
      /\ queue \in [Nodes -> Seq(QueuedPacket)]
      /\ accepted \in [Nodes -> Seq(Given)]
      /\ drawn \in [Nodes -> Seq(Seq(Word))]
      /\ txTrace \in Seq(TxCall)
      /\ Len(txTrace) \in Nat
  BY DEF WireInv, WireTypes
<1>2. g \in Given /\ Queued(g) \in QueuedPacket
  BY <1>1 DEF Now, Given, QueuedPacket
<1>3. c \in TxCall
  <2>1. Address(v)[5] \in Nat /\ Address(v)[6] \in Nat
    <3>1. Address(v)[5] = v \div 256 /\ Address(v)[6] = v % 256
      BY SMT DEF Address
    <3>2. v \div 256 \in Nat /\ v % 256 \in Nat
      BY WireAssumption, SMT DEF Half
    <3> QED
      BY <3>1, <3>2
  <2>2. SenderId(Address(v)) \in Nat
    BY <2>1 DEF SenderId
  <2> QED
    BY <1>1, <2>2 DEF Now, TxCall
<1>4. /\ Len(txTrace) < MaxPackets /\ txTrace' = Append(txTrace, c)
      /\ UNCHANGED <<strategy, seqNo, states, drawn, air>>
  BY SimTagRoundTrip DEF Enqueue, Now
<1>5. \/ UNCHANGED <<queue, accepted>>
      \/ /\ queue' = [queue EXCEPT ![v] = Append(@, Queued(g))]
         /\ accepted' = [accepted EXCEPT ![v] = Append(@, g)]
  BY SimTagRoundTrip DEF Enqueue, Now, Queued
<1> HIDE DEF g, c
<1>6. txTrace' \in Seq(TxCall)
      /\ Len(txTrace') = Len(txTrace) + 1
  BY <1>1, <1>3, <1>4, AppendFacts
<1>7. WireTypes'
  <2>1. /\ queue' \in [Nodes -> Seq(QueuedPacket)]
        /\ accepted' \in [Nodes -> Seq(Given)]
    <3>1. /\ queue[v] \in Seq(QueuedPacket) /\ accepted[v] \in Seq(Given)
      BY <1>1
    <3>2. /\ Append(queue[v], Queued(g)) \in Seq(QueuedPacket)
          /\ Append(accepted[v], g) \in Seq(Given)
      BY <1>2, <3>1, AppendFacts
    <3> QED
      BY <1>1, <1>5, <3>2
  <2> QED
    BY <1>1, <1>4, <1>6, <2>1 DEF WireTypes
<1>8. \A w \in Nodes : QueueInv(w)'
  <2> SUFFICES ASSUME NEW w \in Nodes PROVE QueueInv(w)'
    OBVIOUS
  <2>1. QueueInv(w)
    BY DEF WireInv
  <2>2. /\ accepted[w] \in Seq(Given) /\ queue[w] \in Seq(QueuedPacket)
        /\ Len(drawn[w]) \in Nat /\ Len(accepted[w]) \in Nat
        /\ Len(accepted[w]) <= Len(txTrace) /\ Len(txTrace) \in Nat
    BY Lengths
  <2>3. Match(queue[w], accepted[w], Len(drawn[w]))
    BY <2>1 DEF QueueInv
  <2>4. CASE queue'[w] = queue[w] /\ accepted'[w] = accepted[w]
    <3>1. Len(accepted[w]) <= Len(txTrace) + 1
      BY <2>2
    <3> QED
      BY <1>4, <1>6, <2>1, <2>4, <3>1 DEF QueueInv
  <2>5. CASE queue'[w] = Append(queue[w], Queued(g)) /\ accepted'[w] = Append(accepted[w], g)
    <3>1. Match(queue'[w], accepted'[w], Len(drawn[w]))
      BY <1>2, <2>2, <2>3, <2>5, MatchAppend
    <3>2. Len(accepted'[w]) = Len(accepted[w]) + 1
      BY <1>2, <2>2, <2>5, AppendFacts
    <3>3. Len(accepted[w]) + 1 <= Len(txTrace) + 1
      BY <2>2
    <3> QED
      BY <1>4, <1>6, <2>1, <3>1, <3>2, <3>3 DEF QueueInv
  <2> QED
    BY <1>1, <1>5, <2>4, <2>5
<1>9. HistoryKept
  <2> SUFFICES ASSUME NEW w \in Nodes, NEW i \in 1..Len(drawn[w])
               PROVE  accepted'[w][i] = accepted[w][i]
    BY <1>4 DEF HistoryKept
  <2>1. accepted[w] \in Seq(Given) /\ i \in 1..Len(accepted[w])
    BY Lengths
  <2>2. accepted'[w] = accepted[w] \/ accepted'[w] = Append(accepted[w], g)
    BY <1>1, <1>5
  <2> QED
    BY <1>2, <2>1, <2>2, AppendFacts
<1>10. \A f \in air' : AirInv(f)'
  BY <1>4, <1>9, FragmentKept DEF WireInv
<1>11. \A r \in Nodes : \A k \in DOMAIN states'[r] : StateInv(r, k)'
  BY <1>4, <1>9, StateKept DEF WireInv
<1>12. Len(txTrace') <= MaxPackets /\ DOMAIN states' = Nodes
  BY <1>1, <1>4, <1>6, WireAssumption DEF WireInv
<1> QED
  BY <1>7, <1>8, <1>10, <1>11, <1>12 DEF WireInv

\* The header SendPacket gives the copies of the next packet.
LEMMA PrepareHeaderFacts ==
  ASSUME WireInv, NEW v \in Nodes, queue[v] # <<>>, NEW s,
         drawn'[v] = Append(drawn[v], s), s \in Seq(Word),
         strategy' = strategy, accepted' = accepted, NEW i, i = Len(drawn[v]) + 1
  PROVE  /\ PrepareHeader(v, Head(queue[v]), s) = HeaderOf(v, i, 0)'
         /\ ReadSimulationTag(Head(queue[v]).sim) = SimTagOf(v, i)'
         /\ Head(queue[v]).size \in Nat
         /\ Head(queue[v]).size = accepted'[v][i].size
<1> DEFINE p == Head(queue[v])  g == accepted[v][i]
<1>1. /\ accepted[v] \in Seq(Given) /\ queue[v] \in Seq(QueuedPacket)
      /\ drawn[v] \in Seq(Seq(Word)) /\ Len(drawn[v]) \in Nat
  BY Lengths
<1>2. seqNo[v] = FirstSeqNo + Len(drawn[v]) /\ Match(queue[v], accepted[v], Len(drawn[v]))
  BY DEF WireInv, QueueInv
<1>3. p = Queued(g) /\ i \in 1..Len(accepted[v])
  BY <1>1, <1>2, MatchTail
<1>4. g \in Given
  BY <1>1, <1>3
<1>5. drawn'[v][i] = s
  BY <1>1, AppendFacts
<1>6. seqNo[v] = FirstSeqNo + i - 1
  BY <1>1, <1>2, WireAssumption
<1> HIDE DEF p, g
<1>7. ReadCsaTag(p.csa) = [dest |-> Broadcast, protocol |-> Ipv4]
  BY <1>3, CsaTagRoundTrip, BroadcastFacts DEF Queued
<1>8. p.size = g.size /\ ReadSimulationTag(p.sim) = [tid |-> g.tid, txTime |-> g.time]
  BY <1>3, SimTagRoundTrip DEF Queued
<1>9. PrepareHeader(v, p, s) = HeaderOf(v, i, 0)'
  BY <1>5, <1>6, <1>7, <1>8 DEF PrepareHeader, HeaderOf, g
<1>10. ReadSimulationTag(p.sim) = SimTagOf(v, i)'
  BY <1>8 DEF SimTagOf, g
<1>11. p.size \in Nat
  <2>1. g.size \in Word
    BY <1>4, WireAssumption DEF Given
  <2> QED
    BY <1>8, <2>1 DEF Word
<1> QED
  BY <1>8, <1>9, <1>10, <1>11 DEF p, g

\* SendPacket takes the oldest packet off the queue and puts its copies on air.
LEMMA SendPacketKeepsInv ==
  ASSUME WireInv, NEW v \in Nodes, SendPacket(v)
  PROVE  WireInv'
<1> DEFINE n == Len(drawn[v])  p == Head(queue[v])
<1>1. PICK s \in Draws :
        /\ Len(s) = strategy[v].n
        /\ air' = air \cup Fragments(v, p, PrepareHeader(v, p, s))
        /\ drawn' = [drawn EXCEPT ![v] = Append(@, s)]
  BY DEF SendPacket
<1>2. /\ queue[v] # <<>> /\ queue' = [queue EXCEPT ![v] = Tail(@)]
      /\ seqNo' = [seqNo EXCEPT ![v] = @ + 1]
      /\ UNCHANGED <<strategy, states, txTrace, accepted>>
  BY DEF SendPacket
<1>3. s \in Seq(Word)
  BY WireAssumption
<1>4. /\ strategy \in [Nodes -> Strategies] /\ seqNo \in [Nodes -> Nat]
      /\ queue \in [Nodes -> Seq(QueuedPacket)]
      /\ drawn \in [Nodes -> Seq(Seq(Word))]
  BY DEF WireInv, WireTypes
<1>5. drawn'[v] = Append(drawn[v], s) /\ \A w \in Nodes \ {v} : drawn'[w] = drawn[w]
  BY <1>1, <1>4
<1>6. /\ drawn'[v] \in Seq(Seq(Word)) /\ Len(drawn'[v]) = n + 1
      /\ drawn'[v][n + 1] = s /\ n \in Nat
      /\ \A i \in 1..n : drawn'[v][i] = drawn[v][i]
  BY <1>3, <1>4, <1>5, AppendFacts
<1>7. WireTypes'
  <2>1. drawn' \in [Nodes -> Seq(Seq(Word))]
    BY <1>1, <1>4, <1>5, <1>6
  <2>2. queue' \in [Nodes -> Seq(QueuedPacket)]
    BY <1>2, <1>4
  <2>3. seqNo' \in [Nodes -> Nat]
    BY <1>2, <1>4
  <2> QED
    BY <1>2, <2>1, <2>2, <2>3 DEF WireInv, WireTypes
<1>8. \A w \in Nodes : QueueInv(w)'
  <2> SUFFICES ASSUME NEW w \in Nodes PROVE QueueInv(w)'
    OBVIOUS
  <2>1. QueueInv(w)
    BY DEF WireInv
  <2>2. CASE w # v
    BY <1>2, <1>4, <1>5, <2>1, <2>2 DEF QueueInv
  <2>3. CASE w = v
    <3>1. /\ accepted[v] \in Seq(Given) /\ queue[v] \in Seq(QueuedPacket)
      BY Lengths
    <3>2. Match(queue'[v], accepted[v], n + 1)
      BY <1>2, <1>4, <1>6, <2>1, <2>3, <3>1, MatchTail DEF QueueInv
    <3>3. seqNo'[v] = FirstSeqNo + (n + 1)
      BY <1>2, <1>4, <1>6, <2>1, <2>3, WireAssumption DEF QueueInv
    <3>4. ASSUME NEW i \in 1..(n + 1)
          PROVE  Len(drawn'[v][i]) = strategy[v].n
      <4>1. CASE i \in 1..n
        BY <1>6, <2>1, <2>3, <4>1 DEF QueueInv
      <4>2. CASE i = n + 1
        BY <1>1, <1>6, <4>2
      <4> QED
        BY <1>6, <4>1, <4>2
    <3> HIDE DEF n
    <3> QED
      BY <1>2, <1>6, <2>1, <2>3, <3>2, <3>3, <3>4 DEF QueueInv
  <2> QED
    BY <2>2, <2>3
<1>9. HistoryKept
  <2> SUFFICES ASSUME NEW w \in Nodes, NEW i \in 1..Len(drawn[w])
               PROVE  i \in 1..Len(drawn'[w]) /\ drawn'[w][i] = drawn[w][i]
    BY <1>2 DEF HistoryKept
  <2>1. CASE w # v
    BY <1>5, <2>1
  <2>2. CASE w = v
    <3>1. i \in 1..n
      BY <2>2
    <3> HIDE DEF n
    <3> QED
      BY <1>6, <2>2, <3>1
  <2> QED
    BY <2>1, <2>2
<1>10. ASSUME NEW f \in Fragments(v, p, PrepareHeader(v, p, s))
       PROVE  AirInv(f)'
  <2> DEFINE h == PrepareHeader(v, p, s)  base == Zeros(FragSize(p.size, strategy[v].s))
  <2>1. PICK j \in 1..h.n :
          f = [from |-> v, slot |-> h.allSlots[j], payload |-> base,
               sim |-> WriteSimulationTag(ReadSimulationTag(p.sim)),
               bytes |-> AddHeader([h EXCEPT !.currentSlot = h.allSlots[j]], base)]
    BY DEF Fragments
  <2>2. h.n = strategy[v].n /\ h.allSlots = s
    BY DEF PrepareHeader
  <2>3. s[j] \in Word
    BY <1>1, <1>3, <2>1, <2>2
  <2>4. PICK i : i = n + 1
    OBVIOUS
  <2>5. /\ [h EXCEPT !.currentSlot = s[j]] = HeaderOf(v, i, s[j])'
        /\ ReadSimulationTag(p.sim) = SimTagOf(v, i)'
        /\ p.size \in Nat
    <3>1. /\ queue[v] # <<>> /\ drawn'[v] = Append(drawn[v], s) /\ s \in Seq(Word)
          /\ strategy' = strategy /\ accepted' = accepted /\ i = Len(drawn[v]) + 1
      BY <1>2, <1>3, <1>5, <2>4
    <3>2. ReadSimulationTag(p.sim) = SimTagOf(v, i)'
      BY <3>1, PrepareHeaderFacts
    <3>3. p.size \in Nat
      BY <3>1, PrepareHeaderFacts
    <3>4. [h EXCEPT !.currentSlot = s[j]] = HeaderOf(v, i, s[j])'
      <4>1. h = HeaderOf(v, i, 0)'
        BY <3>1, PrepareHeaderFacts
      <4>2. [HeaderOf(v, i, 0)' EXCEPT !.currentSlot = s[j]] = HeaderOf(v, i, s[j])'
        BY DEF HeaderOf
      <4> HIDE DEF h
      <4> QED
        BY <4>1, <4>2
    <3> QED
      BY <3>2, <3>3, <3>4
  <2>6. base \in Seq(Byte) /\ Len(base) = PartSize(v, i)'
    <3> DEFINE z == strategy[v].s  size == p.size
    <3>1. z \in Nat /\ z > 0 /\ size \in Nat
      BY <1>4, <2>5, WireAssumption DEF Byte
    <3> HIDE DEF z, size
    <3>2. size \div z \in Nat
      BY <3>1
    <3>3. FragSize(size, z) \in Nat
      BY <3>2 DEF FragSize
    <3>4. 0 \in Byte
      BY DEF Byte
    <3>5. /\ Zeros(FragSize(size, z)) \in Seq(Byte)
          /\ Len(Zeros(FragSize(size, z))) = FragSize(size, z)
      BY <3>3, <3>4 DEF Zeros
    <3>6. p.size = accepted'[v][i].size
      <4>1. /\ queue[v] # <<>> /\ drawn'[v] = Append(drawn[v], s) /\ s \in Seq(Word)
            /\ strategy' = strategy /\ accepted' = accepted /\ i = Len(drawn[v]) + 1
        BY <1>2, <1>3, <1>5, <2>4
      <4> QED
        BY <4>1, PrepareHeaderFacts
    <3> QED
      BY <1>2, <3>5, <3>6 DEF z, size, PartSize
  <2>7. i \in 1..Len(drawn'[v])
    BY <1>6, <2>4
  <2> HIDE DEF h, base, n, p
  <2>8. /\ f.from = v /\ f.slot = s[j] /\ f.payload = base
        /\ f.sim = WriteSimulationTag(SimTagOf(v, i)')
        /\ f.bytes = AddHeader(HeaderOf(v, i, s[j])', base)
    BY <2>1, <2>2, <2>5
  <2> QED
    BY <2>3, <2>6, <2>7, <2>8 DEF AirInv
<1>11. \A f \in air' : AirInv(f)'
  BY <1>1, <1>9, <1>10, FragmentKept DEF WireInv
<1>12. \A r \in Nodes : \A k \in DOMAIN states'[r] : StateInv(r, k)'
  BY <1>2, <1>9, StateKept DEF WireInv
<1>13. Len(txTrace') <= MaxPackets /\ DOMAIN states' = Nodes
  BY <1>2 DEF WireInv
<1> QED
  BY <1>7, <1>8, <1>11, <1>12, <1>13 DEF WireInv

\* Receive makes a state from the header and tag of the fragment at hand.
LEMMA ReceiveKeepsInv ==
  ASSUME WireInv, NEW r \in Nodes, NEW f \in air, Receive(r, f)
  PROVE  WireInv'
<1> DEFINE header == RemoveHeader(f.bytes).header  k == Key(header)
           state == PacketState(header, ReadSimulationTag(f.sim))
<1>1. /\ f.from # r
      /\ UNCHANGED <<strategy, queue, seqNo, txTrace, accepted, drawn, air>>
  BY DEF Receive
<1>2. \/ states' = states
      \/ states' = [states EXCEPT ![r] =
             [l \in DOMAIN @ \cup {k} |-> IF l = k THEN state ELSE @[l]]]
  BY DEF Receive
<1>3. PICK i \in 1..Len(drawn[f.from]) :
        /\ RemoveHeader(f.bytes) = [header |-> HeaderOf(f.from, i, f.slot),
                                    rest |-> f.payload]
        /\ ReadSimulationTag(f.sim) = SimTagOf(f.from, i)
  BY FragmentReads
<1>4. f.from \in Nodes \ {r} /\ f.slot \in Word
  BY <1>1, FragmentReads
<1>5. HistoryKept
  BY <1>1 DEF HistoryKept
<1>6. /\ header = HeaderOf(f.from, i, f.slot)
      /\ k = <<Address(f.from), FirstSeqNo + i - 1>>
      /\ state = PacketState(HeaderOf(f.from, i, f.slot), SimTagOf(f.from, i))
  BY <1>3 DEF Key, HeaderOf
<1> HIDE DEF header, k, state
<1>7. i \in 1..Len(drawn'[f.from])
  BY <1>1
<1>8. state = PacketState(HeaderOf(f.from, i, f.slot)', SimTagOf(f.from, i)')
  BY <1>4, <1>5, <1>6, PacketKept
<1>9. DOMAIN states = Nodes
  BY DEF WireInv
<1>10. ASSUME NEW q \in Nodes, NEW l \in DOMAIN states'[q]
       PROVE  StateInv(q, l)'
  <2>1. CASE l \in DOMAIN states[q] /\ states'[q][l] = states[q][l]
    BY <1>5, <2>1, StateKept DEF WireInv
  <2>2. CASE q = r /\ l = k /\ states'[q][l] = state
    BY <1>4, <1>6, <1>7, <1>8, <2>2 DEF StateInv
  <2>3. CASE states' = states
    BY <2>1, <2>3
  <2>4. CASE states' = [states EXCEPT ![r] =
             [m \in DOMAIN @ \cup {k} |-> IF m = k THEN state ELSE @[m]]]
    <3>1. CASE q # r
      BY <1>9, <2>1, <2>4, <3>1
    <3>2. CASE q = r
      <4>1. states'[q] = [m \in DOMAIN states[r] \cup {k} |->
                            IF m = k THEN state ELSE states[r][m]]
        BY <1>9, <2>4, <3>2
      <4>2. l \in DOMAIN states[r] \cup {k}
        BY <4>1
      <4> QED
        BY <2>1, <2>2, <3>2, <4>1, <4>2
    <3> QED
      BY <3>1, <3>2
  <2> QED
    BY <1>2, <2>3, <2>4
<1>11. \A g \in air' : AirInv(g)'
  BY <1>1, <1>5, FragmentKept DEF WireInv
<1>12. WireTypes' /\ \A w \in Nodes : QueueInv(w)'
  BY <1>1 DEF WireInv, WireTypes, QueueInv
<1>13. Len(txTrace') <= MaxPackets /\ DOMAIN states' = Nodes
  BY <1>1, <1>2, <1>9 DEF WireInv
<1> QED
  BY <1>10, <1>11, <1>12, <1>13 DEF WireInv

\* Neither ForwardUp nor a stutter touches what WireInv speaks of.
LEMMA UnchangedKeepsInv ==
  ASSUME WireInv,
         UNCHANGED <<strategy, queue, seqNo, states, txTrace, accepted, drawn, air>>
  PROVE  WireInv'
<1>1. HistoryKept
  BY DEF HistoryKept
<1>2. \A f \in air' : AirInv(f)'
  BY <1>1, FragmentKept DEF WireInv
<1>3. \A r \in Nodes : \A k \in DOMAIN states'[r] : StateInv(r, k)'
  BY <1>1, StateKept DEF WireInv
<1>4. WireTypes' /\ \A w \in Nodes : QueueInv(w)'
  BY DEF WireInv, WireTypes, QueueInv
<1> QED
  BY <1>2, <1>3, <1>4 DEF WireInv

THEOREM WireInvHolds == Spec => []WireInv
<1>1. Init => WireInv
  BY WireInit
<1>2. WireInv /\ [Next]_vars => WireInv'
  <2> SUFFICES ASSUME WireInv, [Next]_vars PROVE WireInv'
    OBVIOUS
  <2>1. CASE \E v \in Nodes, t \in Tids, size \in Sizes : Enqueue(v, t, size)
    BY <2>1, EnqueueKeepsInv
  <2>2. CASE \E v \in Nodes : SendPacket(v)
    BY <2>2, SendPacketKeepsInv
  <2>3. CASE \E r \in Nodes, f \in air : Receive(r, f)
    BY <2>3, ReceiveKeepsInv
  <2>4. CASE \E r \in Nodes : \E k \in DOMAIN states[r] : ForwardUp(r, k)
    BY <2>4, UnchangedKeepsInv DEF ForwardUp
  <2>5. CASE UNCHANGED vars
    BY <2>5, UnchangedKeepsInv DEF vars
  <2> QED
    BY <2>1, <2>2, <2>3, <2>4, <2>5 DEF Next
<1> QED
  BY <1>1, <1>2, PTL DEF Spec

-----------------------------------------------------------------------------
(* Traces *)

\* Enqueue traces what it accepts, under the number of its node.
CallInv ==
  /\ \A j \in 1..Len(txTrace) :
       txTrace[j].node \in Nodes /\ txTrace[j].sender = txTrace[j].node
  /\ \A v \in Nodes : \A i \in 1..Len(accepted[v]) :
       \E j \in 1..Len(txTrace) :
         /\ txTrace[j].node = v /\ txTrace[j].tid = accepted[v][i].tid
         /\ txTrace[j].time = accepted[v][i].time

\* What is traced on the way up has a state, and is traced with what that says.
UpInv(t) ==
  /\ t.at \in Nodes /\ t.key \in DOMAIN states[t.at]
  /\ t.sender = SenderId(states[t.at][t.key].source)
  /\ t.receiver = SenderId(Address(t.at))
  /\ t.tid = states[t.at][t.key].tid /\ t.txTime = states[t.at][t.key].txTime

TraceInv ==
  /\ CallInv
  /\ heard \in [Nodes -> SUBSET air]
  /\ \A r \in Nodes : IsFiniteSet(heard[r])
  /\ \A t \in rxTrace : UpInv(t)

\* The last two bytes of an address are the number of the vehicle.
LEMMA SenderIdOfAddress ==
  ASSUME NEW v \in Nodes
  PROVE  SenderId(Address(v)) = v
<1>1. v \in Nat
  BY WireAssumption DEF Half
<1>2. Address(v)[5] = v \div 256 /\ Address(v)[6] = v % 256
  BY SMT DEF Address
<1>3. ((v \div 256) * 256) + (v % 256) = v
  BY <1>1
<1> QED
  BY <1>2, <1>3 DEF SenderId

LEMMA AddressesDiffer ==
  ASSUME NEW v \in Nodes, NEW w \in Nodes, Address(v) = Address(w)
  PROVE  v = w
BY SenderIdOfAddress

LEMMA TraceInit == Init => TraceInv
BY FS_EmptySet DEF Init, TraceInv, CallInv

LEMMA EnqueueKeepsTraces ==
  ASSUME WireInv, TraceInv, NEW v \in Nodes, NEW t \in Tids, NEW size \in Sizes,
         Enqueue(v, t, size)
  PROVE  TraceInv'
<1> DEFINE g == [size |-> size, tid |-> t, time |-> Now]
           c == [sender |-> SenderId(Address(v)), tid |-> t, time |-> Now, node |-> v]
<1>1. /\ txTrace \in Seq(TxCall) /\ accepted \in [Nodes -> Seq(Given)]
      /\ Len(txTrace) \in Nat
  BY DEF WireInv, WireTypes
<1>2. /\ txTrace' = Append(txTrace, c)
      /\ UNCHANGED <<states, rxTrace, air, heard>>
      /\ accepted' = accepted \/ accepted' = [accepted EXCEPT ![v] = Append(@, g)]
  BY SimTagRoundTrip DEF Enqueue, Now
<1>3. g \in Given
  BY <1>1 DEF Now, Given
<1>4. c \in TxCall
  BY <1>1, SenderIdOfAddress, WireAssumption DEF Now, TxCall, Half
<1>5. c.node = v /\ c.sender = v /\ c.tid = g.tid /\ c.time = g.time
  BY SenderIdOfAddress
<1> HIDE DEF g, c
<1>6. /\ Len(txTrace') = Len(txTrace) + 1 /\ txTrace'[Len(txTrace) + 1] = c
      /\ \A j \in 1..Len(txTrace) : txTrace'[j] = txTrace[j]
  BY <1>1, <1>2, <1>4, AppendFacts
<1>7. /\ \A j \in 1..Len(txTrace) : j \in 1..Len(txTrace')
      /\ Len(txTrace) + 1 \in 1..Len(txTrace')
  BY <1>1, <1>6
<1>8. ASSUME NEW j \in 1..Len(txTrace')
      PROVE  txTrace'[j].node \in Nodes /\ txTrace'[j].sender = txTrace'[j].node
  <2>1. j \in 1..Len(txTrace) \/ j = Len(txTrace) + 1
    BY <1>1, <1>6
  <2> QED
    BY <1>5, <1>6, <2>1 DEF TraceInv, CallInv
<1>9. ASSUME NEW w \in Nodes, NEW i \in 1..Len(accepted'[w])
      PROVE  \E j \in 1..Len(txTrace') :
               /\ txTrace'[j].node = w /\ txTrace'[j].tid = accepted'[w][i].tid
               /\ txTrace'[j].time = accepted'[w][i].time
  <2>1. CASE i \in 1..Len(accepted[w]) /\ accepted'[w][i] = accepted[w][i]
    <3>1. PICK j \in 1..Len(txTrace) :
            /\ txTrace[j].node = w /\ txTrace[j].tid = accepted[w][i].tid
            /\ txTrace[j].time = accepted[w][i].time
      BY <2>1 DEF TraceInv, CallInv
    <3>2. j \in 1..Len(txTrace') /\ txTrace'[j] = txTrace[j]
      BY <1>6, <1>7
    <3> QED
      BY <2>1, <3>1, <3>2
  <2>2. CASE w = v /\ accepted'[w][i] = g
    BY <1>5, <1>6, <1>7, <2>2
  <2>3. accepted'[w] = accepted[w] \/ (w = v /\ accepted'[w] = Append(accepted[w], g))
    BY <1>1, <1>2
  <2>4. CASE w = v /\ accepted'[w] = Append(accepted[w], g)
    <3>1. /\ accepted[w] \in Seq(Given) /\ Len(accepted[w]) \in Nat
          /\ Len(accepted'[w]) = Len(accepted[w]) + 1
          /\ accepted'[w][Len(accepted[w]) + 1] = g
          /\ \A k \in 1..Len(accepted[w]) : accepted'[w][k] = accepted[w][k]
      BY <1>1, <1>3, <2>4, AppendFacts
    <3>2. i \in 1..Len(accepted[w]) \/ i = Len(accepted[w]) + 1
      BY <3>1
    <3> QED
      BY <2>1, <2>2, <2>4, <3>1, <3>2
  <2> QED
    BY <2>1, <2>3, <2>4
<1> QED
  BY <1>2, <1>8, <1>9 DEF TraceInv, CallInv, UpInv

LEMMA ReceiveKeepsTraces ==
  ASSUME WireInv, TraceInv, NEW r \in Nodes, NEW f \in air, Receive(r, f)
  PROVE  TraceInv'
<1>1. /\ heard' = [heard EXCEPT ![r] = @ \cup {f}]
      /\ UNCHANGED <<txTrace, rxTrace, accepted, air>>
  BY DEF Receive
<1>2. ASSUME NEW q \in Nodes, NEW k \in DOMAIN states[q]
      PROVE  k \in DOMAIN states'[q] /\ states'[q][k] = states[q][k]
  BY DEF Receive, WireInv
<1>3. /\ heard \in [Nodes -> SUBSET air] /\ \A q \in Nodes : IsFiniteSet(heard[q])
  BY DEF TraceInv
<1>4. heard' \in [Nodes -> SUBSET air]
  BY <1>1, <1>3
<1>5. ASSUME NEW q \in Nodes
      PROVE  IsFiniteSet(heard'[q])
  <2>1. IsFiniteSet(heard[q] \cup {f})
    BY <1>3, FS_AddElement
  <2> QED
    BY <1>1, <1>3, <2>1
<1>6. ASSUME NEW t \in rxTrace
      PROVE  UpInv(t)'
  <2>1. UpInv(t)
    BY DEF TraceInv
  <2>2. t.at \in Nodes /\ t.key \in DOMAIN states[t.at]
    BY <2>1 DEF UpInv
  <2>3. t.key \in DOMAIN states'[t.at] /\ states'[t.at][t.key] = states[t.at][t.key]
    BY <1>2, <2>2
  <2> QED
    BY <2>1, <2>3 DEF UpInv
<1>7. CallInv'
  BY <1>1 DEF TraceInv, CallInv
<1> QED
  BY <1>1, <1>4, <1>5, <1>6, <1>7 DEF TraceInv

\* What was rightly traced stays so while the states do.
LEMMA UpKept ==
  ASSUME NEW t, UpInv(t), UNCHANGED states
  PROVE  UpInv(t)'
BY DEF UpInv

\* So does what holds of the calls.
LEMMA CallKept ==
  ASSUME CallInv, UNCHANGED <<txTrace, accepted>>
  PROVE  CallInv'
<1>1. txTrace' = txTrace /\ accepted' = accepted
  OBVIOUS
<1> QED
  BY <1>1 DEF CallInv

\* The traces of both ends stay what the calls and the heard fragments make them.
THEOREM TraceInvHolds == Spec => []TraceInv
<1>1. Init => TraceInv
  BY TraceInit
<1>2. WireInv /\ TraceInv /\ [Next]_vars => TraceInv'
  <2> SUFFICES ASSUME WireInv, TraceInv, [Next]_vars PROVE TraceInv'
    OBVIOUS
  <2>1. CASE \E v \in Nodes, t \in Tids, size \in Sizes : Enqueue(v, t, size)
    BY <2>1, EnqueueKeepsTraces
  <2>2. CASE \E v \in Nodes : SendPacket(v)
    <3>1. air \subseteq air' /\ UNCHANGED <<states, txTrace, rxTrace, accepted, heard>>
      BY <2>2 DEF SendPacket
    <3>2. CallInv'
      BY <3>1, CallKept DEF TraceInv
    <3>3. \A t \in rxTrace' : UpInv(t)'
      BY <3>1, UpKept DEF TraceInv
    <3>4. /\ heard' \in [Nodes -> SUBSET air']
          /\ \A r \in Nodes : IsFiniteSet(heard'[r])
      BY <3>1 DEF TraceInv
    <3> QED
      BY <3>2, <3>3, <3>4 DEF TraceInv
  <2>3. CASE \E r \in Nodes, f \in air : Receive(r, f)
    BY <2>3, ReceiveKeepsTraces
  <2>4. CASE \E r \in Nodes : \E k \in DOMAIN states[r] : ForwardUp(r, k)
    <3>1. PICK r \in Nodes : \E k \in DOMAIN states[r] : ForwardUp(r, k)
      BY <2>4
    <3>2. PICK k \in DOMAIN states[r] : ForwardUp(r, k)
      BY <3>1
    <3>3. /\ rxTrace' = rxTrace \cup
               {[sender |-> SenderId(states[r][k].source),
                 receiver |-> SenderId(Address(r)), tid |-> states[r][k].tid,
                 txTime |-> states[r][k].txTime, at |-> r, key |-> k]}
          /\ UNCHANGED <<states, txTrace, accepted, air, heard>>
      BY <3>2 DEF ForwardUp
    <3>4. \A t \in rxTrace' : UpInv(t)
      BY <3>3 DEF TraceInv, UpInv
    <3>5. CallInv'
      BY <3>3, CallKept DEF TraceInv
    <3>6. \A t \in rxTrace' : UpInv(t)'
      BY <3>3, <3>4, UpKept
    <3>7. /\ heard' \in [Nodes -> SUBSET air']
          /\ \A q \in Nodes : IsFiniteSet(heard'[q])
      BY <3>3 DEF TraceInv
    <3> QED
      BY <3>5, <3>6, <3>7 DEF TraceInv
  <2>5. CASE UNCHANGED vars
    <3>1. UNCHANGED <<states, txTrace, rxTrace, accepted, air, heard>>
      BY <2>5 DEF vars
    <3>2. CallInv'
      BY <3>1, CallKept DEF TraceInv
    <3>3. \A t \in rxTrace' : UpInv(t)'
      BY <3>1, UpKept DEF TraceInv
    <3> QED
      BY <3>1, <3>2, <3>3 DEF TraceInv
  <2> QED
    BY <2>1, <2>2, <2>3, <2>4, <2>5 DEF Next
<1> QED
  BY <1>1, <1>2, WireInvHolds, PTL DEF Spec

-----------------------------------------------------------------------------
(* Theorems *)

\* CsaMac::Receive gets back the payload and the current slot of every fragment,
\* for all strategies, slots, sizes and sequence numbers that fit the header.
THEOREM HeadersComeOff == Spec => []HeaderComesOff
<1>1. WireInv => HeaderComesOff
  <2> SUFFICES ASSUME WireInv, NEW f \in air
               PROVE  /\ RemoveHeader(f.bytes).rest = f.payload
                      /\ RemoveHeader(f.bytes).header.currentSlot = f.slot
    BY DEF HeaderComesOff
  <2>1. PICK i \in 1..Len(drawn[f.from]) :
          RemoveHeader(f.bytes) = [header |-> HeaderOf(f.from, i, f.slot),
                                   rest |-> f.payload]
    BY FragmentReads
  <2> QED
    BY <2>1 DEF HeaderOf
<1> QED
  BY <1>1, WireInvHolds, PTL

\* A PacketState has the header, the tag and the queue entry of one and the same
\* packet of its source, whichever fragment made it.
THEOREM StatesAreAsSent == Spec => []StateIsAsSent
<1>1. WireInv => StateIsAsSent
  <2> SUFFICES ASSUME WireInv, NEW r \in Nodes, NEW k \in DOMAIN states[r]
               PROVE  \E v \in Nodes \ {r} :
                        LET p == states[r][k]  i == p.seqNo - FirstSeqNo + 1 IN
                          /\ k = <<Address(v), p.seqNo>> /\ p.source = Address(v)
                          /\ p.dest = Broadcast /\ p.protocol = Ipv4
                          /\ p.s = strategy[v].s /\ p.n = strategy[v].n
                          /\ p.allSlots = drawn[v][i]
                          /\ p.length = accepted[v][i].size
                          /\ p.tid = accepted[v][i].tid
                          /\ p.txTime = accepted[v][i].time
    BY DEF StateIsAsSent
  <2>1. PICK v \in Nodes \ {r} : \E i \in 1..Len(drawn[v]) :
          /\ k = <<Address(v), FirstSeqNo + i - 1>>
          /\ \E x \in Word :
               states[r][k] = PacketState(HeaderOf(v, i, x), SimTagOf(v, i))
    BY DEF WireInv, StateInv
  <2>2. PICK i \in 1..Len(drawn[v]), x \in Word :
          /\ k = <<Address(v), FirstSeqNo + i - 1>>
          /\ states[r][k] = PacketState(HeaderOf(v, i, x), SimTagOf(v, i))
    BY <2>1
  <2> DEFINE p == states[r][k]
  <2>3. /\ p.seqNo = FirstSeqNo + i - 1 /\ p.source = Address(v)
        /\ p.dest = Broadcast /\ p.protocol = Ipv4
        /\ p.s = strategy[v].s /\ p.n = strategy[v].n
        /\ p.allSlots = drawn[v][i] /\ p.length = accepted[v][i].size
        /\ p.tid = accepted[v][i].tid /\ p.txTime = accepted[v][i].time
    BY <2>2 DEF PacketState, HeaderOf, SimTagOf
  <2>4. i \in Nat /\ FirstSeqNo \in Nat
    BY <2>2, Lengths, WireAssumption
  <2> HIDE DEF p
  <2>5. p.seqNo - FirstSeqNo + 1 = i
    BY <2>3, <2>4
  <2> QED
    BY <2>2, <2>3, <2>5 DEF p
<1> QED
  BY <1>1, WireInvHolds, PTL

\* The state of what was traced on the way up is that of a packet of the node
\* whose number the trace gives as the sender.
LEMMA UpFacts ==
  ASSUME WireInv, TraceInv, NEW t \in rxTrace
  PROVE  /\ t.at \in Nodes
         /\ \E v \in Nodes \ {t.at} : \E i \in 1..Len(drawn[v]) :
              /\ t.key = <<Address(v), FirstSeqNo + i - 1>>
              /\ t.sender = v /\ t.receiver = t.at
              /\ t.tid = accepted[v][i].tid /\ t.txTime = accepted[v][i].time
<1>1. UpInv(t)
  BY DEF TraceInv
<1>2. t.at \in Nodes /\ t.key \in DOMAIN states[t.at]
  BY <1>1 DEF UpInv
<1>3. StateInv(t.at, t.key)
  BY <1>2 DEF WireInv
<1>4. PICK v \in Nodes \ {t.at} : \E i \in 1..Len(drawn[v]) :
        /\ t.key = <<Address(v), FirstSeqNo + i - 1>>
        /\ \E x \in Word :
             states[t.at][t.key] = PacketState(HeaderOf(v, i, x), SimTagOf(v, i))
  BY <1>3 DEF StateInv
<1>5. PICK i \in 1..Len(drawn[v]), x \in Word :
        /\ t.key = <<Address(v), FirstSeqNo + i - 1>>
        /\ states[t.at][t.key] = PacketState(HeaderOf(v, i, x), SimTagOf(v, i))
  BY <1>4
<1> DEFINE p == states[t.at][t.key]
<1>6. /\ p.source = Address(v) /\ p.tid = accepted[v][i].tid
      /\ p.txTime = accepted[v][i].time
  BY <1>5 DEF PacketState, HeaderOf, SimTagOf
<1>7. t.sender = v /\ t.receiver = t.at
  BY <1>1, <1>2, <1>6, SenderIdOfAddress DEF UpInv
<1>8. t.tid = p.tid /\ t.txTime = p.txTime
  BY <1>1 DEF UpInv
<1> HIDE DEF p
<1> QED
  BY <1>2, <1>5, <1>6, <1>7, <1>8 DEF p

\* The numbers of vehicles in the traces are those of the nodes, and what is
\* traced on the way up was traced on the way down, of the same packet.
THEOREM TracesDoAgree == Spec => []TracesAgree
<1>1. WireInv /\ TraceInv => TracesAgree
  <2> SUFFICES ASSUME WireInv, TraceInv PROVE TracesAgree
    OBVIOUS
  <2> DEFINE calls == {txTrace[i] : i \in DOMAIN txTrace}
  <2>1. DOMAIN txTrace = 1..Len(txTrace)
    BY DEF WireInv, WireTypes
  <2>2. \A c, d \in calls : c.sender = d.sender => c.node = d.node
    BY <2>1 DEF TraceInv, CallInv
  <2>3. ASSUME NEW t \in rxTrace
        PROVE  /\ t.sender # t.receiver
               /\ \E c \in calls : /\ c.sender = t.sender /\ c.tid = t.tid
                                   /\ c.time = t.txTime
                                   /\ Address(c.node) = t.key[1]
    <3>1. PICK v \in Nodes \ {t.at} : \E i \in 1..Len(drawn[v]) :
            /\ t.key = <<Address(v), FirstSeqNo + i - 1>>
            /\ t.sender = v /\ t.receiver = t.at
            /\ t.tid = accepted[v][i].tid /\ t.txTime = accepted[v][i].time
      BY UpFacts
    <3>2. PICK i \in 1..Len(drawn[v]) :
            /\ t.key = <<Address(v), FirstSeqNo + i - 1>>
            /\ t.sender = v /\ t.receiver = t.at
            /\ t.tid = accepted[v][i].tid /\ t.txTime = accepted[v][i].time
      BY <3>1
    <3>3. i \in 1..Len(accepted[v])
      BY Lengths
    <3>4. PICK j \in 1..Len(txTrace) :
            /\ txTrace[j].node = v /\ txTrace[j].tid = accepted[v][i].tid
            /\ txTrace[j].time = accepted[v][i].time
      BY <3>3 DEF TraceInv, CallInv
    <3>5. txTrace[j].sender = v
      BY <3>4 DEF TraceInv, CallInv
    <3>6. txTrace[j] \in calls
      BY <2>1
    <3>7. t.key[1] = Address(v)
      BY <3>2
    <3> QED
      BY <3>2, <3>4, <3>5, <3>6, <3>7
  <2> QED
    BY <2>2, <2>3 DEF TracesAgree
<1> QED
  BY <1>1, WireInvHolds, TraceInvHolds, PTL

\* The s parts of a packet are at least as long as it.
LEMMA PartsCover ==
  ASSUME NEW size \in Nat, NEW s \in Nat, s > 0, NEW n \in Nat, n >= s
  PROVE  FragSize(size, s) \in Nat /\ n * FragSize(size, s) >= size
<1> DEFINE q == size \div s  e == IF size % s # 0 THEN 1 ELSE 0
           c == FragSize(size, s)
<1>1. /\ q \in Nat /\ size % s \in Nat /\ size % s < s
      /\ size = (s * q) + (size % s)
  OBVIOUS
<1>2. e \in Nat /\ s * e \in Nat /\ size % s <= s * e
  BY <1>1
<1>3. c = q + e
  BY DEF FragSize
<1> HIDE DEF q, e, c
<1>4. \A x, y, z \in Nat : x * (y + z) = (x * y) + (x * z)
  OBVIOUS
<1>5. \A x, y \in Nat : x * y \in Nat
  OBVIOUS
<1>6. c \in Nat /\ s * c >= size
  <2>1. c \in Nat /\ s * c = (s * q) + (s * e)
    BY <1>1, <1>2, <1>3, <1>4
  <2>2. s * q \in Nat
    BY <1>1, <1>5
  <2> QED
    BY <1>1, <1>2, <2>1, <2>2
<1>7. n * c >= s * c
  <2>1. PICK d \in Nat : n = s + d
    <3>1. n - s \in Nat /\ n = s + (n - s)
      OBVIOUS
    <3> QED
      BY <3>1
  <2>2. \A x, y, z \in Nat : (x + y) * z = (x * z) + (y * z)
    OBVIOUS
  <2>3. n * c = (s * c) + (d * c)
    BY <1>6, <2>1, <2>2
  <2>4. s * c \in Nat /\ d * c \in Nat
    BY <1>5, <1>6, <2>1
  <2> QED
    BY <2>3, <2>4
<1>8. n * c \in Nat /\ s * c \in Nat
  BY <1>5, <1>6
<1> QED
  BY <1>6, <1>7, <1>8 DEF c

\* What is left of a fragment that r heard.
Rest(f) == Len(RemoveHeader(f.bytes).rest)

\* MapThenSumSet adds by the sum of CsaSums.
LEMMA RestIsSum ==
  ASSUME NEW F, IsFiniteSet(F)
  PROVE  MapThenSumSet(LAMBDA f : Len(RemoveHeader(f.bytes).rest), F)
           = Sum([f \in F |-> Rest(f)], F)
<1> DEFINE w == [f \in F |-> Rest(f)]
           Left(f) == Len(RemoveHeader(f.bytes).rest)
           G(g) == [s \in SUBSET F |-> IF s = {} THEN 0
                      ELSE Left(Pick(s)) + g[s \ {Pick(s)}]]
<1>1. \A s \in SUBSET F : s # {} => w[Pick(s)] = Left(Pick(s))
  BY PickIn DEF Rest
<1>2. \A g : IsSum(w, g, F) <=> g = G(g)
  <2> HIDE DEF w, Left
  <2> QED
    BY <1>1 DEF IsSum
<1> DEFINE g == CHOOSE h : h = G(h)
<1>3. MapThenSumSet(Left, F) = g[F]
  BY DEF MapThenSumSet, MapThenFoldSet, Pick
<1> HIDE DEF w
<1>4. PICK h : IsSum(w, h, F) /\ Sum(w, F) = h[F]
  BY SumIsSum
<1> HIDE DEF G
<1>5. IsSum(w, g, F)
  BY <1>2, <1>4
<1>6. g[F] = h[F]
  <2> HIDE DEF g
  <2> QED
    BY <1>4, <1>5, SumUnique
<1> QED
  BY <1>3, <1>4, <1>6 DEF w

\* All fragments of a packet have the same length, and any s of them that a node
\* heard make up the whole packet.
THEOREM FragmentsDoCover == Spec => []FragmentsCoverPacket
<1>1. WireInv /\ TraceInv => FragmentsCoverPacket
  <2> SUFFICES ASSUME WireInv, TraceInv, NEW r \in Nodes, NEW k \in DOMAIN states[r],
                      Cardinality(HeardOf(r, k)) >= states[r][k].s
               PROVE  MapThenSumSet(LAMBDA f : Len(RemoveHeader(f.bytes).rest),
                                    HeardOf(r, k))
                        >= states[r][k].length
    BY DEF FragmentsCoverPacket
  <2> DEFINE F == HeardOf(r, k)  n == Cardinality(F)
  <2>1. PICK v \in Nodes : \E i \in 1..Len(drawn[v]) :
          /\ k = <<Address(v), FirstSeqNo + i - 1>>
          /\ \E x \in Word :
               states[r][k] = PacketState(HeaderOf(v, i, x), SimTagOf(v, i))
    BY DEF WireInv, StateInv
  <2>2. PICK i \in 1..Len(drawn[v]) :
          /\ k = <<Address(v), FirstSeqNo + i - 1>>
          /\ states[r][k].length = accepted[v][i].size
          /\ states[r][k].s = strategy[v].s
    BY <2>1 DEF PacketState, HeaderOf
  <2> DEFINE size == accepted[v][i].size  z == strategy[v].s
  <2>3. n >= z
    BY <2>2
  <2>4. IsFiniteSet(F) /\ n \in Nat /\ F \subseteq air
    <3>1. IsFiniteSet(heard[r]) /\ heard[r] \subseteq air
      BY DEF TraceInv
    <3>2. F \subseteq heard[r]
      BY DEF HeardOf
    <3> QED
      BY <3>1, <3>2, FS_Subset, FS_CardinalityType
  <2>5. size \in Nat /\ z \in Nat /\ z > 0
    <3>1. accepted[v] \in Seq(Given) /\ i \in 1..Len(accepted[v])
      BY Lengths
    <3>2. accepted[v][i] \in Given
      BY <3>1
    <3>3. strategy[v] \in Strategies
      BY DEF WireInv, WireTypes
    <3>4. size \in Word
      BY <3>2, WireAssumption DEF Given
    <3>5. z \in Byte \ {0}
      BY <3>3, WireAssumption
    <3> QED
      BY <3>4, <3>5 DEF Word, Byte
  <2>6. ASSUME NEW f \in F
        PROVE  Rest(f) = FragSize(size, z)
    <3>1. f \in air
      BY <2>4
    <3>2. PICK j \in 1..Len(drawn[f.from]) :
            /\ RemoveHeader(f.bytes) = [header |-> HeaderOf(f.from, j, f.slot),
                                        rest |-> f.payload]
            /\ Len(f.payload) = PartSize(f.from, j)
      BY <3>1, FragmentReads
    <3>3. f.from \in Nodes
      BY <3>1, FragmentReads
    <3>4. Key(HeaderOf(f.from, j, f.slot)) = k
      BY <3>2 DEF HeardOf
    <3>5. <<Address(f.from), FirstSeqNo + j - 1>> = <<Address(v), FirstSeqNo + i - 1>>
      BY <2>2, <3>4 DEF Key, HeaderOf
    <3>6. Address(f.from) = Address(v) /\ FirstSeqNo + j - 1 = FirstSeqNo + i - 1
      BY <3>5
    <3>7. i \in Nat /\ j \in Nat /\ FirstSeqNo \in Nat
      BY <3>2, <3>3, Lengths, WireAssumption
    <3>8. f.from = v /\ j = i
      BY <3>3, <3>6, <3>7, AddressesDiffer
    <3> QED
      BY <3>2, <3>8 DEF Rest, PartSize
  <2> HIDE DEF F, n, size, z
  <2>7. FragSize(size, z) \in Nat /\ n * FragSize(size, z) >= size
    BY <2>3, <2>4, <2>5, PartsCover
  <2>8. Sum([f \in F |-> Rest(f)], F) = n * FragSize(size, z)
    <3> DEFINE w == [f \in F |-> Rest(f)]  c == FragSize(size, z)
    <3>1. c \in Nat /\ \A f \in F : w[f] = c
      BY <2>6, <2>7
    <3> HIDE DEF w, c
    <3>2. Sum(w, F) = Cardinality(F) * c
      BY <2>4, <3>1, SumConstant
    <3> QED
      BY <3>2 DEF w, c, n
  <2>9. MapThenSumSet(LAMBDA f : Len(RemoveHeader(f.bytes).rest), F)
          = Sum([f \in F |-> Rest(f)], F)
    BY <2>4, RestIsSum
  <2> QED
    BY <2>2, <2>7, <2>8, <2>9 DEF F, size
<1> QED
  BY <1>1, WireInvHolds, TraceInvHolds, PTL

=============================================================================
