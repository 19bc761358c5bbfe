-------------------------- MODULE FieldCodecProofs --------------------------
(***************************************************************************)
(* One field, of any kind, over any wire format: what is written of it is  *)
(* read back, what is read is read wherever the same bytes are, and what   *)
(* is read into an exact field is written as the bytes that were read.     *)
(***************************************************************************)
EXTENDS FieldCodec, CborProofs, FiniteSetTheorems

\* The bytes b are in s after the first p; and the m bytes of s after p are those of
\* z after q.
Holds(s, p, b) == p + Len(b) <= Len(s) /\ \A e \in 1 .. Len(b) : s[p + e] = b[e]
Agree(s, p, z, q, m) ==
  /\ p + m <= Len(s) /\ q + m <= Len(z)
  /\ \A e \in 1 .. m : s[p + e] = z[q + e]

LEMMA CodecSizes ==
  /\ {MajUnsignedInt, MajNegativeInt, MajByteString, MajTextString, MajArray, MajMap, MajTag, MajOther}
       \subseteq Majors
  /\ Arguments \subseteq Nat
  /\ \A v, w \in Nat : w \in Arguments /\ v <= w => v \in Arguments
  /\ {0, 1, False, True, Nil} \subseteq Arguments
  /\ {MaxLength, ByteArrayMaxLen, MaxMapLen, LinkTag, MaxCid} \subseteq Arguments
  /\ Nil \in 0 .. (LowRange - 1) /\ Nil < Inline
<1>1. MajRange \in Nat /\ MajOther < MajRange
  BY CodecAssumption, Sizes
<1>2. Limit(Len(Widths)) \in Nat /\ Inline <= Limit(Len(Widths))
  <2>1. Len(Widths) \in Nat /\ 0 \in 0 .. Len(Widths) /\ Len(Widths) \in 0 .. Len(Widths) /\ 0 <= Len(Widths)
    BY Sizes
  <2>2. Limit(0) = Inline /\ Limit(0) <= Limit(Len(Widths)) /\ Limit(Len(Widths)) \in Nat
    BY <2>1, Sizes, SizesAssumption
  <2>3. QED BY <2>2
<1>3. Nil < Inline /\ Inline \in Nat /\ LowRange \in Nat /\ Inline <= LowRange
  BY CodecAssumption, Sizes
<1>4. {0, 1, False, True, Nil} \subseteq Arguments
  BY <1>2, <1>3 DEF Arguments, False, True, Nil
<1>5. \A v, w \in Nat : w \in Arguments /\ v <= w => v \in Arguments
  BY <1>2 DEF Arguments
<1>6. {MaxLength, ByteArrayMaxLen, MaxMapLen, LinkTag, MaxCid} \subseteq Arguments
  BY CodecAssumption
<1>7. QED
  BY <1>1, <1>2, <1>3, <1>4, <1>5, <1>6 DEF Majors, Arguments, Nil, MajUnsignedInt, MajNegativeInt, MajByteString,
     MajTextString, MajArray, MajMap, MajTag, MajOther

LEMMA ConcatHeld ==
  ASSUME NEW s \in Seq(Byte), NEW p \in Nat, NEW a \in Seq(Byte), NEW b \in Seq(Byte)
  PROVE  Holds(s, p, a \o b) <=> Holds(s, p, a) /\ Holds(s, p + Len(a), b)
<1>1. /\ a \o b \in Seq(Byte) /\ Len(a \o b) = Len(a) + Len(b)
      /\ \A e \in 1 .. (Len(a) + Len(b)) : (a \o b)[e] = IF e <= Len(a) THEN a[e] ELSE b[e - Len(a)]
  BY ConcatProperties
<1> DEFINE c == a \o b
           m == Len(a)
           n == Len(b)
<1>2. m \in Nat /\ n \in Nat /\ Len(c) = m + n /\ Len(s) \in Nat
  BY <1>1, LenProperties
<1>3. \A e \in 1 .. (m + n) : c[e] = IF e <= m THEN a[e] ELSE b[e - m]
  BY <1>1
<1> HIDE DEF c
<1>4. ASSUME Holds(s, p, c) PROVE Holds(s, p, a) /\ Holds(s, p + m, b)
  <2>1. p + (m + n) <= Len(s) /\ \A e \in 1 .. (m + n) : s[p + e] = c[e]
    BY <1>2, <1>4 DEF Holds
  <2>2. \A e \in 1 .. m : s[p + e] = a[e]
    <3> HIDE DEF m, n
    <3>1. QED BY <1>2, <1>3, <2>1
  <2>3. ASSUME NEW e \in 1 .. n PROVE s[(p + m) + e] = b[e]
    <3> HIDE DEF m, n
    <3>1. PICK j \in 1 .. (m + n) : j = m + e /\ ~(j <= m) /\ j - m = e /\ p + j = (p + m) + e
      BY <1>2
    <3>2. QED BY <1>3, <2>1, <3>1
  <2>4. p + m <= Len(s) /\ (p + m) + n <= Len(s)
    <3> HIDE DEF m, n
    <3>1. QED BY <1>2, <2>1
  <2>5. QED BY <2>2, <2>3, <2>4 DEF Holds
<1>5. ASSUME Holds(s, p, a), Holds(s, p + m, b) PROVE Holds(s, p, c)
  <2>1. /\ \A e \in 1 .. m : s[p + e] = a[e]
        /\ (p + m) + n <= Len(s)
        /\ \A e \in 1 .. n : s[(p + m) + e] = b[e]
    BY <1>5 DEF Holds
  <2> HIDE DEF m, n
  <2>2. ASSUME NEW e \in 1 .. (m + n) PROVE s[p + e] = c[e]
    <3>1. CASE e <= m
      BY <3>1, <1>2, <1>3, <2>1
    <3>2. CASE ~(e <= m)
      <4>1. PICK j \in 1 .. n : j = e - m /\ (p + m) + j = p + e
        BY <1>2, <3>2
      <4>2. QED BY <1>3, <2>1, <3>2, <4>1
    <3>3. QED BY <3>1, <3>2
  <2>3. p + (m + n) <= Len(s)
    BY <1>2, <2>1
  <2>4. QED BY <1>2, <2>2, <2>3 DEF Holds
<1>6. QED BY <1>4, <1>5 DEF c

LEMMA SliceOf ==
  ASSUME NEW s \in Seq(Byte), NEW p \in Nat, NEW n \in Nat, p + n <= Len(s)
  PROVE  /\ SubSeq(s, p + 1, p + n) \in Seq(Byte)
         /\ Len(SubSeq(s, p + 1, p + n)) = n
         /\ \A e \in 1 .. n : SubSeq(s, p + 1, p + n)[e] = s[p + e]
<1>1. \A e \in (p + 1) .. (p + n) : s[e] \in Byte
  <2>1. Len(s) \in Nat
    BY LenProperties
  <2>2. \A e \in (p + 1) .. (p + n) : e \in 1 .. Len(s)
    BY <2>1
  <2>3. QED BY <2>2, ElementOfSeq
<1>2. p + 1 \in Int /\ p + n \in Int
  OBVIOUS
<1>3. /\ SubSeq(s, p + 1, p + n) \in Seq(Byte)
      /\ Len(SubSeq(s, p + 1, p + n)) = IF p + 1 <= p + n THEN (p + n) - (p + 1) + 1 ELSE 0
      /\ \A e \in 1 .. ((p + n) - (p + 1) + 1) : SubSeq(s, p + 1, p + n)[e] = s[p + 1 + e - 1]
  BY <1>1, <1>2, SubSeqProperties
<1>4. QED
  <2> DEFINE b == SubSeq(s, p + 1, p + n)
  <2>1. b \in Seq(Byte) /\ Len(b) = n
    <3>1. (IF p + 1 <= p + n THEN (p + n) - (p + 1) + 1 ELSE 0) = n
      OBVIOUS
    <3>2. QED BY <1>3, <3>1
  <2>2. ASSUME NEW e \in 1 .. n PROVE b[e] = s[p + e]
    <3>1. e \in 1 .. ((p + n) - (p + 1) + 1) /\ p + 1 + e - 1 = p + e
      OBVIOUS
    <3>2. QED BY <1>3, <3>1
  <2>3. QED BY <2>1, <2>2

\* What is held is the slice there.
LEMMA HeldSlice ==
  ASSUME NEW s \in Seq(Byte), NEW p \in Nat, NEW b \in Seq(Byte)
  PROVE  /\ Holds(s, p, b) => SubSeq(s, p + 1, p + Len(b)) = b
         /\ \A n \in Nat : p + n <= Len(s) => Holds(s, p, SubSeq(s, p + 1, p + n))
<1>1. ASSUME Holds(s, p, b) PROVE SubSeq(s, p + 1, p + Len(b)) = b
  <2> DEFINE c == SubSeq(s, p + 1, p + Len(b))
  <2>1. Len(b) \in Nat
    BY LenProperties
  <2>2. c \in Seq(Byte) /\ Len(c) = Len(b) /\ \A e \in 1 .. Len(b) : c[e] = s[p + e]
    BY <1>1, <2>1, SliceOf DEF Holds
  <2>3. \A e \in 1 .. Len(b) : c[e] = b[e]
    BY <1>1, <2>2 DEF Holds
  <2> HIDE DEF c
  <2>4. c = b
    BY <2>2, <2>3, SeqEqual
  <2>5. QED BY <2>4 DEF c
<1>2. ASSUME NEW n \in Nat, p + n <= Len(s) PROVE Holds(s, p, SubSeq(s, p + 1, p + n))
  BY <1>2, SliceOf DEF Holds
<1>3. QED BY <1>1, <1>2

LEMMA AgreeLater ==
  ASSUME NEW s, NEW p \in Nat, NEW z, NEW q \in Nat, NEW m \in Nat, Agree(s, p, z, q, m),
         NEW k \in 0 .. m
  PROVE  Agree(s, p + k, z, q + k, m - k)
<1>1. (p + k) + (m - k) = p + m /\ (q + k) + (m - k) = q + m
  OBVIOUS
<1>2. ASSUME NEW e \in 1 .. (m - k) PROVE s[(p + k) + e] = z[(q + k) + e]
  <2>1. PICK j \in 1 .. m : j = k + e /\ (p + k) + e = p + j /\ (q + k) + e = q + j
    OBVIOUS
  <2>2. QED BY <2>1 DEF Agree
<1>3. QED BY <1>1, <1>2 DEF Agree

SameSlice(s, p, z, q, n) == SubSeq(z, q + 1, q + n) = SubSeq(s, p + 1, p + n)

LEMMA AgreeSlice ==
  ASSUME NEW s \in Seq(Byte), NEW p \in Nat, NEW z \in Seq(Byte), NEW q \in Nat, NEW m \in Nat,
         Agree(s, p, z, q, m), NEW n \in 0 .. m
  PROVE  SameSlice(s, p, z, q, n)
<1> DEFINE b == SubSeq(s, p + 1, p + n)
<1>0. Len(s) \in Nat /\ Len(z) \in Nat /\ p + n <= Len(s) /\ q + n <= Len(z)
  BY LenProperties DEF Agree
<1>1. b \in Seq(Byte) /\ Len(b) = n /\ \A e \in 1 .. n : b[e] = s[p + e]
  <2>1. n \in Nat /\ p + n <= Len(s)
    BY <1>0
  <2>2. QED BY <2>1, SliceOf, Zenon
<1> HIDE DEF b
<1>2. \A e \in 1 .. n : z[q + e] = b[e]
  <2>1. \A e \in 1 .. n : e \in 1 .. m
    OBVIOUS
  <2>2. QED BY <1>1, <2>1 DEF Agree
<1>3. Holds(z, q, b)
  BY <1>0, <1>1, <1>2 DEF Holds
<1>4. QED BY <1>1, <1>3, HeldSlice DEF b, SameSlice

\* A header that is held comes back; one that is read is read wherever its bytes are.
LEMMA HeaderComesBack ==
  ASSUME NEW s \in Seq(Byte), NEW p \in Nat, NEW maj \in Majors, NEW l \in Arguments,
         Holds(s, p, WriteMajorTypeHeader(maj, l))
  PROVE  CborReadHeaderBuf(s, p) = Header(maj, l, Len(WriteMajorTypeHeader(maj, l)))
<1>1. WriteMajorTypeHeader(maj, l) \in Seq(Byte)
  BY WriteType
<1>2. SubSeq(s, p + 1, p + Len(WriteMajorTypeHeader(maj, l))) = WriteMajorTypeHeader(maj, l)
  BY <1>1, HeldSlice
<1>3. p + Len(WriteMajorTypeHeader(maj, l)) <= Len(s)
  BY DEF Holds
<1>4. QED BY <1>2, <1>3, ReadsWhatIsWritten

\* There is no header at the end.
LEMMA NoneAtTheEnd ==
  ASSUME NEW s \in Seq(Byte), NEW p \in Nat, Len(s) <= p
  PROVE  ~CborReadHeaderBuf(s, p).ok
<1>1. Len(s) \in Nat
  BY LenProperties
<1>2. SUFFICES ASSUME CborReadHeaderBuf(s, p).ok PROVE FALSE
  OBVIOUS
<1>3. CborReadHeaderBuf(s, p).n \in Nat \ {0} /\ p + CborReadHeaderBuf(s, p).n <= Len(s)
  BY <1>2, WritesWhatIsRead
<1>4. QED BY <1>1, <1>3

LEMMA HeaderRead ==
  ASSUME NEW s \in Seq(Byte), NEW p \in Nat, CborReadHeaderBuf(s, p).ok
  PROVE  LET hd == CborReadHeaderBuf(s, p) IN
         /\ hd.maj \in Majors /\ hd.extra \in Arguments /\ hd.n \in Nat \ {0}
         /\ p + hd.n <= Len(s)
         /\ SubSeq(s, p + 1, p + hd.n) = WriteMajorTypeHeader(hd.maj, hd.extra)
         /\ hd = Header(hd.maj, hd.extra, hd.n)
<1>1. CborReadHeaderBuf(s, p) = Header(CborReadHeaderBuf(s, p).maj, CborReadHeaderBuf(s, p).extra, CborReadHeaderBuf(s, p).n)
  <2> DEFINE low == s[p + 1] % LowRange
  <2>1. Len(s) \in Nat /\ Inline \in Nat /\ Len(Widths) \in Nat
    BY LenProperties, Sizes
  <2>2. CASE Len(s) <= p
    BY <2>2, NoneAtTheEnd
  <2>3. CASE Len(s) > p
    <3>1. s[p + 1] \in Byte
      <4>1. p + 1 \in 1 .. Len(s)
        BY <2>1, <2>3
      <4>2. QED BY <4>1, ElementOfSeq
    <3>2. low \in Nat
      BY <3>1, FirstByteOf, Sizes
    <3> HIDE DEF low
    <3>3. CASE low < Inline
      <4>1. CborReadHeaderBuf(s, p) = Header(s[p + 1] \div LowRange, low, 1)
        BY <2>1, <2>3, <3>2, <3>3 DEF CborReadHeaderBuf, low
      <4>2. QED BY <4>1 DEF Header
    <3>4. CASE low >= Inline /\ low < Inline + Len(Widths)
      BY <2>1, <2>3, <3>2, <3>4 DEF CborReadHeaderBuf, ReadArgument, Header, BadHeader, low
    <3>5. CASE low >= Inline + Len(Widths)
      BY <2>1, <2>3, <3>2, <3>5 DEF CborReadHeaderBuf, BadHeader, low
    <3>6. QED BY <2>1, <3>2, <3>3, <3>4, <3>5
  <2>4. QED BY <2>1, <2>2, <2>3
<1>2. QED BY <1>1, WritesWhatIsRead

LEMMA HeaderAgrees ==
  ASSUME NEW s \in Seq(Byte), NEW p \in Nat, NEW z \in Seq(Byte), NEW q \in Nat, NEW m \in Nat,
         Agree(s, p, z, q, m), CborReadHeaderBuf(s, p).ok, CborReadHeaderBuf(s, p).n <= m
  PROVE  CborReadHeaderBuf(z, q) = CborReadHeaderBuf(s, p)
<1> DEFINE hd == CborReadHeaderBuf(s, p)
           b  == WriteMajorTypeHeader(hd.maj, hd.extra)
<1>1. /\ hd.maj \in Majors /\ hd.extra \in Arguments /\ hd.n \in Nat \ {0}
      /\ SubSeq(s, p + 1, p + hd.n) = b
      /\ hd = Header(hd.maj, hd.extra, hd.n) /\ hd.n = Len(b)
  BY HeaderRead, WritesWhatIsRead
<1>2. SubSeq(z, q + 1, q + hd.n) = b
  <2>1. hd.n \in 0 .. m
    BY <1>1
  <2> HIDE DEF hd
  <2>2. SubSeq(z, q + 1, q + hd.n) = SubSeq(s, p + 1, p + hd.n)
    <3>1. PICK n \in 0 .. m : n = hd.n
      BY <2>1
    <3>2. SameSlice(s, p, z, q, n)
      BY AgreeSlice, Zenon
    <3>3. QED BY <3>1, <3>2 DEF SameSlice
  <2>3. QED BY <1>1, <2>2
<1>3. q + hd.n <= Len(z)
  <2>1. Len(z) \in Nat
    BY LenProperties
  <2>2. QED BY <1>1, <2>1 DEF Agree
<1> HIDE DEF hd
<1>4. Holds(z, q, b)
  <2>1. b \in Seq(Byte) /\ hd.n \in Nat
    BY <1>1, WriteType
  <2>2. Holds(z, q, SubSeq(z, q + 1, q + hd.n))
    BY <1>3, <2>1, HeldSlice
  <2>3. QED BY <1>2, <2>2
<1>5. CborReadHeaderBuf(z, q) = Header(hd.maj, hd.extra, Len(b))
  BY <1>1, <1>4, HeaderComesBack
<1>6. QED BY <1>1, <1>5 DEF hd

-----------------------------------------------------------------------------

\* A decoder takes bytes that are there, and depends on no others: r is read from s
\* at p, and r2 by the same decoder from z at q.
Takes(r, s, p) == r.ok => r.n \in Nat /\ p + r.n <= Len(s) /\ r = Good(r.v, r.n)
SameWithin(r, r2, m) == r.ok /\ r.n <= m => r2 = r
Local(r, s, p, r2, z, q) ==
  /\ Takes(r, s, p)
  /\ \A m \in Nat : Agree(s, p, z, q, m) => SameWithin(r, r2, m)

LEMMA PlusLocal ==
  ASSUME NEW s \in Seq(Byte), NEW p \in Nat, NEW z \in Seq(Byte), NEW q \in Nat, NEW k \in Nat,
         NEW r, NEW r2, Local(r, s, p + k, r2, z, q + k)
  PROVE  Local(Plus(k, r), s, p, Plus(k, r2), z, q)
<1>1. Takes(Plus(k, r), s, p)
  <2>1. ASSUME r.ok PROVE k + r.n \in Nat /\ p + (k + r.n) <= Len(s)
    <3>1. r.n \in Nat /\ (p + k) + r.n <= Len(s) /\ Len(s) \in Nat
      BY <2>1, LenProperties DEF Local, Takes
    <3>2. QED BY <3>1
  <2>2. QED BY <2>1 DEF Takes, Plus, Good, Bad
<1>2. ASSUME NEW m \in Nat, Agree(s, p, z, q, m), r.ok, k + r.n <= m
      PROVE  r2 = r
  <2>1. r.n \in Nat
    BY <1>2 DEF Local, Takes
  <2>2. k \in 0 .. m /\ m - k \in Nat /\ r.n <= m - k
    BY <1>2, <2>1
  <2>3. Agree(s, p + k, z, q + k, m - k)
    BY <1>2, <2>2, AgreeLater, Zenon
  <2>4. QED BY <1>2, <2>2, <2>3 DEF Local, SameWithin
<1>3. ASSUME NEW m \in Nat, Agree(s, p, z, q, m) PROVE SameWithin(Plus(k, r), Plus(k, r2), m)
  <2>1. Plus(k, r).ok => r.ok /\ Plus(k, r).n = k + r.n
    BY DEF Plus, Good, Bad
  <2>2. QED BY <1>2, <1>3, <2>1 DEF SameWithin
<1>4. QED BY <1>1, <1>3 DEF Local

\* What is read after a header.
LEMMA AfterLocal ==
  ASSUME NEW s \in Seq(Byte), NEW p \in Nat, NEW z \in Seq(Byte), NEW q \in Nat,
         NEW hd, hd = CborReadHeaderBuf(s, p), NEW hd2, hd2 = CborReadHeaderBuf(z, q),
         NEW r, NEW r2, NEW rest, NEW rest2,
         r.ok => hd.ok /\ r = Plus(hd.n, rest),
         r.ok /\ hd2 = hd => r2 = Plus(hd.n, rest2),
         r.ok => Local(rest, s, p + hd.n, rest2, z, q + hd.n)
  PROVE  Local(r, s, p, r2, z, q)
<1>1. CASE ~r.ok
  BY <1>1 DEF Local, Takes, SameWithin
<1>2. CASE r.ok
  <2>1. hd.ok /\ r = Plus(hd.n, rest) /\ hd.n \in Nat
    BY <1>2, HeaderRead
  <2>2. Local(Plus(hd.n, rest), s, p, Plus(hd.n, rest2), z, q)
    BY <1>2, <2>1, PlusLocal, Zenon
  <2>3. Takes(r, s, p)
    BY <2>1, <2>2 DEF Local
  <2>4. ASSUME NEW m \in Nat, Agree(s, p, z, q, m), r.n <= m PROVE r2 = r
    <3>1. rest.ok
      BY <1>2, <2>1 DEF Plus, Bad
    <3>2. r.n = hd.n + rest.n /\ rest.n \in Nat
      BY <1>2, <2>1, <3>1 DEF Plus, Good, Local, Takes
    <3>3. hd.n <= m
      BY <2>1, <2>4, <3>2
    <3>4. CborReadHeaderBuf(z, q) = CborReadHeaderBuf(s, p)
      BY <2>1, <2>4, <3>3, HeaderAgrees
    <3>5. r2 = Plus(hd.n, rest2)
      BY <1>2, <3>4
    <3>6. SameWithin(Plus(hd.n, rest), Plus(hd.n, rest2), m)
      BY <2>2, <2>4 DEF Local
    <3>7. QED BY <1>2, <2>1, <2>4, <3>5, <3>6 DEF SameWithin
  <2>5. QED BY <2>3, <2>4 DEF Local, SameWithin
<1>3. QED BY <1>1, <1>2

LEMMA NothingMore ==
  ASSUME NEW s \in Seq(Byte), NEW p \in Nat, p <= Len(s), NEW z, NEW q, NEW v
  PROVE  Local(Good(v, 0), s, p, Good(v, 0), z, q)
<1>1. p + 0 = p
  OBVIOUS
<1>2. QED BY <1>1 DEF Local, Takes, SameWithin, Good

\* A header only.
LEMMA HeaderLocal ==
  ASSUME NEW s \in Seq(Byte), NEW p \in Nat, NEW z \in Seq(Byte), NEW q \in Nat,
         NEW hd, hd = CborReadHeaderBuf(s, p), NEW hd2, hd2 = CborReadHeaderBuf(z, q),
         NEW r, NEW r2, NEW v,
         r.ok => hd.ok /\ r = Plus(hd.n, Good(v, 0)),
         r.ok /\ hd2 = hd => r2 = r
  PROVE  Local(r, s, p, r2, z, q)
<1>1. ASSUME r.ok PROVE Local(Good(v, 0), s, p + hd.n, Good(v, 0), z, q + hd.n)
  <2>1. hd.n \in Nat /\ p + hd.n <= Len(s)
    BY <1>1, HeaderRead
  <2>2. QED BY <2>1, NothingMore
<1>2. r.ok /\ hd2 = hd => r2 = Plus(hd.n, Good(v, 0))
  OBVIOUS
<1>3. QED BY <1>1, <1>2, AfterLocal, Zenon

\* The same bytes for another value.
LEMMA OtherLocal ==
  ASSUME NEW s, NEW p, NEW z, NEW q, NEW r, NEW r2, Local(r, s, p, r2, z, q),
         NEW other, NEW other2,
         other.ok => r.ok /\ other = Good(other.v, r.n),
         other.ok /\ r2 = r => other2 = other
  PROVE  Local(other, s, p, other2, z, q)
<1>1. other.ok => other.n = r.n
  BY DEF Good
<1>2. QED BY <1>1 DEF Local, Takes, SameWithin

LEMMA BytesLocal ==
  ASSUME NEW s \in Seq(Byte), NEW p \in Nat, NEW z \in Seq(Byte), NEW q \in Nat, NEW k \in Nat
  PROVE  Local(ReadFull(s, p, k), s, p, ReadFull(z, q, k), z, q)
<1>1. CASE ~(p + k <= Len(s))
  <2>1. ~ReadFull(s, p, k).ok
    BY <1>1 DEF ReadFull, Bad
  <2>2. QED BY <2>1 DEF Local, Takes, SameWithin
<1>2. CASE p + k <= Len(s)
  <2>1. ReadFull(s, p, k) = Good(SubSeq(s, p + 1, p + k), k)
    BY <1>2 DEF ReadFull
  <2>2. ASSUME NEW m \in Nat, Agree(s, p, z, q, m), k <= m PROVE ReadFull(z, q, k) = ReadFull(s, p, k)
    <3>1. k \in 0 .. m
      BY <2>2
    <3>2. SameSlice(s, p, z, q, k)
      BY <2>2, <3>1, AgreeSlice, Zenon
    <3>3. q + k <= Len(z)
      <4>1. Len(z) \in Nat /\ q + m <= Len(z)
        BY <2>2, LenProperties DEF Agree
      <4>2. QED BY <2>2, <4>1
    <3>4. QED BY <2>1, <3>2, <3>3 DEF ReadFull, SameSlice
  <2>3. QED BY <1>2, <2>1, <2>2 DEF Local, Takes, SameWithin, Good
<1>3. QED BY <1>1, <1>2

-----------------------------------------------------------------------------

\* The decoders of utils.go and of gen.go, one after the other.
LEMMA Uint64Local ==
  ASSUME NEW s \in Seq(Byte), NEW p \in Nat, NEW z \in Seq(Byte), NEW q \in Nat
  PROVE  Local(ReadUint64(s, p), s, p, ReadUint64(z, q), z, q)
<1> DEFINE hd == CborReadHeaderBuf(s, p)
<1>1. ReadUint64(s, p).ok => hd.ok /\ ReadUint64(s, p) = Plus(hd.n, Good(hd.extra, 0))
  BY DEF ReadUint64, Headed, After, Bad
<1>2. CborReadHeaderBuf(z, q) = hd => ReadUint64(z, q) = ReadUint64(s, p)
  BY DEF ReadUint64, Headed
<1> HIDE DEF hd
<1>3. QED BY <1>1, <1>2, HeaderLocal DEF hd

LEMMA UintLocal ==
  ASSUME NEW s \in Seq(Byte), NEW p \in Nat, NEW z \in Seq(Byte), NEW q \in Nat, NEW w
  PROVE  Local(ReadUint(s, p, w), s, p, ReadUint(z, q, w), z, q)
<1> DEFINE hd == CborReadHeaderBuf(s, p)
<1>1. ReadUint(s, p, w).ok => hd.ok /\ ReadUint(s, p, w) = Plus(hd.n, Good(hd.extra, 0))
  BY DEF ReadUint, Headed, After, Bad
<1>2. CborReadHeaderBuf(z, q) = hd => ReadUint(z, q, w) = ReadUint(s, p, w)
  BY DEF ReadUint, Headed
<1> HIDE DEF hd
<1>3. QED BY <1>1, <1>2, HeaderLocal DEF hd

LEMMA NarrowedLocal ==
  ASSUME NEW s \in Seq(Byte), NEW p \in Nat, NEW z \in Seq(Byte), NEW q \in Nat, NEW w
  PROVE  Local(ReadNarrowed(s, p, w), s, p, ReadNarrowed(z, q, w), z, q)
<1> DEFINE hd == CborReadHeaderBuf(s, p)
<1>1. ReadNarrowed(s, p, w).ok => hd.ok /\ ReadNarrowed(s, p, w) = Plus(hd.n, Good(UintOf(hd.extra, w), 0))
  BY DEF ReadNarrowed, Headed, After, Bad
<1>2. CborReadHeaderBuf(z, q) = hd => ReadNarrowed(z, q, w) = ReadNarrowed(s, p, w)
  BY DEF ReadNarrowed, Headed
<1> HIDE DEF hd
<1>3. QED BY <1>1, <1>2, HeaderLocal DEF hd

LEMMA IntLocal ==
  ASSUME NEW s \in Seq(Byte), NEW p \in Nat, NEW z \in Seq(Byte), NEW q \in Nat, NEW w
  PROVE  Local(ReadInt(s, p, w), s, p, ReadInt(z, q, w), z, q)
<1> DEFINE hd == CborReadHeaderBuf(s, p)
<1>1. ReadInt(s, p, w).ok => hd.ok /\ ReadInt(s, p, w) = Plus(hd.n, Good(IntRead(hd, w), 0))
  BY DEF ReadInt, Headed, After, Bad
<1>2. CborReadHeaderBuf(z, q) = hd => ReadInt(z, q, w) = ReadInt(s, p, w)
  BY DEF ReadInt, Headed
<1> HIDE DEF hd
<1>3. QED BY <1>1, <1>2, HeaderLocal DEF hd

LEMMA BoolLocal ==
  ASSUME NEW s \in Seq(Byte), NEW p \in Nat, NEW z \in Seq(Byte), NEW q \in Nat
  PROVE  Local(ReadBool(s, p), s, p, ReadBool(z, q), z, q)
<1> DEFINE hd == CborReadHeaderBuf(s, p)
<1>1. ReadBool(s, p).ok => hd.ok /\ ReadBool(s, p) = Plus(hd.n, Good(BoolRead(hd), 0))
  BY DEF ReadBool, Headed, After, Bad
<1>2. CborReadHeaderBuf(z, q) = hd => ReadBool(z, q) = ReadBool(s, p)
  BY DEF ReadBool, Headed
<1> HIDE DEF hd
<1>3. QED BY <1>1, <1>2, HeaderLocal DEF hd

LEMMA BytesOfLocal ==
  ASSUME NEW s \in Seq(Byte), NEW p \in Nat, NEW z \in Seq(Byte), NEW q \in Nat, NEW k \in Nat
  PROVE  Local(ReadBytesOf(s, p, k), s, p, ReadBytesOf(z, q, k), z, q)
<1> DEFINE hd == CborReadHeaderBuf(s, p)
           r  == ReadBytesOf(s, p, k)
           r2 == ReadBytesOf(z, q, k)
           rest  == ReadFull(s, p + hd.n, k)
           rest2 == ReadFull(z, q + hd.n, k)
<1>1. r.ok => hd.ok /\ r = Plus(hd.n, rest)
  BY DEF ReadBytesOf, Headed, After, Bad
<1>2. r.ok /\ CborReadHeaderBuf(z, q) = hd => r2 = Plus(hd.n, rest2)
  BY DEF ReadBytesOf, Headed, After, Bad
<1>3. r.ok => Local(rest, s, p + hd.n, rest2, z, q + hd.n)
  <2>1. SUFFICES ASSUME r.ok PROVE Local(rest, s, p + hd.n, rest2, z, q + hd.n)
    OBVIOUS
  <2>2. hd.ok /\ hd.n \in Nat /\ hd.extra \in Nat
    <3>1. hd.ok
      BY <1>1, <2>1
    <3>2. QED BY <3>1, HeaderRead, CodecSizes
  <2> HIDE DEF hd
  <2>3. p + hd.n \in Nat /\ q + hd.n \in Nat
    BY <2>2
  <2>4. QED BY <2>2, <2>3, BytesLocal, Zenon
<1> HIDE DEF hd, r, r2, rest, rest2
<1>4. Local(r, s, p, r2, z, q)
  BY <1>1, <1>2, <1>3, AfterLocal DEF hd
<1>5. QED BY <1>4 DEF r, r2

LEMMA ByteArrayLocal ==
  ASSUME NEW s \in Seq(Byte), NEW p \in Nat, NEW z \in Seq(Byte), NEW q \in Nat
  PROVE  Local(ReadByteArray(s, p), s, p, ReadByteArray(z, q), z, q)
<1> DEFINE hd == CborReadHeaderBuf(s, p)
           r  == ReadByteArray(s, p)
           r2 == ReadByteArray(z, q)
           rest  == ReadFull(s, p + hd.n, hd.extra)
           rest2 == ReadFull(z, q + hd.n, hd.extra)
<1>1. r.ok => hd.ok /\ r = Plus(hd.n, rest)
  BY DEF ReadByteArray, Headed, After, Bad
<1>2. r.ok /\ CborReadHeaderBuf(z, q) = hd => r2 = Plus(hd.n, rest2)
  BY DEF ReadByteArray, Headed, After, Bad
<1>3. r.ok => Local(rest, s, p + hd.n, rest2, z, q + hd.n)
  <2>1. SUFFICES ASSUME r.ok PROVE Local(rest, s, p + hd.n, rest2, z, q + hd.n)
    OBVIOUS
  <2>2. hd.ok /\ hd.n \in Nat /\ hd.extra \in Nat
    <3>1. hd.ok
      BY <1>1, <2>1
    <3>2. QED BY <3>1, HeaderRead, CodecSizes
  <2> HIDE DEF hd
  <2>3. p + hd.n \in Nat /\ q + hd.n \in Nat
    BY <2>2
  <2>4. QED BY <2>2, <2>3, BytesLocal, Zenon
<1> HIDE DEF hd, r, r2, rest, rest2
<1>4. Local(r, s, p, r2, z, q)
  BY <1>1, <1>2, <1>3, AfterLocal DEF hd
<1>5. QED BY <1>4 DEF r, r2

LEMMA StringLocal ==
  ASSUME NEW s \in Seq(Byte), NEW p \in Nat, NEW z \in Seq(Byte), NEW q \in Nat
  PROVE  Local(ReadString(s, p), s, p, ReadString(z, q), z, q)
<1> DEFINE hd == CborReadHeaderBuf(s, p)
           r  == Headed(s, p, LAMBDA h : h.maj = MajTextString /\ h.extra <= MaxLength,
                        LAMBDA h : ReadFull(s, p + h.n, h.extra))
           r2 == Headed(z, q, LAMBDA h : h.maj = MajTextString /\ h.extra <= MaxLength,
                        LAMBDA h : ReadFull(z, q + h.n, h.extra))
           rest  == ReadFull(s, p + hd.n, hd.extra)
           rest2 == ReadFull(z, q + hd.n, hd.extra)
<1>1. r.ok => hd.ok /\ r = Plus(hd.n, rest)
  BY DEF Headed, After, Bad
<1>2. r.ok /\ CborReadHeaderBuf(z, q) = hd => r2 = Plus(hd.n, rest2)
  BY DEF Headed, After, Bad
<1>3. r.ok => Local(rest, s, p + hd.n, rest2, z, q + hd.n)
  <2>1. SUFFICES ASSUME r.ok PROVE Local(rest, s, p + hd.n, rest2, z, q + hd.n)
    OBVIOUS
  <2>2. hd.ok /\ hd.n \in Nat /\ hd.extra \in Nat
    <3>1. hd.ok
      BY <1>1, <2>1
    <3>2. QED BY <3>1, HeaderRead, CodecSizes
  <2> HIDE DEF hd
  <2>3. p + hd.n \in Nat /\ q + hd.n \in Nat
    BY <2>2
  <2>4. QED BY <2>2, <2>3, BytesLocal, Zenon
<1>4. ReadString(s, p) = Uncounted(r) /\ ReadString(z, q) = Uncounted(r2)
  BY DEF ReadString
<1> HIDE DEF hd, r, r2, rest, rest2
<1>5. Local(r, s, p, r2, z, q)
  BY <1>1, <1>2, <1>3, AfterLocal DEF hd
<1>6. r.ok => r = Good(r.v, r.n)
  BY <1>5 DEF Local, Takes
<1>7. ReadString(s, p).ok => r.ok /\ ReadString(s, p) = r
  BY <1>4 DEF Uncounted, Bad
<1>8. ReadString(s, p).ok => r.ok /\ ReadString(s, p) = Good(ReadString(s, p).v, r.n)
  BY <1>6, <1>7
<1>9. ReadString(s, p).ok /\ r2 = r => ReadString(z, q) = ReadString(s, p)
  BY <1>4
<1>10. QED BY <1>5, <1>8, <1>9, OtherLocal, Zenon

LEMMA StructLocal ==
  ASSUME NEW s \in Seq(Byte), NEW p \in Nat, NEW z \in Seq(Byte), NEW q \in Nat
  PROVE  Local(ReadStruct(s, p), s, p, ReadStruct(z, q), z, q)
<1> DEFINE hd == CborReadHeaderBuf(s, p)
           r  == Headed(s, p, LAMBDA h : h.maj = MajArray /\ h.extra = 1, LAMBDA h : ReadInt(s, p + h.n, Word))
           r2 == Headed(z, q, LAMBDA h : h.maj = MajArray /\ h.extra = 1, LAMBDA h : ReadInt(z, q + h.n, Word))
           rest  == ReadInt(s, p + hd.n, Word)
           rest2 == ReadInt(z, q + hd.n, Word)
<1>1. r.ok => hd.ok /\ r = Plus(hd.n, rest)
  BY DEF Headed, After, Bad
<1>2. r.ok /\ CborReadHeaderBuf(z, q) = hd => r2 = Plus(hd.n, rest2)
  BY DEF Headed, After, Bad
<1>3. r.ok => Local(rest, s, p + hd.n, rest2, z, q + hd.n)
  <2>1. SUFFICES ASSUME r.ok PROVE Local(rest, s, p + hd.n, rest2, z, q + hd.n)
    OBVIOUS
  <2>2. hd.ok /\ hd.n \in Nat /\ hd.extra \in Nat
    <3>1. hd.ok
      BY <1>1, <2>1
    <3>2. QED BY <3>1, HeaderRead, CodecSizes
  <2> HIDE DEF hd
  <2>3. p + hd.n \in Nat /\ q + hd.n \in Nat
    BY <2>2
  <2>4. QED BY <2>2, <2>3, IntLocal, Zenon
<1>4. ReadStruct(s, p) = Uncounted(r) /\ ReadStruct(z, q) = Uncounted(r2)
  BY DEF ReadStruct
<1> HIDE DEF hd, r, r2, rest, rest2
<1>5. Local(r, s, p, r2, z, q)
  BY <1>1, <1>2, <1>3, AfterLocal DEF hd
<1>6. r.ok => r = Good(r.v, r.n)
  BY <1>5 DEF Local, Takes
<1>7. ReadStruct(s, p).ok => r.ok /\ ReadStruct(s, p) = r
  BY <1>4 DEF Uncounted, Bad
<1>8. ReadStruct(s, p).ok => r.ok /\ ReadStruct(s, p) = Good(ReadStruct(s, p).v, r.n)
  BY <1>6, <1>7
<1>9. ReadStruct(s, p).ok /\ r2 = r => ReadStruct(z, q) = ReadStruct(s, p)
  BY <1>4
<1>10. QED BY <1>5, <1>8, <1>9, OtherLocal, Zenon

LEMMA CidLocal ==
  ASSUME NEW s \in Seq(Byte), NEW p \in Nat, NEW z \in Seq(Byte), NEW q \in Nat
  PROVE  Local(ReadCid(s, p), s, p, ReadCid(z, q), z, q)
<1> DEFINE hd == CborReadHeaderBuf(s, p)
           r  == Headed(s, p, LAMBDA h : h.maj = MajTag /\ h.extra = LinkTag, LAMBDA h : ReadByteArray(s, p + h.n))
           r2 == Headed(z, q, LAMBDA h : h.maj = MajTag /\ h.extra = LinkTag, LAMBDA h : ReadByteArray(z, q + h.n))
           rest  == ReadByteArray(s, p + hd.n)
           rest2 == ReadByteArray(z, q + hd.n)
<1>1. r.ok => hd.ok /\ r = Plus(hd.n, rest)
  BY DEF Headed, After, Bad
<1>2. r.ok /\ CborReadHeaderBuf(z, q) = hd => r2 = Plus(hd.n, rest2)
  BY DEF Headed, After, Bad
<1>3. r.ok => Local(rest, s, p + hd.n, rest2, z, q + hd.n)
  <2>1. SUFFICES ASSUME r.ok PROVE Local(rest, s, p + hd.n, rest2, z, q + hd.n)
    OBVIOUS
  <2>2. hd.ok /\ hd.n \in Nat /\ hd.extra \in Nat
    <3>1. hd.ok
      BY <1>1, <2>1
    <3>2. QED BY <3>1, HeaderRead, CodecSizes
  <2> HIDE DEF hd
  <2>3. p + hd.n \in Nat /\ q + hd.n \in Nat
    BY <2>2
  <2>4. QED BY <2>2, <2>3, ByteArrayLocal, Zenon
<1>4. ReadCid(s, p) = bufToCid(r) /\ ReadCid(z, q) = bufToCid(r2)
  BY DEF ReadCid
<1> HIDE DEF hd, r, r2, rest, rest2
<1>5. Local(r, s, p, r2, z, q)
  BY <1>1, <1>2, <1>3, AfterLocal DEF hd
<1>6. ReadCid(s, p).ok => r.ok /\ ReadCid(s, p) = Good(Tail(r.v), r.n)
  BY <1>4 DEF bufToCid, Bad
<1>7. ReadCid(s, p).ok => r.ok /\ ReadCid(s, p) = Good(ReadCid(s, p).v, r.n)
  BY <1>6 DEF Good
<1>8. ReadCid(s, p).ok /\ r2 = r => ReadCid(z, q) = ReadCid(s, p)
  BY <1>4
<1>9. QED BY <1>5, <1>7, <1>8, OtherLocal, Zenon

LEMMA TimeLocal ==
  ASSUME NEW s \in Seq(Byte), NEW p \in Nat, NEW z \in Seq(Byte), NEW q \in Nat
  PROVE  Local(ReadTime(s, p), s, p, ReadTime(z, q), z, q)
<1> DEFINE r  == ReadInt(s, p, Word)
           r2 == ReadInt(z, q, Word)
<1>1. ReadTime(s, p) = Uncounted(r) /\ ReadTime(z, q) = Uncounted(r2)
  BY DEF ReadTime
<1>2. Local(r, s, p, r2, z, q)
  BY IntLocal, Zenon
<1> HIDE DEF r, r2
<1>3. r.ok => r = Good(r.v, r.n)
  BY <1>2 DEF Local, Takes
<1>4. ReadTime(s, p).ok => r.ok /\ ReadTime(s, p) = r
  BY <1>1 DEF Uncounted, Bad
<1>5. ReadTime(s, p).ok => r.ok /\ ReadTime(s, p) = Good(ReadTime(s, p).v, r.n)
  BY <1>3, <1>4
<1>6. ReadTime(s, p).ok /\ r2 = r => ReadTime(z, q) = ReadTime(s, p)
  BY <1>1
<1>7. QED BY <1>2, <1>5, <1>6, OtherLocal, Zenon

LEMMA CborCidLocal ==
  ASSUME NEW s \in Seq(Byte), NEW p \in Nat, NEW z \in Seq(Byte), NEW q \in Nat
  PROVE  Local(ReadCborCid(s, p), s, p, ReadCborCid(z, q), z, q)
<1> DEFINE r  == ReadCid(s, p)
           r2 == ReadCid(z, q)
<1>1. ReadCborCid(s, p) = Uncounted(r) /\ ReadCborCid(z, q) = Uncounted(r2)
  BY DEF ReadCborCid
<1>2. Local(r, s, p, r2, z, q)
  BY CidLocal, Zenon
<1> HIDE DEF r, r2
<1>3. r.ok => r = Good(r.v, r.n)
  BY <1>2 DEF Local, Takes
<1>4. ReadCborCid(s, p).ok => r.ok /\ ReadCborCid(s, p) = r
  BY <1>1 DEF Uncounted, Bad
<1>5. ReadCborCid(s, p).ok => r.ok /\ ReadCborCid(s, p) = Good(ReadCborCid(s, p).v, r.n)
  BY <1>3, <1>4
<1>6. ReadCborCid(s, p).ok /\ r2 = r => ReadCborCid(z, q) = ReadCborCid(s, p)
  BY <1>1
<1>7. QED BY <1>2, <1>5, <1>6, OtherLocal, Zenon

-----------------------------------------------------------------------------

\* Induction over an interval.
LEMMA Upward ==
  ASSUME NEW n \in Nat, NEW S, 0 \in S, \A m \in 0 .. (n - 1) : m \in S => m + 1 \in S
  PROVE  \A m \in 0 .. n : m \in S
<1> DEFINE T == { m \in 0 .. n : m \notin S }
<1>1. SUFFICES ASSUME T # {} PROVE FALSE
  OBVIOUS
<1>2. PICK m \in T : \A k \in T : m <= k
  <2>1. T \subseteq Nat
    OBVIOUS
  <2> HIDE DEF T
  <2>2. QED BY <1>1, <2>1, LeastElement
<1>3. m # 0 /\ m - 1 \in 0 .. (n - 1) /\ m - 1 \notin T
  BY <1>2
<1>4. m - 1 \in S
  BY <1>3
<1>5. QED BY <1>2, <1>3, <1>4

GotStep(p, read, f, j) == IF j = 0 THEN Good(<< >>, 0) ELSE AndNext(f[j - 1], p, read)

LEMMA GotExists ==
  ASSUME NEW p, NEW read, NEW n \in Nat
  PROVE  \E f : f = [j \in 0 .. n |-> GotStep(p, read, f, j)]
<1> DEFINE S == { m \in 0 .. n : \E f : f = [j \in 0 .. m |-> GotStep(p, read, f, j)] }
<1>1. 0 \in S
  <2> DEFINE f == [j \in 0 .. 0 |-> Good(<< >>, 0)]
  <2>1. f = [j \in 0 .. 0 |-> GotStep(p, read, f, j)]
    BY DEF GotStep
  <2>2. QED BY <2>1
<1>2. ASSUME NEW m \in 0 .. (n - 1), m \in S PROVE m + 1 \in S
  <2>1. PICK f : f = [j \in 0 .. m |-> GotStep(p, read, f, j)]
    BY <1>2
  <2> DEFINE g == [j \in 0 .. (m + 1) |-> IF j = m + 1 THEN GotStep(p, read, f, m + 1) ELSE f[j]]
  <2>2. m + 1 \in 0 .. n /\ m \in 0 .. (m + 1)
    OBVIOUS
  <2>3. \A j \in 0 .. m : g[j] = f[j] /\ j \in 0 .. (m + 1)
    OBVIOUS
  <2>4. ASSUME NEW j \in 0 .. (m + 1) PROVE g[j] = GotStep(p, read, g, j)
    <3>1. CASE j = m + 1
      <4>1. g[j] = GotStep(p, read, f, m + 1) /\ j - 1 = m /\ m \in 0 .. m
        BY <3>1
      <4>2. g[j - 1] = f[m]
        BY <2>3, <4>1
      <4> HIDE DEF g
      <4>3. QED BY <3>1, <4>1, <4>2 DEF GotStep
    <3>2. CASE j # m + 1
      <4>1. j \in 0 .. m
        BY <3>2
      <4>2. g[j] = GotStep(p, read, f, j)
        BY <2>1, <2>3, <4>1
      <4>3. j # 0 => g[j - 1] = f[j - 1]
        BY <2>3, <4>1
      <4> HIDE DEF g
      <4>4. QED BY <4>2, <4>3 DEF GotStep
    <3>3. QED BY <3>1, <3>2
  <2>5. g = [j \in 0 .. (m + 1) |-> GotStep(p, read, g, j)]
    <3> DEFINE h == [j \in 0 .. (m + 1) |-> GotStep(p, read, g, j)]
    <3>1. DOMAIN g = DOMAIN h /\ \A j \in 0 .. (m + 1) : g[j] = h[j]
      BY <2>4
    <3>2. g = h
      BY <3>1
    <3>3. QED BY <3>2
  <2>6. QED BY <2>2, <2>5
<1>3. \A m \in 0 .. n : m \in S
  <2> HIDE DEF S
  <2>1. QED BY <1>1, <1>2, Upward
<1>4. n \in S
  BY <1>3
<1>5. QED BY <1>4

\* What has been got after each element.
Got(p, k, read, got) ==
  /\ got[0] = Good(<< >>, 0)
  /\ \A j \in 1 .. k : got[j] = AndNext(got[j - 1], p, read)

LEMMA GotIs ==
  ASSUME NEW p, NEW k \in Nat, NEW read
  PROVE  \E got : Got(p, k, read, got) /\ Elements(p, k, read) = got[k]
<1> DEFINE f == CHOOSE g : g = [j \in 0 .. k |-> IF j = 0 THEN Good(<< >>, 0) ELSE AndNext(g[j - 1], p, read)]
<1>1. f = [j \in 0 .. k |-> IF j = 0 THEN Good(<< >>, 0) ELSE AndNext(f[j - 1], p, read)]
  <2>1. \E g : g = [j \in 0 .. k |-> IF j = 0 THEN Good(<< >>, 0) ELSE AndNext(g[j - 1], p, read)]
    <3>1. \E g : g = [j \in 0 .. k |-> GotStep(p, read, g, j)]
      BY GotExists
    <3>2. QED BY <3>1, Zenon DEF GotStep
  <2>2. QED BY <2>1, Zenon
<1>2. Elements(p, k, read) = f[k]
  BY DEF Elements
<1> HIDE DEF f
<1>3. f[0] = Good(<< >>, 0)
  BY <1>1
<1>4. \A j \in 1 .. k : f[j] = AndNext(f[j - 1], p, read)
  BY <1>1
<1>5. QED BY <1>2, <1>3, <1>4 DEF Got

\* k elements from p on, the j-th of which ends at[j] bytes further.
Along(p, k, read, at) ==
  /\ at \in [0 .. k -> Nat] /\ at[0] = 0
  /\ \A j \in 1 .. k : read[p + at[j - 1]].ok /\ at[j] = at[j - 1] + read[p + at[j - 1]].n

LEMMA AlongUp ==
  ASSUME NEW p, NEW k \in Nat, NEW read, NEW at, Along(p, k, read, at),
         \A j \in 1 .. k : read[p + at[j - 1]].n \in Nat
  PROVE  \A j \in 0 .. k : at[j] <= at[k]
<1> DEFINE S == { m \in 0 .. k : \A j \in 0 .. m : at[j] <= at[m] }
<1>1. 0 \in S
  BY DEF Along
<1>2. ASSUME NEW m \in 0 .. (k - 1), m \in S PROVE m + 1 \in S
  <2>1. m + 1 \in 1 .. k /\ m + 1 \in 0 .. k /\ m \in 0 .. k /\ (m + 1) - 1 = m
    OBVIOUS
  <2>2. at[m + 1] = at[m] + read[p + at[m]].n /\ read[p + at[m]].n \in Nat /\ at[m] \in Nat /\ at[m + 1] \in Nat
    BY <2>1 DEF Along
  <2>3. ASSUME NEW j \in 0 .. (m + 1) PROVE at[j] <= at[m + 1]
    <3>1. CASE j = m + 1
      BY <2>2, <3>1
    <3>2. CASE j # m + 1
      <4>1. j \in 0 .. m /\ j \in 0 .. k
        BY <3>2
      <4>2. at[j] <= at[m] /\ at[j] \in Nat
        BY <1>2, <4>1 DEF Along
      <4>3. QED BY <2>2, <4>2
    <3>3. QED BY <3>1, <3>2
  <2>4. QED BY <2>1, <2>3
<1>3. \A m \in 0 .. k : m \in S
  <2> HIDE DEF S
  <2>1. QED BY <1>1, <1>2, Upward
<1>4. QED BY <1>3

LEMMA AppendTo ==
  ASSUME NEW m \in Nat, NEW f, NEW v, f = [c \in 1 .. m |-> f[c]]
  PROVE  Append(f, v) = [c \in 1 .. (m + 1) |-> IF c = m + 1 THEN v ELSE f[c]]
<1> DEFINE R == { f[c] : c \in 1 .. m } \cup {v}
           g == [c \in 1 .. (m + 1) |-> IF c = m + 1 THEN v ELSE f[c]]
<1>1. f \in Seq(R)
  <2>1. f \in [1 .. m -> R]
    <3>1. \A c \in 1 .. m : f[c] \in R
      OBVIOUS
    <3> HIDE DEF R
    <3>2. QED BY <3>1
  <2> HIDE DEF R
  <2>2. QED BY <2>1
<1>2. v \in R
  OBVIOUS
<1> HIDE DEF R
<1>3. Len(f) = m
  BY <1>1
<1>4. /\ Append(f, v) \in Seq(R) /\ Len(Append(f, v)) = m + 1
      /\ \A c \in 1 .. m : Append(f, v)[c] = f[c]
      /\ Append(f, v)[m + 1] = v
  BY <1>1, <1>2, <1>3, AppendProperties
<1>5. DOMAIN Append(f, v) = 1 .. (m + 1) /\ Append(f, v) = [c \in 1 .. (m + 1) |-> Append(f, v)[c]]
  BY <1>4
<1>6. \A c \in 1 .. (m + 1) : Append(f, v)[c] = g[c]
  BY <1>4
<1>7. QED BY <1>5, <1>6

LEMMA NextIs ==
  ASSUME NEW p, NEW read, NEW vals, NEW a, read[p + a].ok
  PROVE  AndNext(Good(vals, a), p, read) = Good(Append(vals, read[p + a].v), a + read[p + a].n)
<1> DEFINE r == read[p + a]
           g == Good(vals, a)
           x == Mapped(r, LAMBDA v : Append(vals, v))
<1>1. g.ok /\ g.v = vals /\ g.n = a
  BY DEF Good
<1>2. x = Good(Append(vals, r.v), r.n)
  BY DEF Mapped
<1>3. AndNext(g, p, read) = IF g.ok THEN Plus(g.n, IF read[p + g.n].ok THEN Good(Append(g.v, read[p + g.n].v), read[p + g.n].n)
                                                    ELSE read[p + g.n])
                            ELSE g
  BY DEF AndNext, Mapped
<1>4. AndNext(g, p, read) = Plus(a, x)
  <2> HIDE DEF g, x
  <2>1. QED BY <1>1, <1>2, <1>3
<1> HIDE DEF x, g, r
<1>5. Plus(a, x) = Good(Append(vals, r.v), a + r.n)
  BY <1>2 DEF Plus, Good
<1>6. QED BY <1>4, <1>5 DEF g, r

LEMMA GotAlong ==
  ASSUME NEW p, NEW k \in Nat, NEW read, NEW got, Got(p, k, read, got), NEW m \in 0 .. k,
         NEW at, Along(p, m, read, at)
  PROVE  got[m] = Good([j \in 1 .. m |-> read[p + at[j - 1]].v], at[m])
<1> DEFINE vals(j) == [c \in 1 .. j |-> read[p + at[c - 1]].v]
           S == { j \in 0 .. m : got[j] = Good(vals(j), at[j]) }
<1>1. 0 \in S
  <2>1. vals(0) = << >>
    OBVIOUS
  <2>2. got[0] = Good(<< >>, 0) /\ at[0] = 0
    BY DEF Got, Along
  <2> HIDE DEF vals
  <2>3. QED BY <2>1, <2>2
<1>2. ASSUME NEW j \in 0 .. (m - 1), j \in S PROVE j + 1 \in S
  <2>1. j + 1 \in 1 .. k /\ j + 1 \in 1 .. m /\ (j + 1) - 1 = j /\ j + 1 \in 0 .. m /\ j \in Nat
    OBVIOUS
  <2>2. got[j + 1] = AndNext(got[j], p, read)
    BY <2>1 DEF Got
  <2>3. got[j] = Good(vals(j), at[j])
    BY <1>2
  <2>4. read[p + at[j]].ok /\ at[j + 1] = at[j] + read[p + at[j]].n
    BY <2>1 DEF Along
  <2>5. Append(vals(j), read[p + at[j]].v) = vals(j + 1)
    <3>1. vals(j) = [c \in 1 .. j |-> vals(j)[c]]
      OBVIOUS
    <3>2. \A c \in 1 .. (j + 1) : vals(j + 1)[c] = IF c = j + 1 THEN read[p + at[j]].v ELSE vals(j)[c]
      BY <2>1
    <3>3. vals(j + 1) = [c \in 1 .. (j + 1) |-> IF c = j + 1 THEN read[p + at[j]].v ELSE vals(j)[c]]
      BY <3>2
    <3>4. PICK f, x : f = vals(j) /\ x = read[p + at[j]].v
      OBVIOUS
    <3> HIDE DEF vals
    <3>5. f = [c \in 1 .. j |-> f[c]]
      BY <3>1, <3>4
    <3>6. Append(f, x) = [c \in 1 .. (j + 1) |-> IF c = j + 1 THEN x ELSE f[c]]
      BY <2>1, <3>5, AppendTo
    <3>7. QED BY <3>3, <3>4, <3>6
  <2> HIDE DEF vals
  <2>6. got[j + 1] = Good(vals(j + 1), at[j + 1])
    <3>1. AndNext(Good(vals(j), at[j]), p, read) = Good(Append(vals(j), read[p + at[j]].v), at[j] + read[p + at[j]].n)
      BY <2>4, NextIs
    <3>2. QED BY <2>2, <2>3, <2>4, <2>5, <3>1
  <2>7. QED BY <2>1, <2>6
<1>3. \A j \in 0 .. m : j \in S
  <2> HIDE DEF S
  <2>1. m \in Nat
    OBVIOUS
  <2>2. QED BY <1>1, <1>2, <2>1, Upward
<1>4. m \in 0 .. m
  OBVIOUS
<1>5. QED BY <1>3, <1>4

LEMMA ElementsAlong ==
  ASSUME NEW p, NEW k \in Nat, NEW read, NEW at, Along(p, k, read, at)
  PROVE  Elements(p, k, read) = Good([j \in 1 .. k |-> read[p + at[j - 1]].v], at[k])
<1>1. PICK got : Got(p, k, read, got) /\ Elements(p, k, read) = got[k]
  BY GotIs
<1>2. k \in 0 .. k
  OBVIOUS
<1>3. QED BY <1>1, <1>2, GotAlong

LEMMA GotNoMore ==
  ASSUME NEW p, NEW k \in Nat, NEW read, NEW got, Got(p, k, read, got), NEW m \in 0 .. k, ~got[m].ok
  PROVE  ~got[k].ok
<1> DEFINE S == { j \in 0 .. k : j >= m => ~got[j].ok }
<1>1. 0 \in S
  OBVIOUS
<1>2. ASSUME NEW j \in 0 .. (k - 1), j \in S PROVE j + 1 \in S
  <2>1. j + 1 \in 1 .. k /\ (j + 1) - 1 = j /\ j + 1 \in 0 .. k
    OBVIOUS
  <2>2. got[j + 1] = AndNext(got[j], p, read)
    BY <2>1 DEF Got
  <2>3. CASE j >= m
    BY <1>2, <2>1, <2>2, <2>3 DEF AndNext
  <2>4. CASE ~(j >= m)
    <3>1. j + 1 >= m => j + 1 = m
      BY <2>4
    <3>2. QED BY <2>1, <3>1
  <2>5. QED BY <2>3, <2>4
<1>3. \A j \in 0 .. k : j \in S
  <2> HIDE DEF S
  <2>1. QED BY <1>1, <1>2, Upward
<1>4. k \in 0 .. k /\ k >= m
  OBVIOUS
<1>5. QED BY <1>3, <1>4

LEMMA ElementsFail ==
  ASSUME NEW p, NEW k \in Nat, NEW read, NEW m \in 1 .. k,
         NEW at, Along(p, m - 1, read, at), ~read[p + at[m - 1]].ok
  PROVE  ~Elements(p, k, read).ok
<1>1. PICK got : Got(p, k, read, got) /\ Elements(p, k, read) = got[k]
  BY GotIs
<1>2. m - 1 \in 0 .. k /\ m \in 0 .. k
  OBVIOUS
<1>3. got[m - 1] = Good([j \in 1 .. (m - 1) |-> read[p + at[j - 1]].v], at[m - 1])
  BY <1>1, <1>2, GotAlong
<1>4. got[m] = AndNext(got[m - 1], p, read)
  BY <1>1 DEF Got
<1>5. ~got[m].ok
  BY <1>3, <1>4 DEF AndNext, Good, Plus, Mapped, Bad
<1>6. QED BY <1>1, <1>2, <1>5, GotNoMore

\* What has been read was along.
LEMMA ElementsRead ==
  ASSUME NEW n \in Nat, NEW p \in 0 .. n, NEW k \in Nat, NEW read,
         \A q \in 0 .. n : read[q].ok => read[q].n \in Nat /\ q + read[q].n <= n,
         Elements(p, k, read).ok
  PROVE  \E at : Along(p, k, read, at) /\ \A j \in 0 .. k : p + at[j] <= n
<1>1. PICK got : Got(p, k, read, got) /\ Elements(p, k, read) = got[k]
  BY GotIs
<1>2. \A j \in 0 .. k : got[j].ok
  BY <1>1, GotNoMore
<1> DEFINE Fine(j) == got[j].n \in Nat /\ p + got[j].n <= n
           S == { j \in 0 .. k : Fine(j) }
<1>3. 0 \in S
  BY <1>1 DEF Got, Good
<1>4. ASSUME NEW j \in 0 .. (k - 1), Fine(j)
      PROVE  read[p + got[j].n].ok /\ got[j + 1].n = got[j].n + read[p + got[j].n].n /\ Fine(j + 1)
  <2>1. j + 1 \in 1 .. k /\ (j + 1) - 1 = j /\ j + 1 \in 0 .. k /\ j \in 0 .. k
    OBVIOUS
  <2>2. got[j + 1] = AndNext(got[j], p, read) /\ got[j].ok /\ got[j + 1].ok
    BY <1>1, <1>2, <2>1 DEF Got
  <2>3. read[p + got[j].n].ok
    BY <2>2 DEF AndNext, Plus, Mapped, Bad
  <2>4. got[j + 1].n = got[j].n + read[p + got[j].n].n
    BY <2>2, <2>3 DEF AndNext, Plus, Mapped, Good
  <2>5. p + got[j].n \in 0 .. n
    BY <1>4
  <2>6. read[p + got[j].n].n \in Nat /\ (p + got[j].n) + read[p + got[j].n].n <= n
    BY <2>3, <2>5
  <2>7. QED BY <1>4, <2>3, <2>4, <2>6
<1>5. \A j \in 0 .. k : j \in S
  <2>1. ASSUME NEW j \in 0 .. (k - 1), j \in S PROVE j + 1 \in S
    BY <1>4, <2>1
  <2> HIDE DEF S
  <2>2. QED BY <1>3, <2>1, Upward
<1> DEFINE at == [j \in 0 .. k |-> got[j].n]
<1>6. at \in [0 .. k -> Nat] /\ at[0] = 0
  <2>1. \A j \in 0 .. k : got[j].n \in Nat
    BY <1>5
  <2>2. got[0].n = 0
    BY <1>1 DEF Got, Good
  <2>3. QED BY <2>1, <2>2
<1>7. ASSUME NEW j \in 1 .. k PROVE read[p + at[j - 1]].ok /\ at[j] = at[j - 1] + read[p + at[j - 1]].n
  <2>1. j - 1 \in 0 .. (k - 1) /\ (j - 1) + 1 = j /\ j \in 0 .. k /\ j - 1 \in 0 .. k
    OBVIOUS
  <2>2. Fine(j - 1)
    BY <1>5, <2>1
  <2>3. read[p + got[j - 1].n].ok /\ got[(j - 1) + 1].n = got[j - 1].n + read[p + got[j - 1].n].n
    BY <1>4, <2>1, <2>2
  <2>4. QED BY <2>1, <2>3
<1>8. \A j \in 0 .. k : p + at[j] <= n
  BY <1>5
<1> HIDE DEF at
<1>9. Along(p, k, read, at)
  BY <1>6, <1>7 DEF Along
<1>10. QED BY <1>8, <1>9

\* The same decoder for all positions.
LocalAll(s, read, z, read2) ==
  \A a \in 0 .. Len(s) : \A b \in 0 .. Len(z) : Local(read[a], s, a, read2[b], z, b)

LEMMA ElementsLocal ==
  ASSUME NEW s \in Seq(Byte), NEW p \in Nat, p <= Len(s), NEW z \in Seq(Byte), NEW q \in Nat,
         NEW k \in Nat, NEW read, NEW read2, LocalAll(s, read, z, read2)
  PROVE  Local(Elements(p, k, read), s, p, Elements(q, k, read2), z, q)
<1> DEFINE r == Elements(p, k, read)
           r2 == Elements(q, k, read2)
<1>0. Len(s) \in Nat /\ Len(z) \in Nat /\ p \in 0 .. Len(s) /\ 0 \in 0 .. Len(z)
  BY LenProperties
<1>1. \A a \in 0 .. Len(s) : Takes(read[a], s, a)
  BY <1>0 DEF LocalAll, Local
<1>2. CASE ~r.ok
  BY <1>2 DEF Local, Takes, SameWithin
<1>3. CASE r.ok
  <2>1. \A a \in 0 .. Len(s) : read[a].ok => read[a].n \in Nat /\ a + read[a].n <= Len(s)
    BY <1>1 DEF Takes
  <2>2. PICK at : Along(p, k, read, at) /\ \A j \in 0 .. k : p + at[j] <= Len(s)
    BY <1>0, <1>3, <2>1, ElementsRead
  <2>3. r = Good([j \in 1 .. k |-> read[p + at[j - 1]].v], at[k])
    BY <2>2, ElementsAlong
  <2>4. \A j \in 0 .. k : at[j] \in Nat /\ p + at[j] \in 0 .. Len(s)
    BY <1>0, <2>2 DEF Along
  <2>5. \A j \in 1 .. k : j - 1 \in 0 .. k /\ j \in 0 .. k
    OBVIOUS
  <2>6. \A j \in 1 .. k : read[p + at[j - 1]].n \in Nat
    BY <2>1, <2>2, <2>4, <2>5 DEF Along
  <2>7. \A j \in 0 .. k : at[j] <= at[k]
    BY <2>2, <2>6, AlongUp
  <2>8. Takes(r, s, p)
    BY <2>2, <2>3, <2>4 DEF Takes, Good
  <2>9. ASSUME NEW m \in Nat, Agree(s, p, z, q, m), at[k] <= m PROVE r2 = r
    <3>1. ASSUME NEW j \in 1 .. k PROVE read2[q + at[j - 1]] = read[p + at[j - 1]]
      <4>1. PICK a \in Nat : a = at[j - 1] /\ p + a \in 0 .. Len(s)
        BY <2>4, <2>5
      <4>2. at[j] = a + read[p + a].n /\ at[j] <= at[k] /\ read[p + a].ok /\ read[p + a].n \in Nat
        BY <2>2, <2>5, <2>6, <2>7, <4>1 DEF Along
      <4>3. a \in 0 .. m /\ m - a \in Nat /\ read[p + a].n <= m - a
        <5>1. PICK n \in Nat, c \in Nat : n = read[p + a].n /\ c = at[k]
          <6>1. k \in 0 .. k
            OBVIOUS
          <6>2. at[k] \in Nat /\ read[p + a].n \in Nat
            BY <2>4, <4>2, <6>1, Zenon
          <6>3. QED BY <6>2, Zenon
        <5>2. a + n <= c /\ c <= m
          BY <2>9, <4>2, <5>1
        <5>3. a \in 0 .. m /\ m - a \in Nat /\ n <= m - a
          BY <5>2
        <5>4. QED BY <5>1, <5>3
      <4>4. Agree(s, p + a, z, q + a, m - a)
        BY <2>9, <4>3, AgreeLater, Zenon
      <4>5. q + a \in 0 .. Len(z)
        <5>1. q + m <= Len(z) /\ a <= m
          BY <2>9, <4>3 DEF Agree
        <5>2. QED BY <1>0, <5>1
      <4>6. Local(read[p + a], s, p + a, read2[q + a], z, q + a)
        BY <4>1, <4>5 DEF LocalAll
      <4>7. QED BY <4>1, <4>2, <4>3, <4>4, <4>6 DEF Local, SameWithin
    <3>2. Along(q, k, read2, at)
      BY <2>2, <3>1 DEF Along
    <3>3. r2 = Good([j \in 1 .. k |-> read2[q + at[j - 1]].v], at[k])
      BY <3>2, ElementsAlong
    <3>4. [j \in 1 .. k |-> read2[q + at[j - 1]].v] = [j \in 1 .. k |-> read[p + at[j - 1]].v]
      BY <3>1
    <3>5. QED BY <2>3, <3>3, <3>4
  <2>10. QED BY <2>3, <2>8, <2>9 DEF Local, SameWithin, Good
<1>4. QED BY <1>2, <1>3

LEMMA BytesFieldLocal ==
  ASSUME NEW s \in Seq(Byte), NEW p \in Nat, NEW z \in Seq(Byte), NEW q \in Nat, NEW old, Len(old) \in Nat
  PROVE  Local(ReadBytes(s, p, old), s, p, ReadBytes(z, q, old), z, q)
<1> DEFINE hd == CborReadHeaderBuf(s, p)
           k  == IF hd.extra > 0 THEN hd.extra ELSE Len(old)
           r  == ReadBytes(s, p, old)
           r2 == ReadBytes(z, q, old)
           rest  == ReadFull(s, p + hd.n, k)
           rest2 == ReadFull(z, q + hd.n, k)
<1>1. r.ok => hd.ok /\ r = Plus(hd.n, rest)
  BY DEF ReadBytes, Headed, After, Bad
<1>2. r.ok /\ CborReadHeaderBuf(z, q) = hd => r2 = Plus(hd.n, rest2)
  BY DEF ReadBytes, Headed, After, Bad
<1>3. r.ok => Local(rest, s, p + hd.n, rest2, z, q + hd.n)
  <2>1. SUFFICES ASSUME r.ok PROVE Local(rest, s, p + hd.n, rest2, z, q + hd.n)
    OBVIOUS
  <2>2. hd.ok /\ hd.n \in Nat /\ hd.extra \in Nat
    <3>1. hd.ok
      BY <1>1, <2>1
    <3>2. QED BY <3>1, HeaderRead, CodecSizes
  <2>3. k \in Nat
    BY <2>2
  <2> HIDE DEF hd, k
  <2>4. p + hd.n \in Nat /\ q + hd.n \in Nat
    BY <2>2
  <2>5. QED BY <2>3, <2>4, BytesLocal, Zenon
<1> HIDE DEF hd, r, r2, rest, rest2
<1>4. Local(r, s, p, r2, z, q)
  BY <1>1, <1>2, <1>3, AfterLocal DEF hd
<1>5. QED BY <1>4 DEF r, r2

LEMMA ArrayLocal ==
  ASSUME NEW s \in Seq(Byte), NEW p \in Nat, NEW z \in Seq(Byte), NEW q \in Nat, NEW k \in Nat
  PROVE  Local(ReadArray(s, p, k), s, p, ReadArray(z, q, k), z, q)
<1> DEFINE hd == CborReadHeaderBuf(s, p)
           r  == ReadArray(s, p, k)
           r2 == ReadArray(z, q, k)
           read  == [a \in 0 .. Len(s) |-> ReadUint64(s, a)]
           read2 == [b \in 0 .. Len(z) |-> ReadUint64(z, b)]
           rest  == Elements(p + hd.n, k, read)
           rest2 == Elements(q + hd.n, k, read2)
<1>1. r.ok => hd.ok /\ r = Plus(hd.n, rest)
  BY DEF ReadArray, Headed, After, Bad
<1>2. r.ok /\ CborReadHeaderBuf(z, q) = hd => r2 = Plus(hd.n, rest2)
  BY DEF ReadArray, Headed, After, Bad
<1>3. LocalAll(s, read, z, read2)
  BY Uint64Local DEF LocalAll
<1>4. r.ok => Local(rest, s, p + hd.n, rest2, z, q + hd.n)
  <2>1. SUFFICES ASSUME r.ok PROVE Local(rest, s, p + hd.n, rest2, z, q + hd.n)
    OBVIOUS
  <2>2. hd.ok /\ hd.n \in Nat /\ p + hd.n <= Len(s)
    <3>1. hd.ok
      BY <1>1, <2>1
    <3>2. QED BY <3>1, HeaderRead
  <2> HIDE DEF hd, read, read2
  <2>3. p + hd.n \in Nat /\ q + hd.n \in Nat
    BY <2>2
  <2>4. QED BY <1>3, <2>2, <2>3, ElementsLocal, Zenon
<1> HIDE DEF hd, r, r2, rest, rest2
<1>5. Local(r, s, p, r2, z, q)
  BY <1>1, <1>2, <1>4, AfterLocal DEF hd
<1>6. QED BY <1>5 DEF r, r2

LEMMA SomeLocal ==
  ASSUME NEW s \in Seq(Byte), NEW p \in Nat, NEW z \in Seq(Byte), NEW q \in Nat, NEW old,
         NEW read, NEW read2, LocalAll(s, read, z, read2)
  PROVE  Local(ReadElements(s, p, old, read), s, p, ReadElements(z, q, old, read2), z, q)
<1> DEFINE hd == CborReadHeaderBuf(s, p)
           r  == ReadElements(s, p, old, read)
           r2 == ReadElements(z, q, old, read2)
           rest  == IF hd.extra = 0 THEN Good(old, 0) ELSE Elements(p + hd.n, hd.extra, read)
           rest2 == IF hd.extra = 0 THEN Good(old, 0) ELSE Elements(q + hd.n, hd.extra, read2)
<1>1. r.ok => hd.ok /\ r = Plus(hd.n, rest)
  BY DEF ReadElements, Headed, After, Bad
<1>2. r.ok /\ CborReadHeaderBuf(z, q) = hd => r2 = Plus(hd.n, rest2)
  BY DEF ReadElements, Headed, After, Bad
<1>3. r.ok => Local(rest, s, p + hd.n, rest2, z, q + hd.n)
  <2>1. SUFFICES ASSUME r.ok PROVE Local(rest, s, p + hd.n, rest2, z, q + hd.n)
    OBVIOUS
  <2>2. hd.ok /\ hd.n \in Nat /\ p + hd.n <= Len(s) /\ hd.extra \in Nat
    <3>1. hd.ok
      BY <1>1, <2>1
    <3>2. QED BY <3>1, HeaderRead, CodecSizes
  <2> HIDE DEF hd
  <2>3. p + hd.n \in Nat /\ q + hd.n \in Nat
    BY <2>2
  <2>4. CASE hd.extra = 0
    <3>1. Local(Good(old, 0), s, p + hd.n, Good(old, 0), z, q + hd.n)
      BY <2>2, <2>3, NothingMore, Zenon
    <3>2. QED BY <2>4, <3>1
  <2>5. CASE hd.extra # 0
    <3>1. Local(Elements(p + hd.n, hd.extra, read), s, p + hd.n, Elements(q + hd.n, hd.extra, read2), z, q + hd.n)
      BY <2>2, <2>3, ElementsLocal, Zenon
    <3>2. QED BY <2>5, <3>1
  <2>6. QED BY <2>4, <2>5
<1> HIDE DEF hd, r, r2, rest, rest2
<1>4. Local(r, s, p, r2, z, q)
  BY <1>1, <1>2, <1>3, AfterLocal DEF hd
<1>5. QED BY <1>4 DEF r, r2

LEMMA ElementLocal ==
  ASSUME NEW f, f.kind \in Slices, NEW s \in Seq(Byte), NEW p \in Nat, NEW z \in Seq(Byte), NEW q \in Nat
  PROVE  Local(ReadElement(f, s, p), s, p, ReadElement(f, z, q), z, q)
<1>1. CASE f.kind = "[]uint"
  <2>1. ReadElement(f, s, p) = ReadNarrowed(s, p, f.w) /\ ReadElement(f, z, q) = ReadNarrowed(z, q, f.w)
    BY <1>1 DEF ReadElement
  <2>2. QED BY <2>1, NarrowedLocal
<1>2. CASE f.kind = "[]int"
  <2>1. ReadElement(f, s, p) = ReadInt(s, p, f.w) /\ ReadElement(f, z, q) = ReadInt(z, q, f.w)
    BY <1>2 DEF ReadElement
  <2>2. QED BY <2>1, IntLocal
<1>3. CASE f.kind = "[]bytes"
  <2>1. ReadElement(f, s, p) = ReadBytes(s, p, << >>) /\ ReadElement(f, z, q) = ReadBytes(z, q, << >>)
    BY <1>3 DEF ReadElement
  <2>2. Len(<< >>) \in Nat
    OBVIOUS
  <2>3. QED BY <2>1, <2>2, BytesFieldLocal
<1>4. CASE f.kind = "[]struct"
  <2>1. ReadElement(f, s, p) = ReadStruct(s, p) /\ ReadElement(f, z, q) = ReadStruct(z, q)
    BY <1>4 DEF ReadElement
  <2>2. QED BY <2>1, StructLocal
<1>5. CASE f.kind = "[]*struct"
  <2> DEFINE r  == ReadStruct(s, p)
             r2 == ReadStruct(z, q)
             e  == ReadElement(f, s, p)
             e2 == ReadElement(f, z, q)
  <2>1. /\ e = IF r.ok THEN Good(<< r.v >>, r.n) ELSE r
        /\ e2 = IF r2.ok THEN Good(<< r2.v >>, r2.n) ELSE r2
    BY <1>5 DEF ReadElement, Mapped
  <2>2. Local(r, s, p, r2, z, q)
    BY StructLocal
  <2> HIDE DEF r, r2, e, e2
  <2>3. e.ok => r.ok /\ e = Good(e.v, r.n)
    BY <2>1 DEF Good
  <2>4. e.ok /\ r2 = r => e2 = e
    BY <2>1
  <2>5. Local(e, s, p, e2, z, q)
    BY <2>2, <2>3, <2>4, OtherLocal, Zenon
  <2>6. QED BY <2>5 DEF e, e2
<1>6. CASE f.kind = "[][]uint"
  <2> DEFINE read  == [a \in 0 .. Len(s) |-> ReadNarrowed(s, a, f.w)]
             read2 == [b \in 0 .. Len(z) |-> ReadNarrowed(z, b, f.w)]
  <2>1. ReadElement(f, s, p) = ReadElements(s, p, << >>, read) /\ ReadElement(f, z, q) = ReadElements(z, q, << >>, read2)
    BY <1>6 DEF ReadElement
  <2>2. LocalAll(s, read, z, read2)
    BY NarrowedLocal DEF LocalAll
  <2> HIDE DEF read, read2
  <2>3. QED BY <2>1, <2>2, SomeLocal
<1>7. QED BY <1>1, <1>2, <1>3, <1>4, <1>5, <1>6 DEF Slices

LEMMA SliceLocal ==
  ASSUME NEW f, f.kind \in Slices, NEW s \in Seq(Byte), NEW p \in Nat, NEW z \in Seq(Byte), NEW q \in Nat, NEW old
  PROVE  Local(ReadSlice(f, s, p, old), s, p, ReadSlice(f, z, q, old), z, q)
<1> DEFINE read  == [a \in 0 .. Len(s) |-> ReadElement(f, s, a)]
           read2 == [b \in 0 .. Len(z) |-> ReadElement(f, z, b)]
<1>1. ReadSlice(f, s, p, old) = ReadElements(s, p, old, read) /\ ReadSlice(f, z, q, old) = ReadElements(z, q, old, read2)
  BY DEF ReadSlice
<1>2. LocalAll(s, read, z, read2)
  BY ElementLocal DEF LocalAll
<1> HIDE DEF read, read2
<1>3. QED BY <1>1, <1>2, SomeLocal

\* Who reads nothing at the end takes something.
LEMMA Something ==
  ASSUME NEW s \in Seq(Byte), NEW p \in Nat, NEW r, NEW r2, Local(r, s, p, r2, << >>, 0), ~r2.ok
  PROVE  r.ok => r.n \in Nat \ {0}
<1>1. SUFFICES ASSUME r.ok, r.n = 0 PROVE FALSE
  BY DEF Local, Takes
<1>2. p + 0 <= Len(s)
  BY <1>1 DEF Local, Takes
<1>3. Agree(s, p, << >>, 0, 0)
  BY <1>2 DEF Agree
<1>4. r2 = r
  BY <1>1, <1>3 DEF Local, SameWithin
<1>5. QED BY <1>1, <1>4

LEMMA PointeeLocal ==
  ASSUME NEW kind \in Nullable, NEW s \in Seq(Byte), NEW p \in Nat, NEW z \in Seq(Byte), NEW q \in Nat
  PROVE  /\ Local(ReadPointee(kind, s, p), s, p, ReadPointee(kind, z, q), z, q)
         /\ ReadPointee(kind, s, p).ok => ReadPointee(kind, s, p).n \in Nat \ {0}
<1>1. ASSUME NEW y \in Seq(Byte), NEW a \in Nat
      PROVE  Local(ReadPointee(kind, s, p), s, p, ReadPointee(kind, y, a), y, a)
  <2>1. CASE kind = "*uint64"
    BY <2>1, Uint64Local DEF ReadPointee
  <2>2. CASE kind = "*cid"
    BY <2>2, CidLocal DEF ReadPointee
  <2>3. CASE kind = "*struct"
    BY <2>3, StructLocal DEF ReadPointee
  <2>4. QED BY <2>1, <2>2, <2>3 DEF Nullable
<1>2. << >> \in Seq(Byte) /\ Len(<< >>) <= 0
  BY EmptySeq
<1>3. ~CborReadHeaderBuf(<< >>, 0).ok
  BY <1>2, NoneAtTheEnd
<1>4. ~ReadPointee(kind, << >>, 0).ok
  <2>1. CASE kind = "*uint64"
    BY <2>1, <1>3 DEF ReadPointee, ReadUint64, Headed, After, Bad
  <2>2. CASE kind = "*cid"
    BY <2>2, <1>3 DEF ReadPointee, ReadCid, Headed, After, Bad, bufToCid
  <2>3. CASE kind = "*struct"
    BY <2>3, <1>3 DEF ReadPointee, ReadStruct, Headed, After, Bad, Uncounted
  <2>4. QED BY <2>1, <2>2, <2>3 DEF Nullable
<1>5. Local(ReadPointee(kind, s, p), s, p, ReadPointee(kind, << >>, 0), << >>, 0)
  BY <1>1, <1>2
<1>6. QED BY <1>1, <1>4, <1>5, Something

LEMMA PointerLocal ==
  ASSUME NEW kind \in Nullable, NEW s \in Seq(Byte), NEW p \in Nat, NEW z \in Seq(Byte), NEW q \in Nat, NEW old
  PROVE  Local(ReadPointer(kind, s, p, old), s, p, ReadPointer(kind, z, q, old), z, q)
<1> DEFINE r  == ReadPointer(kind, s, p, old)
           r2 == ReadPointer(kind, z, q, old)
           to  == ReadPointee(kind, s, p)
           to2 == ReadPointee(kind, z, q)
           x  == IF to.ok THEN Good(<< to.v >>, to.n) ELSE to
           x2 == IF to2.ok THEN Good(<< to2.v >>, to2.n) ELSE to2
<1>0. Len(s) \in Nat /\ Len(z) \in Nat
  BY LenProperties
<1>1. Local(to, s, p, to2, z, q) /\ (to.ok => to.n \in Nat \ {0})
  BY PointeeLocal
<1>2. r = IF p >= Len(s) THEN Bad(0) ELSE IF s[p + 1] = CborNull THEN Good(old, 1) ELSE x
  BY DEF ReadPointer, PutBack, Mapped
<1>3. r2 = IF q >= Len(z) THEN Bad(0) ELSE IF z[q + 1] = CborNull THEN Good(old, 1) ELSE x2
  BY DEF ReadPointer, PutBack, Mapped
<1> SUFFICES Local(r, s, p, r2, z, q)
  BY DEF r, r2
<1> HIDE DEF r, r2, to, to2
<1>4. CASE p >= Len(s)
  <2>1. ~r.ok
    BY <1>2, <1>4 DEF Bad
  <2>2. QED BY <2>1 DEF Local, Takes, SameWithin
<1>5. CASE ~(p >= Len(s)) /\ s[p + 1] = CborNull
  <2>1. r = Good(old, 1) /\ p + 1 <= Len(s)
    BY <1>0, <1>2, <1>5
  <2>2. Takes(r, s, p)
    BY <2>1 DEF Takes, Good
  <2>3. ASSUME NEW m \in Nat, Agree(s, p, z, q, m), 1 <= m PROVE r2 = r
    <3>1. 1 \in 1 .. m
      BY <2>3
    <3>2. z[q + 1] = s[p + 1] /\ q + m <= Len(z)
      BY <2>3, <3>1 DEF Agree
    <3>3. ~(q >= Len(z))
      BY <1>0, <2>3, <3>2
    <3>4. QED BY <1>3, <1>5, <2>1, <3>2, <3>3
  <2>4. QED BY <2>1, <2>2, <2>3 DEF Local, SameWithin, Good
<1>6. CASE ~(p >= Len(s)) /\ s[p + 1] # CborNull
  <2>1. r = x
    BY <1>2, <1>6
  <2>2. r.ok => to.ok /\ r = Good(<< to.v >>, to.n)
    BY <2>1
  <2>3. Takes(r, s, p)
    BY <1>1, <2>2 DEF Local, Takes, Good
  <2>4. ASSUME NEW m \in Nat, Agree(s, p, z, q, m), r.ok, r.n <= m PROVE r2 = r
    <3>0. to.ok /\ r.n = to.n /\ to.n \in Nat \ {0}
      BY <1>1, <2>2, <2>4 DEF Good
    <3>1. 1 \in 1 .. m /\ 1 <= m
      BY <2>4, <3>0
    <3>2. z[q + 1] = s[p + 1] /\ q + m <= Len(z)
      BY <2>4, <3>1 DEF Agree
    <3>3. ~(q >= Len(z))
      BY <1>0, <3>1, <3>2
    <3>4. to2 = to
      BY <1>1, <2>4, <3>0 DEF Local, SameWithin
    <3>5. QED BY <1>3, <1>6, <2>1, <3>2, <3>3, <3>4
  <2>5. QED BY <2>3, <2>4 DEF Local, SameWithin
<1>7. QED BY <1>4, <1>5, <1>6

LEMMA MapValueLocal ==
  ASSUME NEW f, NEW s \in Seq(Byte), NEW p \in Nat, NEW z \in Seq(Byte), NEW q \in Nat
  PROVE  Local(ReadMapValue(f, s, p), s, p, ReadMapValue(f, z, q), z, q)
<1>1. CASE f.kind = "map*"
  BY <1>1, PointerLocal DEF ReadMapValue, Nullable
<1>2. CASE f.kind # "map*"
  BY <1>2, TimeLocal DEF ReadMapValue
<1>3. QED BY <1>1, <1>2

LEMMA EntryLocal ==
  ASSUME NEW f, NEW s \in Seq(Byte), NEW p \in Nat, NEW z \in Seq(Byte), NEW q \in Nat
  PROVE  Local(ReadEntry(f, s, p), s, p, ReadEntry(f, z, q), z, q)
<1> DEFINE k  == ReadString(s, p)
           k2 == ReadString(z, q)
           x  == ReadMapValue(f, s, p + k.n)
           x2 == ReadMapValue(f, z, q + k.n)
           e  == IF x.ok THEN Good(<<k.v, x.v>>, x.n) ELSE x
           e2 == IF x2.ok THEN Good(<<k.v, x2.v>>, x2.n) ELSE x2
           r  == ReadEntry(f, s, p)
           r2 == ReadEntry(f, z, q)
<1>1. Local(k, s, p, k2, z, q)
  BY StringLocal
<1>2. r = IF k.ok THEN Plus(k.n, e) ELSE k
  BY DEF ReadEntry, ReadValueOf, Mapped
<1>3. k2 = k => r2 = IF k.ok THEN Plus(k.n, e2) ELSE k
  <2>1. r2 = ReadValueOf(k2, f, z, q)
    BY DEF ReadEntry
  <2>2. ReadValueOf(k, f, z, q) = IF k.ok THEN Plus(k.n, e2) ELSE k
    BY DEF ReadValueOf, Mapped
  <2> HIDE DEF k, k2, r2, e2
  <2>3. QED BY <2>1, <2>2
<1>4. CASE ~k.ok
  BY <1>2, <1>4 DEF Local, Takes, SameWithin
<1>5. CASE k.ok
  <2>1. k.n \in Nat
    BY <1>1, <1>5 DEF Local, Takes
  <2>2. Local(x, s, p + k.n, x2, z, q + k.n)
    BY <2>1, MapValueLocal
  <2> HIDE DEF k, k2, x, x2, r, r2
  <2>3. Local(e, s, p + k.n, e2, z, q + k.n)
    <3>1. e.ok => x.ok /\ e = Good(e.v, x.n)
      BY DEF Good
    <3>2. e.ok /\ x2 = x => e2 = e
      OBVIOUS
    <3> HIDE DEF e, e2
    <3>3. QED BY <2>2, <3>1, <3>2, OtherLocal, Zenon
  <2>4. PICK n \in Nat : n = k.n
    BY <2>1
  <2>5. Local(Plus(n, e), s, p, Plus(n, e2), z, q)
    BY <2>3, <2>4, PlusLocal
  <2>6. r = Plus(n, e)
    BY <1>2, <1>5, <2>4
  <2>7. Takes(r, s, p)
    BY <2>5, <2>6 DEF Local
  <2>8. ASSUME NEW m \in Nat, Agree(s, p, z, q, m), r.ok, r.n <= m PROVE r2 = r
    <3>1. e.ok /\ r.n = n + e.n
      BY <2>6, <2>8 DEF Plus, Good, Bad
    <3>2. e.n \in Nat
      BY <2>3, <3>1 DEF Local, Takes
    <3>3. k.n <= m
      <4>1. PICK l \in Nat : l = e.n
        BY <3>2
      <4>2. n + l <= m
        BY <2>8, <3>1, <4>1
      <4>3. n <= m
        BY <4>2
      <4>4. QED BY <2>4, <4>3
    <3>4. k2 = k
      BY <1>1, <1>5, <2>8, <3>3 DEF Local, SameWithin
    <3>5. r2 = Plus(n, e2)
      BY <1>3, <1>5, <2>4, <3>4
    <3> HIDE DEF e, e2
    <3>6. SameWithin(Plus(n, e), Plus(n, e2), m)
      BY <2>5, <2>8 DEF Local
    <3>7. QED BY <2>6, <2>8, <3>5, <3>6 DEF SameWithin
  <2>9. Local(r, s, p, r2, z, q)
    BY <2>7, <2>8 DEF Local, SameWithin
  <2>10. QED BY <2>9 DEF r, r2
<1>6. QED BY <1>4, <1>5

LEMMA MapLocal ==
  ASSUME NEW f, NEW s \in Seq(Byte), NEW p \in Nat, NEW z \in Seq(Byte), NEW q \in Nat
  PROVE  Local(ReadMap(f, s, p), s, p, ReadMap(f, z, q), z, q)
<1> DEFINE read  == [a \in 0 .. Len(s) |-> ReadEntry(f, s, a)]
           read2 == [b \in 0 .. Len(z) |-> ReadEntry(f, z, b)]
           hd == CborReadHeaderBuf(s, p)
           r  == Headed(s, p, LAMBDA h : h.maj = MajMap /\ h.extra <= MaxMapLen,
                        LAMBDA h : Elements(p + h.n, h.extra, read))
           r2 == Headed(z, q, LAMBDA h : h.maj = MajMap /\ h.extra <= MaxMapLen,
                        LAMBDA h : Elements(q + h.n, h.extra, read2))
           rest  == Elements(p + hd.n, hd.extra, read)
           rest2 == Elements(q + hd.n, hd.extra, read2)
           y  == ReadMap(f, s, p)
           y2 == ReadMap(f, z, q)
<1>1. /\ y = IF r.ok THEN Good(MapOf(r.v), r.n) ELSE r
      /\ y2 = IF r2.ok THEN Good(MapOf(r2.v), r2.n) ELSE r2
  BY DEF ReadMap, Mapped
<1>2. LocalAll(s, read, z, read2)
  BY EntryLocal DEF LocalAll
<1> HIDE DEF read, read2
<1>3. r.ok => hd.ok /\ r = Plus(hd.n, rest)
  BY DEF Headed, After, Bad
<1>4. r.ok /\ CborReadHeaderBuf(z, q) = hd => r2 = Plus(hd.n, rest2)
  BY DEF Headed, After, Bad
<1>5. r.ok => Local(rest, s, p + hd.n, rest2, z, q + hd.n)
  <2>1. SUFFICES ASSUME r.ok PROVE Local(rest, s, p + hd.n, rest2, z, q + hd.n)
    OBVIOUS
  <2>2. hd.ok /\ hd.n \in Nat /\ p + hd.n <= Len(s) /\ hd.extra \in Nat
    <3>1. hd.ok
      BY <1>3, <2>1
    <3>2. QED BY <3>1, HeaderRead, CodecSizes
  <2> HIDE DEF hd
  <2>3. p + hd.n \in Nat /\ q + hd.n \in Nat
    BY <2>2
  <2>4. QED BY <1>2, <2>2, <2>3, ElementsLocal, Zenon
<1> HIDE DEF hd, r, r2, rest, rest2
<1>6. Local(r, s, p, r2, z, q)
  BY <1>3, <1>4, <1>5, AfterLocal DEF hd
<1> HIDE DEF y, y2
<1>7. y.ok => r.ok /\ y = Good(y.v, r.n)
  BY <1>1 DEF Good
<1>8. y.ok /\ r2 = r => y2 = y
  BY <1>1
<1>9. Local(y, s, p, y2, z, q)
  BY <1>6, <1>7, <1>8, OtherLocal, Zenon
<1>10. QED BY <1>9 DEF y, y2

-----------------------------------------------------------------------------

\* The heads that the grammar is recursive over, and a head that is good, wherever
\* its bytes are.
LEMMA HeadsOfItems ==
  ASSUME NEW s \in Seq(Byte), NEW L
  PROVE  IsHeads(L, Len(s), BoundedHeads(s))
<1>1. DOMAIN BoundedHeads(s) = 0 .. Len(s)
  BY DEF BoundedHeads
<1>2. ASSUME NEW p \in 0 .. Len(s) PROVE IsHead(L, p, Len(s), BoundedHeads(s)[p])
  <2>1. BoundedHeads(s)[p] = BoundedHead(s, p)
    BY DEF BoundedHeads
  <2>2. IsHead(L, p, Len(s), BadHead(p + CborReadHeaderBuf(s, p).n))
    <3>1. p + CborReadHeaderBuf(s, p).n \in p .. Len(s)
      BY HeaderHere
    <3>2. QED BY <3>1, EmptySeq DEF IsHead, BadHead
  <2>3. IsHead(L, p, Len(s), ItemHead(s, p))
    BY ItemHeadType
  <2>4. QED BY <2>1, <2>2, <2>3 DEF BoundedHead
<1>3. QED BY <1>1, <1>2 DEF IsHeads

LEMMA GoodHeadIs ==
  ASSUME NEW s \in Seq(Byte), NEW p \in 0 .. Len(s)
  PROVE  LET hd == CborReadHeaderBuf(s, p)
             k  == hd.n + Payload(hd.maj, hd.extra)
         IN  BoundedHead(s, p).ok <=>
               /\ hd.ok /\ ~TooLong(hd.maj, hd.extra) /\ p + k <= Len(s)
               /\ BoundedHead(s, p) = GoodHead(p + k, Nested(hd.maj, hd.extra), << >>)
<1> DEFINE hd == CborReadHeaderBuf(s, p)
           asked == Payload(hd.maj, hd.extra)
<1>0. Len(s) \in Nat /\ p \in Nat
  BY LenProperties
<1>1. CASE ~hd.ok
  BY <1>1, ItemHeadIs DEF BoundedHead, BadHead
<1>2. CASE hd.ok /\ TooLong(hd.maj, hd.extra)
  BY <1>2 DEF BoundedHead, BadHead
<1>3. CASE hd.ok /\ ~TooLong(hd.maj, hd.extra)
  <2>1. hd.n \in Nat /\ hd.extra \in Nat
    <3>1. hd.n \in Nat /\ hd.extra \in Arguments
      BY <1>0, <1>3, HeaderRead
    <3>2. QED BY <3>1, CodecSizes
  <2>2. asked \in Nat
    BY <2>1 DEF Payload
  <2>3. BoundedHead(s, p) = ItemHead(s, p)
    BY <1>3 DEF BoundedHead
  <2>4. (p + hd.n) + asked = p + (hd.n + asked)
    <3> HIDE DEF hd, asked
    <3>1. QED BY <1>0, <2>1, <2>2
  <2>5. CASE (p + hd.n) + asked <= Len(s)
    <3>1. ItemHead(s, p) = GoodHead((p + hd.n) + asked, Nested(hd.maj, hd.extra), << >>)
      BY <1>3, <2>5, ItemHeadIs
    <3>2. BoundedHead(s, p) = GoodHead(p + (hd.n + asked), Nested(hd.maj, hd.extra), << >>)
      BY <2>3, <2>4, <3>1
    <3>3. BoundedHead(s, p).ok
      BY <3>2 DEF GoodHead
    <3>4. p + (hd.n + asked) <= Len(s)
      BY <2>4, <2>5
    <3>5. QED BY <1>3, <3>2, <3>3, <3>4
  <2>6. CASE ~((p + hd.n) + asked <= Len(s))
    <3>1. ItemHead(s, p) = BadHead(Len(s))
      BY <1>3, <2>6, ItemHeadIs
    <3>2. QED BY <2>3, <2>4, <2>6, <3>1 DEF BadHead
  <2>7. QED BY <2>5, <2>6
<1>4. QED BY <1>1, <1>2, <1>3

LEMMA GoodHeadLocal ==
  ASSUME NEW s \in Seq(Byte), NEW p \in 0 .. Len(s), NEW z \in Seq(Byte), NEW q \in 0 .. Len(z), NEW m \in Nat,
         Agree(s, p, z, q, m), BoundedHead(s, p).ok, BoundedHead(s, p).end - p <= m
  PROVE  /\ BoundedHead(s, p).links = << >>
         /\ BoundedHead(z, q) = GoodHead(q + (BoundedHead(s, p).end - p), BoundedHead(s, p).nested, << >>)
<1> DEFINE hd == CborReadHeaderBuf(s, p)
           asked == Payload(hd.maj, hd.extra)
           k == hd.n + asked
<1>1. /\ hd.ok /\ ~TooLong(hd.maj, hd.extra)
      /\ BoundedHead(s, p) = GoodHead(p + k, Nested(hd.maj, hd.extra), << >>)
  BY GoodHeadIs
<1>2. hd.n \in Nat /\ hd.extra \in Nat /\ p \in Nat /\ q \in Nat /\ Len(z) \in Nat /\ Len(s) \in Nat
  <2>1. p \in Nat /\ q \in Nat /\ Len(z) \in Nat /\ Len(s) \in Nat
    BY LenProperties
  <2>2. hd.n \in Nat /\ hd.extra \in Arguments
    BY <1>1, <2>1, HeaderRead
  <2>3. QED BY <2>1, <2>2, CodecSizes
<1>3. asked \in Nat
  BY <1>2 DEF Payload
<1>4. BoundedHead(s, p).end = p + k
  BY <1>1 DEF GoodHead
<1>5. k \in Nat /\ (p + k) - p = k /\ k <= m /\ hd.n <= m
  <2> HIDE DEF hd, asked
  <2>1. QED BY <1>2, <1>3, <1>4
<1>6. CborReadHeaderBuf(z, q) = hd
  BY <1>1, <1>2, <1>5, HeaderAgrees
<1>7. q + m <= Len(z)
  BY DEF Agree
<1>8. BoundedHead(z, q) = GoodHead(q + k, Nested(hd.maj, hd.extra), << >>)
  <2>1. (q + hd.n) + asked = q + k /\ (q + hd.n) + asked <= Len(z)
    <3>1. PICK a \in Nat, b \in Nat : a = hd.n /\ b = asked
      BY <1>2, <1>3
    <3>2. a + b <= m
      BY <1>5, <3>1
    <3>3. (q + a) + b = q + (a + b) /\ (q + a) + b <= Len(z)
      BY <1>2, <1>7, <3>2
    <3>4. QED BY <3>1, <3>3
  <2>2. ItemHead(z, q) = GoodHead((q + hd.n) + asked, Nested(hd.maj, hd.extra), << >>)
    BY <1>1, <1>6, <2>1, ItemHeadIs
  <2>3. BoundedHead(z, q) = ItemHead(z, q)
    BY <1>1, <1>6 DEF BoundedHead
  <2>4. QED BY <2>1, <2>2, <2>3
<1>9. BoundedHead(s, p).nested = Nested(hd.maj, hd.extra) /\ BoundedHead(s, p).links = << >>
  BY <1>1 DEF GoodHead
<1>10. BoundedHead(s, p).end - p = k
  BY <1>4, <1>5
<1> HIDE DEF hd, k
<1>11. QED BY <1>8, <1>9, <1>10

\* Items are where their bytes are.
ItemsLocalFrom(s, z, p) ==
  \A k \in Nat : \A q \in 0 .. Len(z) : \A m \in Nat :
    LET item == ItemsIn(BoundedHeads(s))[p][k]
    IN  item.ok /\ Agree(s, p, z, q, m) /\ item.end - p <= m =>
          /\ item.end \in p .. Len(s)
          /\ item = Ends(item.end, << >>)
          /\ ItemsIn(BoundedHeads(z))[q][k] = Ends(q + (item.end - p), << >>)

LEMMA ItemsLocalStep ==
  ASSUME NEW s \in Seq(Byte), NEW z \in Seq(Byte), NEW p \in 0 .. Len(s),
         \A e \in (p + 1) .. Len(s) : ItemsLocalFrom(s, z, e)
  PROVE  ItemsLocalFrom(s, z, p)
<1> SUFFICES ASSUME NEW k \in Nat, NEW q \in 0 .. Len(z), NEW m \in Nat,
                    ItemsIn(BoundedHeads(s))[p][k].ok, Agree(s, p, z, q, m),
                    ItemsIn(BoundedHeads(s))[p][k].end - p <= m
             PROVE  LET item == ItemsIn(BoundedHeads(s))[p][k]
                    IN  /\ item.end \in p .. Len(s)
                        /\ item = Ends(item.end, << >>)
                        /\ ItemsIn(BoundedHeads(z))[q][k] = Ends(q + (item.end - p), << >>)
  BY DEF ItemsLocalFrom
<1> DEFINE F == ItemsIn(BoundedHeads(s))
           G == ItemsIn(BoundedHeads(z))
           hs == BoundedHeads(s)
           hz == BoundedHeads(z)
<1>0. Len(s) \in Nat /\ Len(z) \in Nat
  BY LenProperties
<1>1. Counts(F, hs, Len(s)) /\ Counts(G, hz, Len(z))
  BY <1>0, HeadsOfItems, CountsAsNested
<1>2. \A e \in 0 .. Len(s) : \A j \in Nat : F[e][j] \in Yields(Byte, e, Len(s))
  BY <1>0, HeadsOfItems, Recursion DEF Solves
<1>3. hs[p] = BoundedHead(s, p) /\ hz[q] = BoundedHead(z, q)
  BY DEF BoundedHeads
<1>4. IsHead(Byte, p, Len(s), BoundedHead(s, p))
  BY <1>3, HeadsOfItems DEF IsHeads
<1>5. CASE k = 0
  <2>1. F[p][0] = Ends(p, << >>) /\ G[q][0] = Ends(q, << >>)
    BY <1>1 DEF Counts
  <2>2. q + (p - p) = q /\ p \in p .. Len(s)
    OBVIOUS
  <2>3. QED BY <1>5, <2>1, <2>2 DEF Ends
<1>6. CASE k # 0
  <2> DEFINE head == BoundedHead(s, p)
  <2>1. k \in Nat \ {0} /\ k - 1 \in Nat
    BY <1>6
  <2>2. head.ok
    <3>1. ~head.ok => F[p][k] = Stops(head.end, head.links)
      BY <1>1, <1>3, <2>1 DEF Counts
    <3>2. QED BY <3>1 DEF Stops
  <2>3. F[p][k] = Behind(head.links, F[head.end][head.nested + (k - 1)])
    BY <1>1, <1>3, <2>1, <2>2 DEF Counts
  <2>4. PICK e \in (p + 1) .. Len(s) : e = head.end
    BY <1>0, <1>4, <2>2 DEF IsHead
  <2>5. PICK j \in Nat : j = head.nested + (k - 1)
    BY <1>4, <2>1, <2>2 DEF IsHead
  <2>6. F[e][j].ok /\ F[p][k].end = F[e][j].end /\ F[p][k] = Behind(head.links, F[e][j])
    BY <2>3, <2>4, <2>5 DEF Behind
  <2>7. PICK x \in e .. Len(s) : x = F[e][j].end
    <3>1. e \in 0 .. Len(s)
      BY <1>0
    <3>2. F[e][j] \in Yields(Byte, e, Len(s))
      BY <1>2, <3>1, Zenon
    <3>3. F[e][j].end \in e .. Len(s)
      BY <3>2 DEF Yields
    <3>4. QED BY <3>3, Zenon
  <2>8. x - p <= m /\ x = F[p][k].end
    BY <2>6, <2>7
  <2> DEFINE d == e - p
  <2>9. d \in 0 .. m /\ p + d = e /\ m - d \in Nat /\ x - e <= m - d /\ d <= m
    <3>1. \A a, b, c \in Nat : a + 1 <= b /\ b <= c /\ c - a <= m =>
            /\ b - a \in 0 .. m /\ a + (b - a) = b /\ m - (b - a) \in Nat
            /\ c - b <= m - (b - a) /\ b - a <= m
      <4>1. \A a, b, c, l \in Nat : a + 1 <= b /\ b <= c /\ c - a <= l =>
            /\ b - a \in 0 .. l /\ a + (b - a) = b /\ l - (b - a) \in Nat
            /\ c - b <= l - (b - a) /\ b - a <= l
        OBVIOUS
      <4>2. QED BY <4>1, Zenon
    <3>2. p \in Nat /\ e \in Nat /\ x \in Nat /\ p + 1 <= e /\ e <= x
      BY <1>0
    <3>3. QED BY <2>8, <3>1, <3>2, Zenon
  <2>10. head.links = << >> /\ BoundedHead(z, q) = GoodHead(q + d, head.nested, << >>)
    BY <2>2, <2>4, <2>9, GoodHeadLocal
  <2>11. Agree(s, e, z, q + d, m - d)
    <3>1. PICK c \in 0 .. m : c = d
      BY <2>9
    <3>2. p \in Nat /\ q \in Nat
      OBVIOUS
    <3>3. Agree(s, p + c, z, q + c, m - c)
      BY <3>2, AgreeLater, Zenon
    <3>4. QED BY <2>9, <3>1, <3>3
  <2>12. q + d \in 0 .. Len(z)
    BY <1>0, <2>9, <2>11 DEF Agree
  <2>13. F[e][j] = Ends(x, << >>) /\ G[q + d][j] = Ends((q + d) + (x - e), << >>)
    <3>1. ItemsLocalFrom(s, z, e)
      OBVIOUS
    <3>2. QED BY <2>6, <2>7, <2>9, <2>11, <2>12, <3>1 DEF ItemsLocalFrom
  <2>14. (q + d) + (x - e) = q + (x - p)
    <3>1. \A a, b, c, l \in Nat : (l + (b - a)) + (c - b) = l + (c - a)
      OBVIOUS
    <3>2. p \in Nat /\ e \in Nat /\ x \in Nat /\ q \in Nat
      BY <1>0, <2>4, <2>7
    <3> HIDE DEF d
    <3>3. PICK a \in Nat, b \in Nat, c \in Nat, l \in Nat : a = p /\ b = e /\ c = x /\ l = q
      BY <3>2
    <3>4. (l + (b - a)) + (c - b) = l + (c - a)
      BY <3>1
    <3>5. QED BY <3>3, <3>4 DEF d
  <2>15. G[q][k] = Behind(<< >>, G[q + d][j])
    <3>1. hz[q].ok /\ hz[q].end = q + d /\ hz[q].nested = head.nested /\ hz[q].links = << >>
      BY <1>3, <2>10 DEF GoodHead
    <3>2. G[q][k] = Behind(hz[q].links, G[hz[q].end][hz[q].nested + (k - 1)])
      BY <1>1, <2>1, <3>1 DEF Counts
    <3>3. QED BY <2>5, <3>1, <3>2
  <2>16. \A y : Behind(<< >>, Ends(y, << >>)) = Ends(y, << >>)
    BY DEF Behind, Ends
  <2>17. F[p][k] = Ends(x, << >>) /\ G[q][k] = Ends(q + (x - p), << >>)
    BY <2>6, <2>10, <2>13, <2>14, <2>15, <2>16
  <2>18. x \in p .. Len(s)
    BY <2>4, <2>7
  <2>19. QED BY <2>8, <2>17, <2>18
<1>7. QED BY <1>5, <1>6

LEMMA ItemsLocal ==
  ASSUME NEW s \in Seq(Byte), NEW z \in Seq(Byte)
  PROVE  \A p \in 0 .. Len(s) : ItemsLocalFrom(s, z, p)
<1> DEFINE n == Len(s)
           S == { a \in 0 .. (n + 1) : \A p \in a .. n : ItemsLocalFrom(s, z, p) }
<1>0. n \in Nat
  BY LenProperties
<1>1. n + 1 \in S
  BY <1>0
<1>2. ASSUME NEW a \in 0 .. n, a + 1 \in S PROVE a \in S
  <2>1. \A e \in (a + 1) .. n : ItemsLocalFrom(s, z, e)
    BY <1>2
  <2>2. ItemsLocalFrom(s, z, a)
    BY <2>1, ItemsLocalStep
  <2>3. \A p \in a .. n : p = a \/ p \in (a + 1) .. n
    OBVIOUS
  <2>4. QED BY <1>0, <2>1, <2>2, <2>3
<1>3. 0 \in S
  <2>1. S \in SUBSET (0 .. (n + 1))
    OBVIOUS
  <2> HIDE DEF S, n
  <2>2. S = 0 .. (n + 1)
    BY <1>0, <1>1, <1>2, <2>1, Downward
  <2>3. QED BY <1>0, <2>2
<1>4. QED BY <1>3

LEMMA DeferredLocal ==
  ASSUME NEW s \in Seq(Byte), NEW p \in Nat, p <= Len(s), NEW z \in Seq(Byte), NEW q \in Nat, q <= Len(z)
  PROVE  Local(ReadDeferred(s, p), s, p, ReadDeferred(z, q), z, q)
<1> DEFINE item == ItemAt(s, p)
           item2 == ItemAt(z, q)
<1>0. Len(s) \in Nat /\ Len(z) \in Nat /\ p \in 0 .. Len(s) /\ q \in 0 .. Len(z)
  BY LenProperties
<1>1. item \in Yields(Byte, p, Len(s))
  BY <1>0, HeadsOfItems, Recursion DEF Solves, ItemAt
<1>2. CASE ~item.ok
  <2>1. ~ReadDeferred(s, p).ok
    BY <1>2 DEF ReadDeferred, RawOf, Bad
  <2>2. QED BY <2>1 DEF Local, Takes, SameWithin
<1>3. CASE item.ok
  <2>1. PICK e \in p .. Len(s) : e = item.end
    BY <1>1 DEF Yields
  <2>2. PICK n \in Nat : n = e - p /\ p + n = e
    BY <1>0, <2>1
  <2>3. ReadDeferred(s, p) = Good(SubSeq(s, p + 1, p + n), n)
    BY <1>3, <2>1, <2>2 DEF ReadDeferred, RawOf
  <2>4. ASSUME NEW m \in Nat, Agree(s, p, z, q, m), n <= m PROVE ReadDeferred(z, q) = ReadDeferred(s, p)
    <3>1. ItemsLocalFrom(s, z, p)
      BY <1>0, ItemsLocal
    <3>2. item2 = Ends(q + n, << >>)
      BY <1>0, <1>3, <2>1, <2>2, <2>4, <3>1 DEF ItemsLocalFrom, ItemAt
    <3>3. ReadDeferred(z, q) = Good(SubSeq(z, q + 1, q + n), (q + n) - q)
      BY <3>2 DEF ReadDeferred, RawOf, Ends
    <3>4. n \in 0 .. m /\ (q + n) - q = n
      BY <2>4
    <3>5. SameSlice(s, p, z, q, n)
      BY <2>4, <3>4, AgreeSlice, Zenon
    <3>6. QED BY <2>3, <3>3, <3>4, <3>5 DEF SameSlice
  <2>5. p + n <= Len(s)
    BY <1>0, <2>1, <2>2
  <2>6. QED BY <2>3, <2>4, <2>5 DEF Local, Takes, SameWithin, Good
<1>4. QED BY <1>2, <1>3

\* The decoder of a field takes bytes that are there and looks at no others: it reads
\* the same wherever those bytes are and whatever follows them (gen.go:1260-1328).
THEOREM FieldLocal ==
  ASSUME NEW f, f.kind \in Kinds, f.w \in Nat,
         NEW s \in Seq(Byte), NEW p \in Nat, p <= Len(s), NEW z \in Seq(Byte), NEW q \in Nat, q <= Len(z),
         NEW old, f.kind = "bytes" => Len(old) \in Nat
  PROVE  Local(ReadField(f, s, p, old), s, p, ReadField(f, z, q, old), z, q)
<1> DEFINE r  == ReadField(f, s, p, old)
           r2 == ReadField(f, z, q, old)
<1> SUFFICES Local(r, s, p, r2, z, q)
  BY DEF r, r2
<1> HIDE DEF r, r2
<1>1. CASE f.kind = "uint64"
  <2>1. r = ReadUint64(s, p) /\ r2 = ReadUint64(z, q)
    BY <1>1 DEF r, r2, ReadField, Slices, Nullable, Mapped
  <2>2. Local(ReadUint64(s, p), s, p, ReadUint64(z, q), z, q)
    BY <1>1, Uint64Local
  <2>3. QED BY <2>1, <2>2
<1>2. CASE f.kind = "uint"
  <2> DEFINE x  == ReadUint(s, p, f.read)
             x2 == ReadUint(z, q, f.read)
  <2>1. r = (IF x.ok THEN Good(UintOf(x.v, f.w), x.n) ELSE x) /\ r2 = (IF x2.ok THEN Good(UintOf(x2.v, f.w), x2.n) ELSE x2)
    BY <1>2 DEF r, r2, ReadField, Slices, Nullable, Mapped
  <2>2. Local(x, s, p, x2, z, q)
    BY UintLocal
  <2> HIDE DEF x, x2
  <2>3. (r.ok => x.ok /\ r = Good(r.v, x.n)) /\ (r.ok /\ x2 = x => r2 = r)
    BY <2>1 DEF Good
  <2>4. QED BY <2>2, <2>3, OtherLocal, Zenon
<1>3. CASE f.kind = "int"
  <2> DEFINE x  == ReadInt(s, p, f.read)
             x2 == ReadInt(z, q, f.read)
  <2>1. r = (IF x.ok THEN Good(IntOf(x.v, f.w), x.n) ELSE x) /\ r2 = (IF x2.ok THEN Good(IntOf(x2.v, f.w), x2.n) ELSE x2)
    BY <1>3 DEF r, r2, ReadField, Slices, Nullable, Mapped
  <2>2. Local(x, s, p, x2, z, q)
    BY IntLocal
  <2> HIDE DEF x, x2
  <2>3. (r.ok => x.ok /\ r = Good(r.v, x.n)) /\ (r.ok /\ x2 = x => r2 = r)
    BY <2>1 DEF Good
  <2>4. QED BY <2>2, <2>3, OtherLocal, Zenon
<1>4. CASE f.kind = "bool"
  <2>1. r = ReadBool(s, p) /\ r2 = ReadBool(z, q)
    BY <1>4 DEF r, r2, ReadField, Slices, Nullable, Mapped
  <2>2. Local(ReadBool(s, p), s, p, ReadBool(z, q), z, q)
    BY <1>4, BoolLocal
  <2>3. QED BY <2>1, <2>2
<1>5. CASE f.kind = "string"
  <2>1. r = ReadString(s, p) /\ r2 = ReadString(z, q)
    BY <1>5 DEF r, r2, ReadField, Slices, Nullable, Mapped
  <2>2. Local(ReadString(s, p), s, p, ReadString(z, q), z, q)
    BY <1>5, StringLocal
  <2>3. QED BY <2>1, <2>2
<1>6. CASE f.kind = "bytes"
  <2>1. r = ReadBytes(s, p, old) /\ r2 = ReadBytes(z, q, old)
    BY <1>6 DEF r, r2, ReadField, Slices, Nullable, Mapped
  <2>2. Local(ReadBytes(s, p, old), s, p, ReadBytes(z, q, old), z, q)
    BY <1>6, BytesFieldLocal
  <2>3. QED BY <2>1, <2>2
<1>7. CASE f.kind = "bytearray"
  <2>1. r = ReadBytesOf(s, p, f.w) /\ r2 = ReadBytesOf(z, q, f.w)
    BY <1>7 DEF r, r2, ReadField, Slices, Nullable, Mapped
  <2>2. Local(ReadBytesOf(s, p, f.w), s, p, ReadBytesOf(z, q, f.w), z, q)
    BY <1>7, BytesOfLocal
  <2>3. QED BY <2>1, <2>2
<1>8. CASE f.kind = "array"
  <2>1. r = ReadArray(s, p, f.w) /\ r2 = ReadArray(z, q, f.w)
    BY <1>8 DEF r, r2, ReadField, Slices, Nullable, Mapped
  <2>2. Local(ReadArray(s, p, f.w), s, p, ReadArray(z, q, f.w), z, q)
    BY <1>8, ArrayLocal
  <2>3. QED BY <2>1, <2>2
<1>9. CASE f.kind \in Slices
  <2>1. r = ReadSlice(f, s, p, old) /\ r2 = ReadSlice(f, z, q, old)
    BY <1>9 DEF r, r2, ReadField, Slices, Nullable, Mapped
  <2>2. Local(ReadSlice(f, s, p, old), s, p, ReadSlice(f, z, q, old), z, q)
    BY <1>9, SliceLocal
  <2>3. QED BY <2>1, <2>2
<1>10. CASE f.kind \in {"map", "map*"}
  <2>1. r = ReadMap(f, s, p) /\ r2 = ReadMap(f, z, q)
    BY <1>10 DEF r, r2, ReadField, Slices, Nullable, Mapped
  <2>2. Local(ReadMap(f, s, p), s, p, ReadMap(f, z, q), z, q)
    BY <1>10, MapLocal
  <2>3. QED BY <2>1, <2>2
<1>11. CASE f.kind = "cid"
  <2>1. r = ReadCid(s, p) /\ r2 = ReadCid(z, q)
    BY <1>11 DEF r, r2, ReadField, Slices, Nullable, Mapped
  <2>2. Local(ReadCid(s, p), s, p, ReadCid(z, q), z, q)
    BY <1>11, CidLocal
  <2>3. QED BY <2>1, <2>2
<1>12. CASE f.kind = "cborcid"
  <2>1. r = ReadCborCid(s, p) /\ r2 = ReadCborCid(z, q)
    BY <1>12 DEF r, r2, ReadField, Slices, Nullable, Mapped
  <2>2. Local(ReadCborCid(s, p), s, p, ReadCborCid(z, q), z, q)
    BY <1>12, CborCidLocal
  <2>3. QED BY <2>1, <2>2
<1>13. CASE f.kind = "time"
  <2>1. r = ReadTime(s, p) /\ r2 = ReadTime(z, q)
    BY <1>13 DEF r, r2, ReadField, Slices, Nullable, Mapped
  <2>2. Local(ReadTime(s, p), s, p, ReadTime(z, q), z, q)
    BY <1>13, TimeLocal
  <2>3. QED BY <2>1, <2>2
<1>14. CASE f.kind = "struct"
  <2>1. r = ReadStruct(s, p) /\ r2 = ReadStruct(z, q)
    BY <1>14 DEF r, r2, ReadField, Slices, Nullable, Mapped
  <2>2. Local(ReadStruct(s, p), s, p, ReadStruct(z, q), z, q)
    BY <1>14, StructLocal
  <2>3. QED BY <2>1, <2>2
<1>15. CASE f.kind \in Nullable
  <2>1. r = ReadPointer(f.kind, s, p, old) /\ r2 = ReadPointer(f.kind, z, q, old)
    BY <1>15 DEF r, r2, ReadField, Slices, Nullable, Mapped
  <2>2. Local(ReadPointer(f.kind, s, p, old), s, p, ReadPointer(f.kind, z, q, old), z, q)
    BY <1>15, PointerLocal
  <2>3. QED BY <2>1, <2>2
<1>16. CASE f.kind = "deferred"
  <2>1. r = ReadDeferred(s, p) /\ r2 = ReadDeferred(z, q)
    BY <1>16 DEF r, r2, ReadField, Slices, Nullable, Mapped
  <2>2. Local(ReadDeferred(s, p), s, p, ReadDeferred(z, q), z, q)
    BY <1>16, DeferredLocal
  <2>3. QED BY <2>1, <2>2
<1>17. CASE f.kind = "*deferred"
  <2> DEFINE x  == ReadDeferred(s, p)
             x2 == ReadDeferred(z, q)
  <2>1. r = (IF x.ok THEN Good(<< x.v >>, x.n) ELSE x) /\ r2 = (IF x2.ok THEN Good(<< x2.v >>, x2.n) ELSE x2)
    BY <1>17 DEF r, r2, ReadField, Slices, Nullable, Mapped
  <2>2. Local(x, s, p, x2, z, q)
    BY DeferredLocal
  <2> HIDE DEF x, x2
  <2>3. (r.ok => x.ok /\ r = Good(r.v, x.n)) /\ (r.ok /\ x2 = x => r2 = r)
    BY <2>1 DEF Good
  <2>4. QED BY <2>2, <2>3, OtherLocal, Zenon
<1>18. f.kind \in {"uint64", "uint", "int", "bool", "string", "bytes", "bytearray", "array", "map", "map*", "cid",
                   "cborcid", "time", "struct", "deferred", "*deferred"} \cup Slices \cup Nullable
  BY DEF Kinds, Numbered, Slices
<1>19. QED
  BY <1>1, <1>2, <1>3, <1>4, <1>5, <1>6, <1>7, <1>8, <1>9, <1>10, <1>11, <1>12, <1>13, <1>14, <1>15, <1>16, <1>17, <1>18

-----------------------------------------------------------------------------

\* The powers of two up to that of a word.
LEMMA Powers ==
  /\ Word \in Nat \ {0}
  /\ \A w \in 0 .. Word : Pow2(w) \in Nat \ {0}
  /\ \A v, w \in 0 .. Word : v <= w => Pow2(v) <= Pow2(w)
  /\ \A w \in 1 .. Word : w - 1 \in 0 .. Word /\ w \in 0 .. Word /\ Pow2(w) = 2 * Pow2(w - 1)
<1>1. Word \in Nat \ {0}
  <2>1. Widths \in Seq(Nat \ {0}) /\ Widths # << >>
    BY SizesAssumption, CodecAssumption
  <2>2. Len(Widths) \in 1 .. Len(Widths)
    BY <2>1
  <2>3. Widths[Len(Widths)] \in Nat \ {0}
    BY <2>1, <2>2, ElementOfSeq
  <2>4. QED BY <2>3 DEF Word
<1>2. \A w \in 1 .. Word : Pow2(w) = 2 * Pow2(w - 1)
  BY WordAssumption
<1> DEFINE S == { w \in 0 .. Word : Pow2(w) \in Nat \ {0} /\ \A v \in 0 .. w : Pow2(v) <= Pow2(w) }
<1>3. 0 \in S
  BY WordAssumption, <1>1
<1>4. ASSUME NEW w \in 0 .. (Word - 1), w \in S PROVE w + 1 \in S
  <2>1. w + 1 \in 1 .. Word /\ (w + 1) - 1 = w /\ w + 1 \in 0 .. Word
    BY <1>1
  <2>2. Pow2(w + 1) = 2 * Pow2(w) /\ Pow2(w) \in Nat \ {0}
    BY <1>2, <1>4, <2>1
  <2>3. Pow2(w + 1) \in Nat \ {0} /\ Pow2(w) <= Pow2(w + 1)
    BY <2>2
  <2>4. ASSUME NEW v \in 0 .. (w + 1) PROVE Pow2(v) <= Pow2(w + 1)
    <3>1. CASE v = w + 1
      BY <2>3, <3>1
    <3>2. CASE v # w + 1
      <4>1. v \in 0 .. w /\ v \in 0 .. Word
        BY <1>1, <3>2
      <4>2. Pow2(v) <= Pow2(w)
        BY <1>4, <4>1
      <4>3. QED BY <2>2, <2>3, <4>2, <4>1, 2 * Pow2(w) = Pow2(w) + Pow2(w) DEF Pow2
    <3>3. QED BY <3>1, <3>2
  <2>5. QED BY <2>1, <2>3, <2>4
<1>5. \A w \in 0 .. Word : w \in S
  <2> HIDE DEF S
  <2>1. QED BY <1>1, <1>3, <1>4, Upward
<1>6. QED BY <1>1, <1>2, <1>5

\* The headers of numbers.
LEMMA IntHeader ==
  ASSUME NEW w \in 1 .. Word, NEW v \in Ints(w)
  PROVE  /\ WriteInt(v, w).maj \in {MajUnsignedInt, MajNegativeInt}
         /\ WriteInt(v, w).maj \in Majors /\ WriteInt(v, w).extra \in Arguments
         /\ \A r \in w .. Word : \A hd : hd.maj = WriteInt(v, w).maj /\ hd.extra = WriteInt(v, w).extra =>
              ReadsInt(hd, r) /\ IntRead(hd, r) = v /\ IntOf(v, w) = v
<1> DEFINE h == Pow2(w - 1)
<1>1. h \in Nat \ {0} /\ Pow2(w) = 2 * h /\ Word \in Nat
  BY Powers
<1> DEFINE c == IF v >= 0 THEN v ELSE -1 - v
           m == IF v >= 0 THEN MajUnsignedInt ELSE MajNegativeInt
<1>2. v \in (-h) .. (h - 1)
  BY DEF Ints
<1>3. WriteInt(v, w).maj = m /\ WriteInt(v, w).extra = c
  <2>1. CASE v >= 0
    BY <2>1 DEF WriteInt, WriteUint
  <2>2. CASE ~(v >= 0)
    <3>1. v \in (-h) .. -1
      BY <1>1, <1>2, <2>2
    <3> HIDE DEF h
    <3>2. Complement(v, w) = -1 - v
      BY <1>1, <3>1, ComplementIs DEF h
    <3>3. QED BY <2>2, <3>2 DEF WriteInt
  <2>3. QED BY <2>1, <2>2
<1>4. c \in 0 .. (h - 1) /\ c \in Nat
  <2> HIDE DEF h
  <2>1. QED BY <1>1, <1>2
<1>5. c \in Arguments
  <2>1. Pow2(Word) = Limit(Len(Widths)) /\ Pow2(Word) \in Nat /\ h <= Pow2(Word)
    BY <1>1, Powers, WordAssumption
  <2> HIDE DEF h, c
  <2>2. QED BY <1>1, <1>4, <2>1 DEF Arguments
<1>6. m \in {MajUnsignedInt, MajNegativeInt} /\ m \in Majors
  BY CodecSizes
<1>7. IntOf(v, w) = v
  <2> HIDE DEF h
  <2>1. v \in Int
    BY <1>1, <1>2
  <2>2. QED BY <1>1, <1>2, <2>1, IntOfIs DEF h
<1>8. ASSUME NEW r \in w .. Word, NEW hd, hd.maj = m, hd.extra = c
      PROVE  ReadsInt(hd, r) /\ IntRead(hd, r) = v
  <2> DEFINE g == Pow2(r - 1)
  <2>1. r \in 1 .. Word /\ r - 1 \in 0 .. Word /\ w - 1 \in 0 .. Word /\ w - 1 <= r - 1
    BY <1>1
  <2>2. g \in Nat \ {0} /\ Pow2(r) = 2 * g /\ h <= g
    BY <2>1, Powers
  <2>3. c \in (-g) .. (g - 1) /\ c \in Int
    <3> HIDE DEF h, g, c
    <3>1. QED BY <1>1, <1>4, <2>2
  <2>4. IntOf(c, r) = c
    <3> HIDE DEF g, h, c
    <3>1. QED BY <2>2, <2>3, IntOfIs DEF g
  <2>5. ~Overflows(hd.extra, r)
    BY <1>4, <1>8, <2>4 DEF Overflows
  <2>6. ReadsInt(hd, r)
    BY <1>6, <1>8, <2>5 DEF ReadsInt
  <2>7. IntRead(hd, r) = v
    <3>1. CASE v >= 0
      BY <1>8, <2>4, <3>1 DEF IntRead
    <3>2. CASE ~(v >= 0)
      <4>1. IntRead(hd, r) = -1 - c /\ c = -1 - v
        BY <1>8, <2>4, <3>2 DEF IntRead, MajUnsignedInt, MajNegativeInt
      <4>2. v \in Int
        BY <1>2
      <4>3. QED BY <4>1, <4>2
    <3>3. QED BY <3>1, <3>2
  <2>8. QED BY <2>6, <2>7
<1> HIDE DEF c, m
<1>9. QED BY <1>3, <1>5, <1>6, <1>7, <1>8

LEMMA UintFits ==
  ASSUME NEW w \in 1 .. Word, NEW v \in 0 .. MaxUint(w)
  PROVE  /\ v \in Arguments /\ UintOf(v, w) = v
         /\ \A r \in w .. Word : v <= MaxUint(r)
<1>1. /\ Word \in Nat /\ w \in 0 .. Word /\ Word \in 0 .. Word /\ Pow2(w) \in Nat \ {0}
      /\ Pow2(Word) = Limit(Len(Widths)) /\ Pow2(Word) \in Nat /\ Pow2(w) <= Pow2(Word)
  BY Powers, WordAssumption
<1>2. v \in 0 .. (Pow2(w) - 1)
  BY DEF MaxUint
<1>3. v \in Arguments
  BY <1>1, <1>2 DEF Arguments
<1>4. UintOf(v, w) = v
  <2>1. PICK m \in Nat \ {0} : m = Pow2(w)
    BY <1>1
  <2>2. v \in 0 .. (m - 1) /\ v \in Int
    BY <1>2, <2>1
  <2>3. v % m = v
    BY <2>2, Remainder, Zenon
  <2>4. QED BY <2>1, <2>3 DEF UintOf
<1>5. ASSUME NEW r \in w .. Word PROVE v <= MaxUint(r)
  <2>1. r \in 0 .. Word /\ w <= r
    BY <1>1
  <2>2. Pow2(w) <= Pow2(r) /\ Pow2(r) \in Nat
    BY <1>1, <2>1, Powers
  <2>3. QED BY <1>1, <1>2, <2>2 DEF MaxUint
<1>6. QED BY <1>3, <1>4, <1>5

\* A number is what its header says.
LEMMA UintBack ==
  ASSUME NEW s \in Seq(Byte), NEW p \in Nat, NEW v \in Arguments, Holds(s, p, Written(WriteUint(v)))
  PROVE  LET n == Len(Written(WriteUint(v))) IN
         /\ n \in Nat \ {0}
         /\ ReadUint64(s, p) = Good(v, n)
         /\ \A w : ReadNarrowed(s, p, w) = Good(UintOf(v, w), n)
         /\ \A w : ReadUint(s, p, w).ok => ReadUint(s, p, w).n = n
         /\ \A w : v <= MaxUint(w) => ReadUint(s, p, w) = Good(v, n)
<1> DEFINE b == WriteMajorTypeHeader(MajUnsignedInt, v)
           n == Len(b)
           hd == CborReadHeaderBuf(s, p)
<1>1. Written(WriteUint(v)) = b
  BY DEF Written, WriteUint
<1>2. MajUnsignedInt \in Majors
  BY CodecSizes
<1>3. hd = Header(MajUnsignedInt, v, n) /\ n \in Nat \ {0}
  BY <1>1, <1>2, HeaderComesBack, WriteType
<1>4. hd.ok /\ hd.maj = MajUnsignedInt /\ hd.extra = v /\ hd.n = n /\ n + 0 = n
  BY <1>3 DEF Header
<1> HIDE DEF n
<1>5. ReadUint64(s, p) = Good(v, n)
  BY <1>4 DEF ReadUint64, Headed, After, Plus, Good
<1>6. \A w : ReadNarrowed(s, p, w) = Good(UintOf(v, w), n)
  BY <1>4 DEF ReadNarrowed, Headed, After, Plus, Good
<1>7. ASSUME NEW w, v <= MaxUint(w) PROVE ReadUint(s, p, w) = Good(v, n)
  <2>1. ReadsUint(hd, w)
    BY <1>4, <1>7 DEF ReadsUint
  <2>2. QED BY <1>4, <2>1 DEF ReadUint, Headed, After, Plus, Good
<1>8. ASSUME NEW w, ReadUint(s, p, w).ok PROVE ReadUint(s, p, w).n = n
  BY <1>4, <1>8 DEF ReadUint, Headed, After, Plus, Good, Bad
<1>9. QED BY <1>1, <1>3, <1>5, <1>6, <1>7, <1>8 DEF n

LEMMA IntBack ==
  ASSUME NEW s \in Seq(Byte), NEW p \in Nat, NEW w \in 1 .. Word, NEW v \in Ints(w),
         Holds(s, p, Written(WriteInt(v, w)))
  PROVE  LET n == Len(Written(WriteInt(v, w))) IN
         /\ n \in Nat \ {0}
         /\ \A r \in w .. Word : ReadInt(s, p, r) = Good(v, n)
         /\ \A r : ReadInt(s, p, r).ok => ReadInt(s, p, r).n = n
<1> DEFINE b == Written(WriteInt(v, w))
           n == Len(b)
           hd == CborReadHeaderBuf(s, p)
<1>1. WriteInt(v, w).maj \in Majors /\ WriteInt(v, w).extra \in Arguments
  BY IntHeader
<1>2. hd = Header(WriteInt(v, w).maj, WriteInt(v, w).extra, n) /\ n \in Nat \ {0}
  BY <1>1, HeaderComesBack, WriteType DEF Written
<1>3. hd.ok /\ hd.maj = WriteInt(v, w).maj /\ hd.extra = WriteInt(v, w).extra /\ hd.n = n /\ n + 0 = n
  BY <1>2 DEF Header
<1> HIDE DEF n, hd
<1>4. ASSUME NEW r \in w .. Word PROVE ReadInt(s, p, r) = Good(v, n)
  <2>1. ReadsInt(hd, r) /\ IntRead(hd, r) = v
    BY <1>3, IntHeader
  <2>2. QED BY <1>3, <2>1 DEF ReadInt, Headed, After, Plus, Good, hd
<1>5. ASSUME NEW r, ReadInt(s, p, r).ok PROVE ReadInt(s, p, r).n = n
  BY <1>3, <1>5 DEF ReadInt, Headed, After, Plus, Good, Bad, hd
<1>6. QED BY <1>2, <1>4, <1>5 DEF n

LEMMA TimeBack ==
  ASSUME NEW s \in Seq(Byte), NEW p \in Nat, NEW v \in Ints(Word), Holds(s, p, WriteTime(v).bytes)
  PROVE  /\ WriteTime(v) = Wrote(WriteTime(v).bytes) /\ WriteTime(v).bytes \in Seq(Byte)
         /\ ReadTime(s, p) = Good(v, Len(WriteTime(v).bytes))
<1>1. Word \in 1 .. Word /\ Word \in Word .. Word
  BY Powers
<1>2. WriteTime(v) = Wrote(WriteTime(v).bytes) /\ WriteTime(v).bytes = Written(WriteInt(v, Word))
  BY DEF WriteTime, Wrote
<1>3. ReadInt(s, p, Word) = Good(v, Len(WriteTime(v).bytes))
  BY <1>1, <1>2, IntBack
<1>4. WriteTime(v).bytes \in Seq(Byte)
  BY <1>1, <1>2, IntHeader, WriteType DEF Written
<1>5. QED BY <1>2, <1>3, <1>4 DEF ReadTime, Uncounted, Good

LEMMA BoolBack ==
  ASSUME NEW s \in Seq(Byte), NEW p \in Nat, NEW v \in BOOLEAN, Holds(s, p, Written(WriteBool(v)))
  PROVE  /\ Written(WriteBool(v)) \in Seq(Byte)
         /\ ReadBool(s, p) = Good(v, Len(Written(WriteBool(v))))
<1> DEFINE b == Written(WriteBool(v))
           n == Len(b)
           hd == CborReadHeaderBuf(s, p)
           x == IF v THEN True ELSE False
<1>1. MajOther \in Majors /\ x \in Arguments /\ x \in {False, True}
  BY CodecSizes
<1>2. b = WriteMajorTypeHeader(MajOther, x)
  BY DEF Written, WriteBool
<1>3. hd = Header(MajOther, x, n) /\ n \in Nat \ {0} /\ b \in Seq(Byte)
  BY <1>1, <1>2, HeaderComesBack, WriteType
<1>4. hd.ok /\ hd.maj = MajOther /\ hd.extra = x /\ hd.n = n /\ n + 0 = n
  BY <1>3 DEF Header
<1>5. ReadsBool(hd) /\ BoolRead(hd) = v
  BY <1>1, <1>4 DEF ReadsBool, BoolRead, True, False
<1> HIDE DEF n, hd
<1>6. ReadBool(s, p) = Good(v, n)
  BY <1>4, <1>5 DEF ReadBool, Headed, After, Plus, Good, hd
<1>7. QED BY <1>3, <1>6 DEF n

-----------------------------------------------------------------------------

\* The bytes b are head and what is written in the first n of ws, the j-th of which
\* ends at[j] after head.
Laid(b, head, ws, n, at) ==
  /\ at \in [0 .. n -> Nat] /\ at[0] = 0 /\ Len(b) = Len(head) + at[n]
  /\ \A j \in 1 .. n : at[j] = at[j - 1] + Len(ws[j].bytes)
  /\ \A s \in Seq(Byte), p \in Nat :
       Holds(s, p, b) => Holds(s, p, head) /\ \A j \in 1 .. n : Holds(s, (p + Len(head)) + at[j - 1], ws[j].bytes)

\* w is what there is of it up to the first that is refused.
ChainTo(w, head, ws, n, e, at) ==
  /\ Laid(w.bytes, head, ws, e, at)
  /\ \A j \in 1 .. (e - 1) : ws[j].ok
  /\ w.ok => e = n /\ (e # 0 => ws[e].ok)
  /\ ~w.ok => e # 0 /\ ~ws[e].ok

Chain(w, head, ws, n) ==
  /\ w.bytes \in Seq(Byte) /\ w.ok \in BOOLEAN
  /\ \E e \in 0 .. n : \E at : ChainTo(w, head, ws, n, e, at)

LEMMA LaidMore ==
  ASSUME NEW b \in Seq(Byte), NEW head, Len(head) \in Nat, NEW ws, NEW n \in Nat, NEW at, Laid(b, head, ws, n, at),
         ws[n + 1].bytes \in Seq(Byte)
  PROVE  \E more : Laid(b \o ws[n + 1].bytes, head, ws, n + 1, more)
<1> DEFINE x == ws[n + 1].bytes
           more == [j \in 0 .. (n + 1) |-> IF j = n + 1 THEN at[n] + Len(x) ELSE at[j]]
<1>1. Len(x) \in Nat /\ x \in Seq(Byte)
  BY LenProperties
<1> HIDE DEF x
<1>2. Len(b \o x) = Len(b) + Len(x)
  BY <1>1, ConcatProperties
<1>3. at \in [0 .. n -> Nat] /\ at[0] = 0 /\ Len(b) = Len(head) + at[n] /\ n \in 0 .. n
  BY DEF Laid
<1>4. \A j \in 0 .. n : more[j] = at[j] /\ j \in 0 .. (n + 1) /\ at[j] \in Nat
  BY <1>3
<1>5. more[n + 1] = at[n] + Len(x)
  OBVIOUS
<1>6. more \in [0 .. (n + 1) -> Nat]
  BY <1>1, <1>3
<1> HIDE DEF more
<1>7. more[0] = 0 /\ Len(b \o x) = Len(head) + more[n + 1]
  <2>1. 0 \in 0 .. n
    OBVIOUS
  <2>2. QED BY <1>2, <1>3, <1>4, <1>5, <2>1
<1>8. ASSUME NEW j \in 1 .. (n + 1) PROVE more[j] = more[j - 1] + Len(ws[j].bytes)
  <2>1. CASE j = n + 1
    <3>1. j - 1 = n
      BY <2>1
    <3>2. QED BY <1>3, <1>4, <1>5, <2>1, <3>1 DEF x
  <2>2. CASE j # n + 1
    <3>1. j \in 1 .. n /\ j \in 0 .. n /\ j - 1 \in 0 .. n
      BY <2>2
    <3>2. at[j] = at[j - 1] + Len(ws[j].bytes)
      BY <3>1 DEF Laid
    <3>3. QED BY <1>4, <3>1, <3>2
  <2>3. QED BY <2>1, <2>2
<1>9. ASSUME NEW s \in Seq(Byte), NEW p \in Nat, Holds(s, p, b \o x)
      PROVE  Holds(s, p, head) /\ \A j \in 1 .. (n + 1) : Holds(s, (p + Len(head)) + more[j - 1], ws[j].bytes)
  <2>1. Holds(s, p, b) /\ Holds(s, p + Len(b), x)
    BY <1>1, <1>9, ConcatHeld
  <2>2. Holds(s, p, head) /\ \A j \in 1 .. n : Holds(s, (p + Len(head)) + at[j - 1], ws[j].bytes)
    BY <2>1 DEF Laid
  <2>3. ASSUME NEW j \in 1 .. (n + 1) PROVE Holds(s, (p + Len(head)) + more[j - 1], ws[j].bytes)
    <3>1. CASE j = n + 1
      <4>1. j - 1 = n
        BY <3>1
      <4>2. (p + Len(head)) + more[j - 1] = p + Len(b)
        BY <1>3, <1>4, <4>1
      <4>3. QED BY <2>1, <3>1, <4>2 DEF x
    <3>2. CASE j # n + 1
      <4>1. j \in 1 .. n /\ j - 1 \in 0 .. n
        BY <3>2
      <4>2. QED BY <1>4, <2>2, <4>1
    <3>3. QED BY <3>1, <3>2
  <2>4. QED BY <2>2, <2>3
<1>10. Laid(b \o x, head, ws, n + 1, more)
  BY <1>6, <1>7, <1>8, <1>9 DEF Laid
<1>11. QED BY <1>10 DEF x

LEMMA ChainMore ==
  ASSUME NEW w, NEW head, Len(head) \in Nat, NEW ws, NEW n \in Nat, Chain(w, head, ws, n),
         ws[n + 1].bytes \in Seq(Byte), ws[n + 1].ok \in BOOLEAN,
         NEW w2, w2 = AndThen(w, ws[n + 1])
  PROVE  Chain(w2, head, ws, n + 1)
<1>a. PICK e \in 0 .. n : \E at : ChainTo(w, head, ws, n, e, at)
  BY Zenon DEF Chain, ChainTo
<1>b. PICK at : ChainTo(w, head, ws, n, e, at)
  BY <1>a, Zenon
<1>1. /\ Laid(w.bytes, head, ws, e, at)
      /\ \A j \in 1 .. (e - 1) : ws[j].ok
      /\ w.ok => e = n /\ (e # 0 => ws[e].ok)
      /\ ~w.ok => e # 0 /\ ~ws[e].ok
  BY <1>b DEF ChainTo
<1>2. w.bytes \in Seq(Byte) /\ w.ok \in BOOLEAN
  BY DEF Chain, ChainTo
<1>3. CASE w.ok
  <2> DEFINE x == ws[n + 1]
  <2>1. w2.ok = x.ok /\ w2.bytes = w.bytes \o x.bytes
    BY <1>3 DEF AndThen
  <2>2. e = n
    BY <1>1, <1>3
  <2>3. PICK more : Laid(w.bytes \o x.bytes, head, ws, n + 1, more)
    BY <1>1, <1>2, <2>2, LaidMore
  <2>4. w2.bytes \in Seq(Byte)
    BY <1>2, <2>1, ConcatProperties
  <2>5. n + 1 \in 0 .. (n + 1) /\ n + 1 # 0
    OBVIOUS
  <2>6. \A j \in 1 .. ((n + 1) - 1) : ws[j].ok
    <3>1. \A j \in 1 .. ((n + 1) - 1) : j \in 1 .. (n - 1) \/ (j = n /\ n # 0)
      OBVIOUS
    <3>2. QED BY <1>1, <1>3, <2>2, <3>1
  <2>7. Laid(w2.bytes, head, ws, n + 1, more)
    BY <2>1, <2>3
  <2>8. QED BY <2>1, <2>4, <2>5, <2>6, <2>7 DEF Chain, ChainTo
<1>4. CASE ~w.ok
  <2>1. w2 = w
    BY <1>4 DEF AndThen
  <2>2. e \in 0 .. (n + 1)
    OBVIOUS
  <2>3. QED BY <1>1, <1>2, <1>4, <2>1, <2>2 DEF Chain, ChainTo
<1>5. QED BY <1>2, <1>3, <1>4

LEMMA ChainNone ==
  ASSUME NEW head \in Seq(Byte), NEW ws, NEW w, w.ok, w.ok \in BOOLEAN, w.bytes = head
  PROVE  Chain(w, head, ws, 0)
<1> DEFINE at == [j \in 0 .. 0 |-> 0]
<1>1. at \in [0 .. 0 -> Nat] /\ at[0] = 0 /\ Len(head) + 0 = Len(head)
  BY LenProperties
<1> HIDE DEF at
<1>2. Laid(head, head, ws, 0, at)
  BY <1>1 DEF Laid
<1>3. 0 \in 0 .. 0 /\ 1 .. (0 - 1) = {}
  OBVIOUS
<1>4. QED BY <1>2, <1>3 DEF Chain, ChainTo

PutStep(head, ws, f, j) == IF j = 0 THEN Wrote(head) ELSE AndThen(f[j - 1], ws[j])

LEMMA PutExists ==
  ASSUME NEW head, NEW ws, NEW n \in Nat
  PROVE  \E f : f = [j \in 0 .. n |-> PutStep(head, ws, f, j)]
<1> DEFINE S == { m \in 0 .. n : \E f : f = [j \in 0 .. m |-> PutStep(head, ws, f, j)] }
<1>1. 0 \in S
  <2> DEFINE f == [j \in 0 .. 0 |-> Wrote(head)]
  <2>1. f = [j \in 0 .. 0 |-> PutStep(head, ws, f, j)]
    BY DEF PutStep
  <2>2. QED BY <2>1
<1>2. ASSUME NEW m \in 0 .. (n - 1), m \in S PROVE m + 1 \in S
  <2>1. PICK f : f = [j \in 0 .. m |-> PutStep(head, ws, f, j)]
    BY <1>2
  <2> DEFINE g == [j \in 0 .. (m + 1) |-> IF j = m + 1 THEN PutStep(head, ws, f, m + 1) ELSE f[j]]
  <2>2. m + 1 \in 0 .. n /\ m \in 0 .. (m + 1)
    OBVIOUS
  <2>3. \A j \in 0 .. m : g[j] = f[j] /\ j \in 0 .. (m + 1)
    OBVIOUS
  <2>4. ASSUME NEW j \in 0 .. (m + 1) PROVE g[j] = PutStep(head, ws, g, j)
    <3>1. CASE j = m + 1
      <4>1. g[j] = PutStep(head, ws, f, m + 1) /\ j - 1 = m /\ m \in 0 .. m
        BY <3>1
      <4>2. g[j - 1] = f[m]
        BY <2>3, <4>1
      <4> HIDE DEF g
      <4>3. QED BY <3>1, <4>1, <4>2 DEF PutStep
    <3>2. CASE j # m + 1
      <4>1. j \in 0 .. m
        BY <3>2
      <4>2. g[j] = PutStep(head, ws, f, j)
        BY <2>1, <2>3, <4>1
      <4>3. j # 0 => g[j - 1] = f[j - 1]
        BY <2>3, <4>1
      <4> HIDE DEF g
      <4>4. QED BY <4>2, <4>3 DEF PutStep
    <3>3. QED BY <3>1, <3>2
  <2>5. g = [j \in 0 .. (m + 1) |-> PutStep(head, ws, g, j)]
    <3> DEFINE h == [j \in 0 .. (m + 1) |-> PutStep(head, ws, g, j)]
    <3>1. DOMAIN g = DOMAIN h /\ \A j \in 0 .. (m + 1) : g[j] = h[j]
      BY <2>4
    <3>2. g = h
      BY <3>1
    <3>3. QED BY <3>2
  <2>6. QED BY <2>2, <2>5
<1>3. \A m \in 0 .. n : m \in S
  <2> HIDE DEF S
  <2>1. QED BY <1>1, <1>2, Upward
<1>4. n \in S
  BY <1>3
<1>5. QED BY <1>4

IsAll(put, head, ws, n) ==
  /\ put[0] = Wrote(head)
  /\ \A j \in 1 .. n : put[j] = AndThen(put[j - 1], ws[j])
  /\ All(head, ws) = put[n]

LEMMA AllIs ==
  ASSUME NEW head, NEW ws, NEW n \in Nat, Len(ws) = n
  PROVE  \E put : IsAll(put, head, ws, n)
<1> DEFINE f == CHOOSE g : g = [j \in 0 .. n |-> IF j = 0 THEN Wrote(head) ELSE AndThen(g[j - 1], ws[j])]
<1>1. f = [j \in 0 .. n |-> IF j = 0 THEN Wrote(head) ELSE AndThen(f[j - 1], ws[j])]
  <2>1. \E g : g = [j \in 0 .. n |-> IF j = 0 THEN Wrote(head) ELSE AndThen(g[j - 1], ws[j])]
    <3>1. \E g : g = [j \in 0 .. n |-> PutStep(head, ws, g, j)]
      BY PutExists
    <3>2. QED BY <3>1, Zenon DEF PutStep
  <2>2. QED BY <2>1, Zenon
<1>2. All(head, ws) = f[n]
  BY DEF All
<1> HIDE DEF f
<1>3. f[0] = Wrote(head)
  BY <1>1
<1>4. \A j \in 1 .. n : f[j] = AndThen(f[j - 1], ws[j])
  BY <1>1
<1>5. QED BY <1>2, <1>3, <1>4 DEF IsAll

LEMMA AllChain ==
  ASSUME NEW head \in Seq(Byte), NEW ws, NEW n \in Nat, Len(ws) = n,
         \A j \in 1 .. n : ws[j].bytes \in Seq(Byte) /\ ws[j].ok \in BOOLEAN
  PROVE  Chain(All(head, ws), head, ws, n)
<1>1. PICK put : IsAll(put, head, ws, n)
  BY AllIs, Zenon
<1> DEFINE S == { m \in 0 .. n : Chain(put[m], head, ws, m) }
<1>0. Len(head) \in Nat
  BY LenProperties
<1>2. 0 \in S
  <2>1. put[0].ok /\ put[0].ok \in BOOLEAN /\ put[0].bytes = head
    BY <1>1 DEF Wrote, IsAll
  <2>2. PICK w : w = put[0]
    OBVIOUS
  <2>3. Chain(w, head, ws, 0)
    BY <2>1, <2>2, ChainNone, Zenon
  <2>4. QED BY <2>2, <2>3
<1>3. ASSUME NEW m \in 0 .. (n - 1), m \in S PROVE m + 1 \in S
  <2>1. m \in Nat /\ m + 1 \in 1 .. n /\ m + 1 \in 0 .. n /\ (m + 1) - 1 = m
    OBVIOUS
  <2>2. put[m + 1] = AndThen(put[m], ws[m + 1])
    BY <1>1, <2>1 DEF IsAll
  <2>3. Chain(put[m + 1], head, ws, m + 1)
    BY <1>0, <1>3, <2>1, <2>2, ChainMore
  <2>4. QED BY <2>1, <2>3
<1>4. \A m \in 0 .. n : m \in S
  <2> HIDE DEF S
  <2>1. QED BY <1>2, <1>3, Upward
<1>5. n \in 0 .. n
  OBVIOUS
<1>6. QED BY <1>1, <1>4, <1>5 DEF IsAll

\* What w has written comes back as v from the decoder that yields r, unless the
\* decoder is none for it, or it was refused and there is no more.
Comes(w, good, s, p, r, v) ==
  /\ w.bytes \in Seq(Byte) /\ w.ok \in BOOLEAN
  /\ Holds(s, p, w.bytes) =>
       /\ w.ok /\ good => r = Good(v, Len(w.bytes))
       /\ w.ok /\ ~good => ~r.ok
       /\ ~w.ok /\ p + Len(w.bytes) = Len(s) => ~r.ok

\* Each of the elements does.
AllCome(ws, goods, s, read, vs, n) ==
  \A j \in 1 .. n : \A a \in 0 .. Len(s) : Comes(ws[j], goods[j], s, a, read[a], vs[j])

\* What is read is what was written, or nothing.
ReadsAll(w, head, goods, vs, n, r) ==
  /\ w.ok /\ (\A j \in 1 .. n : goods[j]) =>
       \E d \in Nat : Len(w.bytes) = Len(head) + d /\ r = Good([j \in 1 .. n |-> vs[j]], d)
  /\ ~(w.ok /\ \A j \in 1 .. n : goods[j]) => ~r.ok

LEMMA ChainRead ==
  ASSUME NEW s \in Seq(Byte), NEW p \in Nat, NEW head \in Seq(Byte), NEW ws, NEW n \in Nat,
         NEW w, Chain(w, head, ws, n), Holds(s, p, w.bytes), w.ok \/ p + Len(w.bytes) = Len(s),
         NEW read, NEW goods, NEW vs, AllCome(ws, goods, s, read, vs, n),
         NEW r, r = Elements(p + Len(head), n, read)
  PROVE  ReadsAll(w, head, goods, vs, n, r)
<1> DEFINE base == p + Len(head)
<1>9. r = Elements(base, n, read)
  OBVIOUS
<1>a. PICK e \in 0 .. n : \E at : ChainTo(w, head, ws, n, e, at)
  BY Zenon DEF Chain
<1>b. PICK at : ChainTo(w, head, ws, n, e, at)
  BY <1>a, Zenon
<1>0. /\ Laid(w.bytes, head, ws, e, at)
      /\ \A j \in 1 .. (e - 1) : ws[j].ok
      /\ w.ok => e = n /\ (e # 0 => ws[e].ok)
      /\ ~w.ok => e # 0 /\ ~ws[e].ok
  BY <1>b DEF ChainTo
<1>1. Len(s) \in Nat /\ Len(head) \in Nat /\ w.ok \in BOOLEAN /\ base \in Nat /\ Len(w.bytes) \in Nat
  BY LenProperties DEF Chain
<1>2. /\ at \in [0 .. e -> Nat] /\ at[0] = 0 /\ Len(w.bytes) = Len(head) + at[e]
      /\ \A j \in 1 .. e : at[j] = at[j - 1] + Len(ws[j].bytes)
      /\ \A j \in 1 .. e : Holds(s, base + at[j - 1], ws[j].bytes)
  BY <1>0 DEF Laid
<1> HIDE DEF base
<1>3. ASSUME NEW j \in 1 .. e
      PROVE  /\ Comes(ws[j], goods[j], s, base + at[j - 1], read[base + at[j - 1]], vs[j])
             /\ Holds(s, base + at[j - 1], ws[j].bytes)
             /\ at[j - 1] \in Nat /\ at[j] \in Nat /\ Len(ws[j].bytes) \in Nat
  <2>1. j \in 1 .. n /\ j - 1 \in 0 .. e /\ j \in 0 .. e
    OBVIOUS
  <2>2. Holds(s, base + at[j - 1], ws[j].bytes) /\ at[j - 1] \in Nat /\ at[j] \in Nat
    BY <1>2, <2>1
  <2>3. ws[j].bytes \in Seq(Byte)
    <3>1. 0 \in 0 .. Len(s)
      BY <1>1
    <3>2. QED BY <2>1, <3>1 DEF AllCome, Comes
  <2>4. Len(ws[j].bytes) \in Nat
    BY <2>3, LenProperties
  <2>5. base + at[j - 1] \in 0 .. Len(s)
    <3>1. PICK a \in Nat, l \in Nat : a = at[j - 1] /\ l = Len(ws[j].bytes)
      BY <2>2, <2>4
    <3>2. (base + a) + l <= Len(s)
      BY <2>2, <3>1 DEF Holds
    <3>3. base + a \in 0 .. Len(s)
      BY <1>1, <3>2
    <3>4. QED BY <3>1, <3>3
  <2>6. QED BY <2>1, <2>2, <2>4, <2>5 DEF AllCome
<1> DEFINE Fine(j) == ws[j].ok /\ goods[j]
<1>4. ASSUME NEW m \in 0 .. e, \A j \in 1 .. m : Fine(j)
      PROVE  \A j \in 1 .. m : read[base + at[j - 1]] = Good(vs[j], Len(ws[j].bytes))
  <2>1. TAKE j \in 1 .. m
  <2>2. j \in 1 .. e
    OBVIOUS
  <2>3. QED BY <1>3, <1>4, <2>2 DEF Comes
<1>5. ASSUME NEW m \in 0 .. e, \A j \in 1 .. m : Fine(j)
      PROVE  \E to : /\ Along(base, m, read, to)
                     /\ \A j \in 0 .. m : to[j] = at[j]
  <2> DEFINE to == [j \in 0 .. m |-> at[j]]
  <2>1. \A j \in 0 .. m : to[j] = at[j] /\ j \in 0 .. e
    OBVIOUS
  <2>2. to \in [0 .. m -> Nat]
    BY <1>2
  <2> HIDE DEF to
  <2>3. ASSUME NEW j \in 1 .. m
        PROVE  read[base + to[j - 1]].ok /\ to[j] = to[j - 1] + read[base + to[j - 1]].n
    <3>1. j - 1 \in 0 .. m /\ j \in 0 .. m /\ j \in 1 .. e
      OBVIOUS
    <3>2. to[j - 1] = at[j - 1] /\ to[j] = at[j]
      BY <2>1, <3>1
    <3>3. at[j] = at[j - 1] + Len(ws[j].bytes)
      BY <1>2, <3>1
    <3>4. read[base + at[j - 1]] = Good(vs[j], Len(ws[j].bytes))
      BY <1>4, <1>5
    <3>5. QED BY <3>2, <3>3, <3>4 DEF Good
  <2>4. to[0] = 0
    BY <1>2, <2>1
  <2>5. Along(base, m, read, to)
    BY <2>2, <2>3, <2>4 DEF Along
  <2>6. QED BY <2>1, <2>5
<1>6. ASSUME w.ok, \A j \in 1 .. n : goods[j]
      PROVE  \E d \in Nat : Len(w.bytes) = Len(head) + d /\ r = Good([j \in 1 .. n |-> vs[j]], d)
  <2>1. e = n /\ e \in 0 .. e
    BY <1>0, <1>6
  <2>2. \A j \in 1 .. e : Fine(j)
    <3>1. \A j \in 1 .. e : j \in 1 .. (e - 1) \/ (j = e /\ e # 0)
      OBVIOUS
    <3>2. QED BY <1>0, <1>6, <2>1, <3>1
  <2>3. PICK to : Along(base, n, read, to) /\ \A j \in 0 .. n : to[j] = at[j]
    BY <1>5, <2>1, <2>2
  <2>4. r = Good([j \in 1 .. n |-> read[base + to[j - 1]].v], to[n])
    <3>1. Along(base, n, read, to)
      BY <2>3
    <3>2. Elements(base, n, read) = Good([j \in 1 .. n |-> read[base + to[j - 1]].v], to[n])
      BY <3>1, ElementsAlong
    <3>3. QED BY <1>9, <3>2
  <2>5. [j \in 1 .. n |-> read[base + to[j - 1]].v] = [j \in 1 .. n |-> vs[j]]
    <3>1. ASSUME NEW j \in 1 .. n PROVE read[base + to[j - 1]].v = vs[j]
      <4>1. j - 1 \in 0 .. n
        OBVIOUS
      <4>2. to[j - 1] = at[j - 1]
        BY <2>3, <4>1
      <4>3. read[base + at[j - 1]] = Good(vs[j], Len(ws[j].bytes))
        BY <1>4, <2>1, <2>2
      <4>4. QED BY <4>2, <4>3 DEF Good
    <3>2. QED BY <3>1
  <2>6. n \in 0 .. n
    OBVIOUS
  <2>7. to[n] = at[n] /\ at[n] \in Nat /\ Len(w.bytes) = Len(head) + at[n]
    BY <1>2, <2>1, <2>3, <2>6
  <2>8. QED BY <2>4, <2>5, <2>7
<1>7. ASSUME ~(w.ok /\ \A j \in 1 .. n : goods[j])
      PROVE  ~r.ok
  <2> DEFINE T == { j \in 1 .. e : ~Fine(j) }
  <2>1. T # {}
    <3>1. CASE ~w.ok
      <4>1. e \in 1 .. e /\ ~ws[e].ok
        BY <1>0, <3>1
      <4>2. QED BY <4>1
    <3>2. CASE w.ok
      <4>1. e = n
        BY <1>0, <3>2
      <4>2. PICK j \in 1 .. n : ~goods[j]
        BY <1>7, <3>2
      <4>3. j \in T
        BY <4>1, <4>2
      <4>4. QED BY <4>3
    <3>3. QED BY <3>1, <3>2
  <2>2. PICK m \in T : \A j \in T : m <= j
    <3>1. T \subseteq Nat
      OBVIOUS
    <3> HIDE DEF T
    <3>2. QED BY <2>1, <3>1, LeastElement, Zenon
  <2>3. m \in 1 .. e /\ ~Fine(m) /\ m - 1 \in 0 .. e /\ m \in 1 .. n
    BY <2>2
  <2>4. \A j \in 1 .. (m - 1) : Fine(j)
    <3>1. ASSUME NEW j \in 1 .. (m - 1), ~Fine(j) PROVE FALSE
      <4>1. j \in T
        BY <2>3, <3>1
      <4> HIDE DEF T
      <4>2. m <= j
        BY <2>2, <4>1
      <4>3. QED BY <2>3, <4>2
    <3>2. QED BY <3>1
  <2>5. PICK to : Along(base, m - 1, read, to) /\ \A j \in 0 .. (m - 1) : to[j] = at[j]
    BY <1>5, <2>3, <2>4
  <2>6. m - 1 \in 0 .. (m - 1)
    BY <2>3
  <2>7. to[m - 1] = at[m - 1]
    BY <2>5, <2>6
  <2>8. /\ Comes(ws[m], goods[m], s, base + at[m - 1], read[base + at[m - 1]], vs[m])
        /\ Holds(s, base + at[m - 1], ws[m].bytes)
    BY <1>3, <2>3
  <2>9. ~read[base + at[m - 1]].ok
    <3>1. CASE ws[m].ok
      <4>1. ~goods[m]
        BY <2>3, <3>1
      <4>2. QED BY <2>8, <3>1, <4>1 DEF Comes
    <3>2. CASE ~ws[m].ok
      <4>1. m = e
        <5>1. m \in 1 .. (e - 1) => ws[m].ok
          BY <1>0
        <5>2. QED BY <2>3, <3>2, <5>1
      <4>2. ~w.ok
        BY <1>0, <2>3, <3>2, <4>1
      <4>3. (base + at[m - 1]) + Len(ws[m].bytes) = Len(s)
        <5>1. at[m] = at[m - 1] + Len(ws[m].bytes) /\ at[m - 1] \in Nat /\ Len(ws[m].bytes) \in Nat
          BY <1>2, <1>3, <2>3
        <5>2. Len(w.bytes) = Len(head) + at[m] /\ p + Len(w.bytes) = Len(s)
          BY <1>2, <4>1, <4>2
        <5>3. base = p + Len(head)
          BY DEF base
        <5>4. PICK a \in Nat, b \in Nat, c \in Nat, d \in Nat :
                a = Len(head) /\ b = at[m - 1] /\ c = Len(ws[m].bytes) /\ d = Len(s)
          BY <1>1, <5>1
        <5>5. p + (a + (b + c)) = d
          BY <5>1, <5>2, <5>4
        <5>6. ((p + a) + b) + c = d
          BY <5>5
        <5>7. QED BY <5>3, <5>4, <5>6
      <4>4. QED BY <2>8, <3>2, <4>3 DEF Comes
    <3>3. QED BY <3>1, <3>2
  <2>10. QED BY <2>3, <2>5, <2>7, <2>9, ElementsFail, <1>9
<1>8. QED BY <1>6, <1>7 DEF ReadsAll

-----------------------------------------------------------------------------

\* A header and what it announces.
LEMMA SizedBack ==
  ASSUME NEW s \in Seq(Byte), NEW p \in Nat, NEW maj \in Majors, NEW l \in Arguments, NEW body \in Seq(Byte),
         Holds(s, p, WriteMajorTypeHeader(maj, l) \o body)
  PROVE  LET n  == Len(WriteMajorTypeHeader(maj, l))
             hd == CborReadHeaderBuf(s, p)
         IN  /\ n \in Nat \ {0} /\ hd.ok /\ hd.maj = maj /\ hd.extra = l /\ hd.n = n
             /\ Holds(s, p + n, body)
<1>1. WriteMajorTypeHeader(maj, l) \in Seq(Byte) /\ Len(WriteMajorTypeHeader(maj, l)) \in Nat \ {0}
  BY WriteType
<1>2. Holds(s, p, WriteMajorTypeHeader(maj, l)) /\ Holds(s, p + Len(WriteMajorTypeHeader(maj, l)), body)
  BY <1>1, ConcatHeld
<1>3. QED BY <1>1, <1>2, HeaderComesBack DEF Header

LEMMA SizedBytes ==
  ASSUME NEW maj \in Majors, NEW l \in Arguments, NEW body \in Seq(Byte)
  PROVE  /\ WriteMajorTypeHeader(maj, l) \o body \in Seq(Byte)
         /\ Len(WriteMajorTypeHeader(maj, l) \o body) = Len(WriteMajorTypeHeader(maj, l)) + Len(body)
<1>1. WriteMajorTypeHeader(maj, l) \in Seq(Byte)
  BY WriteType
<1>2. QED BY <1>1, ConcatProperties

LEMMA FullBack ==
  ASSUME NEW s \in Seq(Byte), NEW p \in Nat, NEW body \in Seq(Byte), Holds(s, p, body)
  PROVE  ReadFull(s, p, Len(body)) = Good(body, Len(body))
<1>1. p + Len(body) <= Len(s)
  BY DEF Holds
<1>2. SubSeq(s, p + 1, p + Len(body)) = body
  BY HeldSlice
<1>3. QED BY <1>1, <1>2 DEF ReadFull

\* Nothing was written, and nothing is read.
LEMMA NoneComes ==
  ASSUME NEW s \in Seq(Byte), NEW p \in Nat, NEW good, NEW r, NEW v,
         ~CborReadHeaderBuf(s, p).ok => ~r.ok
  PROVE  Comes(Refused(<< >>), good, s, p, r, v)
<1>1. << >> \in Seq(Byte) /\ Len(<< >>) = 0
  BY EmptySeq
<1>2. Refused(<< >>).bytes = << >> /\ Refused(<< >>).ok = FALSE
  BY DEF Refused
<1>3. p + 0 = Len(s) => ~CborReadHeaderBuf(s, p).ok
  BY NoneAtTheEnd
<1>4. QED BY <1>1, <1>2, <1>3 DEF Comes

LEMMA WrittenComes ==
  ASSUME NEW s, NEW p, NEW r, NEW v, NEW b \in Seq(Byte), Holds(s, p, b) => r = Good(v, Len(b))
  PROVE  Comes(Wrote(b), TRUE, s, p, r, v)
BY DEF Comes, Wrote

\* A null is a header of its own.
LEMMA NullHeader ==
  ASSUME NEW s \in Seq(Byte), NEW p \in Nat, p < Len(s), s[p + 1] = CborNull
  PROVE  CborReadHeaderBuf(s, p) = Header(MajOther, Nil, 1)
<1>1. MajOther \in Majors /\ Nil \in Nat /\ Nil < Inline
  BY CodecSizes
<1>2. s[p + 1] = FirstByte(MajOther, Nil)
  BY DEF CborNull
<1>3. QED BY <1>1, <1>2, InlineRead

LEMMA NotNull ==
  ASSUME NEW s \in Seq(Byte), NEW p \in Nat, CborReadHeaderBuf(s, p).ok, CborReadHeaderBuf(s, p).maj # MajOther
  PROVE  p < Len(s) /\ s[p + 1] # CborNull
<1>1. Len(s) \in Nat
  BY LenProperties
<1>2. p < Len(s)
  BY <1>1, NoneAtTheEnd
<1>3. QED BY <1>2, NullHeader DEF Header

LEMMA StringComes ==
  ASSUME NEW s \in Seq(Byte), NEW p \in Nat, NEW v \in Seq(Byte)
  PROVE  Comes(WriteString(v), TRUE, s, p, ReadString(s, p), v)
<1> DEFINE n == Len(v)
           h == Len(WriteMajorTypeHeader(MajTextString, n))
           r == ReadString(s, p)
           hd == CborReadHeaderBuf(s, p)
<1>1. n \in Nat /\ MajTextString \in Majors /\ MaxLength \in Arguments /\ MaxLength \in Nat
  BY CodecSizes, LenProperties
<1>2. CASE n > MaxLength
  <2>1. WriteString(v) = Refused(<< >>)
    BY <1>2 DEF WriteString, WriteSized
  <2>2. ~CborReadHeaderBuf(s, p).ok => ~r.ok
    BY DEF ReadString, Uncounted, Headed, After, Bad
  <2>3. QED BY <2>1, <2>2, NoneComes
<1>3. CASE ~(n > MaxLength)
  <2>1. n \in Arguments /\ n <= MaxLength
    BY <1>1, <1>3, CodecSizes
  <2> DEFINE b == WriteMajorTypeHeader(MajTextString, n) \o v
  <2>2. WriteString(v) = Wrote(b)
    BY <1>3 DEF WriteString, WriteSized
  <2>3. b \in Seq(Byte) /\ Len(b) = h + n
    BY <1>1, <2>1, SizedBytes
  <2>4. ASSUME Holds(s, p, b) PROVE r = Good(v, h + n)
    <3>1. hd.ok /\ hd.maj = MajTextString /\ hd.extra = n /\ hd.n = h /\ h \in Nat \ {0} /\ Holds(s, p + h, v)
      BY <1>1, <2>1, <2>4, SizedBack
    <3>2. ReadFull(s, p + h, n) = Good(v, n)
      BY <3>1, FullBack
    <3> HIDE DEF n, h, hd
    <3>3. r = Uncounted(Plus(hd.n, ReadFull(s, p + hd.n, hd.extra)))
      BY <2>1, <3>1 DEF ReadString, Headed, After, hd
    <3>4. Plus(h, Good(v, n)) = Good(v, h + n) /\ Good(v, h + n).ok
      BY DEF Plus, Good
    <3>5. QED BY <3>1, <3>2, <3>3, <3>4 DEF Uncounted
  <2> HIDE DEF b, r
  <2>5. Comes(Wrote(b), TRUE, s, p, r, v)
    BY <2>3, <2>4, WrittenComes
  <2>6. QED BY <2>2, <2>5 DEF r
<1>4. QED BY <1>2, <1>3

LEMMA BytesComes ==
  ASSUME NEW s \in Seq(Byte), NEW p \in Nat, NEW v \in Seq(Byte)
  PROVE  /\ Comes(WriteBytes(v), TRUE, s, p, ReadBytes(s, p, << >>), v)
         /\ Comes(WriteBytes(v), TRUE, s, p, ReadBytesOf(s, p, Len(v)), v)
<1> DEFINE n == Len(v)
           h == Len(WriteMajorTypeHeader(MajByteString, n))
           r == ReadBytes(s, p, << >>)
           r2 == ReadBytesOf(s, p, n)
           hd == CborReadHeaderBuf(s, p)
<1>1. n \in Nat /\ MajByteString \in Majors /\ ByteArrayMaxLen \in Arguments /\ ByteArrayMaxLen \in Nat
  BY CodecSizes, LenProperties
<1>2. CASE n > ByteArrayMaxLen
  <2>1. WriteBytes(v) = Refused(<< >>)
    BY <1>2 DEF WriteBytes, WriteSized
  <2>2. ~CborReadHeaderBuf(s, p).ok => ~r.ok /\ ~r2.ok
    BY DEF ReadBytes, ReadBytesOf, Headed, After, Bad
  <2>3. QED BY <2>1, <2>2, NoneComes
<1>3. CASE ~(n > ByteArrayMaxLen)
  <2>1. n \in Arguments /\ n <= ByteArrayMaxLen
    BY <1>1, <1>3, CodecSizes
  <2> DEFINE b == WriteMajorTypeHeader(MajByteString, n) \o v
  <2>2. WriteBytes(v) = Wrote(b)
    BY <1>3 DEF WriteBytes, WriteSized
  <2>3. b \in Seq(Byte) /\ Len(b) = h + n
    BY <1>1, <2>1, SizedBytes
  <2>4. ASSUME Holds(s, p, b) PROVE r = Good(v, h + n) /\ r2 = Good(v, h + n)
    <3>1. hd.ok /\ hd.maj = MajByteString /\ hd.extra = n /\ hd.n = h /\ h \in Nat \ {0} /\ Holds(s, p + h, v)
      BY <1>1, <2>1, <2>4, SizedBack
    <3>2. ReadFull(s, p + h, n) = Good(v, n)
      BY <3>1, FullBack
    <3>3. (IF n > 0 THEN n ELSE Len(<< >>)) = n
      BY <1>1, EmptySeq
    <3> HIDE DEF n, h, hd
    <3>4. r = Good(v, h + n)
      <4>1. r = Plus(hd.n, ReadFull(s, p + hd.n, IF hd.extra > 0 THEN hd.extra ELSE Len(<< >>)))
        BY <2>1, <3>1 DEF ReadBytes, Headed, After, hd
      <4>2. QED BY <3>1, <3>2, <3>3, <4>1 DEF Plus, Good
    <3>5. r2 = Good(v, h + n)
      <4>1. r2 = Plus(hd.n, ReadFull(s, p + hd.n, n))
        BY <2>1, <3>1 DEF ReadBytesOf, Headed, After, hd
      <4>2. Plus(h, Good(v, n)) = Good(v, h + n)
        BY DEF Plus, Good
      <4>3. QED BY <3>1, <3>2, <4>1, <4>2
    <3>6. QED BY <3>4, <3>5
  <2> HIDE DEF b, r, r2
  <2>5. Comes(Wrote(b), TRUE, s, p, r, v) /\ Comes(Wrote(b), TRUE, s, p, r2, v)
    BY <2>3, <2>4, WrittenComes
  <2>6. QED BY <2>2, <2>5 DEF r, r2
<1>4. QED BY <1>2, <1>3

LEMMA TimeComes ==
  ASSUME NEW s \in Seq(Byte), NEW p \in Nat, NEW v \in Ints(Word)
  PROVE  Comes(WriteTime(v), TRUE, s, p, ReadTime(s, p), v)
<1>1. WriteTime(v) = Wrote(WriteTime(v).bytes) /\ WriteTime(v).bytes = Written(WriteInt(v, Word))
  BY DEF WriteTime, Wrote
<1>2. WriteTime(v).bytes \in Seq(Byte)
  <2>1. Word \in 1 .. Word
    BY Powers
  <2>2. QED BY <1>1, <2>1, IntHeader, WriteType DEF Written
<1>3. Holds(s, p, WriteTime(v).bytes) => ReadTime(s, p) = Good(v, Len(WriteTime(v).bytes))
  BY TimeBack
<1>4. Comes(Wrote(WriteTime(v).bytes), TRUE, s, p, ReadTime(s, p), v)
  BY <1>2, <1>3, WrittenComes
<1>5. QED BY <1>1, <1>4

LEMMA StructComes ==
  ASSUME NEW s \in Seq(Byte), NEW p \in Nat, NEW v \in Ints(Word)
  PROVE  /\ Comes(WriteStruct(v), TRUE, s, p, ReadStruct(s, p), v)
         /\ Holds(s, p, WriteStruct(v).bytes) => p < Len(s) /\ s[p + 1] # CborNull
<1> DEFINE c == WriteTime(v).bytes
           h == Len(WriteMajorTypeHeader(MajArray, 1))
           b == WriteMajorTypeHeader(MajArray, 1) \o c
           r == ReadStruct(s, p)
           hd == CborReadHeaderBuf(s, p)
<1>1. MajArray \in Majors /\ 1 \in Arguments /\ Word \in 1 .. Word /\ Word \in Word .. Word
  BY CodecSizes, Powers
<1>2. c = Written(WriteInt(v, Word)) /\ c \in Seq(Byte) /\ Len(c) \in Nat
  <2>1. c = Written(WriteInt(v, Word))
    BY DEF WriteTime, Wrote
  <2>2. c \in Seq(Byte)
    BY <1>1, <2>1, IntHeader, WriteType DEF Written
  <2>3. QED BY <2>1, <2>2, LenProperties
<1>3. WriteStruct(v) = Wrote(b) /\ WriteStruct(v).bytes = b
  BY DEF WriteStruct, Wrote
<1> HIDE DEF c
<1>4. b \in Seq(Byte) /\ Len(b) = h + Len(c)
  BY <1>1, <1>2, SizedBytes
<1>5. ASSUME Holds(s, p, b)
      PROVE  r = Good(v, h + Len(c)) /\ p < Len(s) /\ s[p + 1] # CborNull
  <2>1. hd.ok /\ hd.maj = MajArray /\ hd.extra = 1 /\ hd.n = h /\ h \in Nat \ {0} /\ Holds(s, p + h, c)
    BY <1>1, <1>2, <1>5, SizedBack
  <2>2. p + h \in Nat
    BY <2>1
  <2>3. ReadInt(s, p + h, Word) = Good(v, Len(c))
    BY <1>1, <1>2, <2>1, <2>2, IntBack
  <2> HIDE DEF h, hd
  <2>4. r = Good(v, h + Len(c))
    <3>1. r = Uncounted(Plus(hd.n, ReadInt(s, p + hd.n, Word)))
      BY <2>1 DEF ReadStruct, Headed, After, hd
    <3>2. Plus(h, Good(v, Len(c))) = Good(v, h + Len(c)) /\ Good(v, h + Len(c)).ok
      BY DEF Plus, Good
    <3>3. QED BY <2>1, <2>3, <3>1, <3>2 DEF Uncounted
  <2>5. hd.maj # MajOther
    BY <2>1 DEF MajArray, MajOther
  <2>6. p < Len(s) /\ s[p + 1] # CborNull
    BY <2>1, <2>5, NotNull DEF hd
  <2>7. QED BY <2>4, <2>6
<1> HIDE DEF b, r
<1>6. Comes(Wrote(b), TRUE, s, p, r, v)
  BY <1>4, <1>5, WrittenComes
<1>7. QED BY <1>3, <1>5, <1>6 DEF r

-----------------------------------------------------------------------------

\* A null, and a pointer.
LEMMA NullHeld ==
  /\ << CborNull >> \in Seq(Byte) /\ Len(<< CborNull >>) = 1
  /\ \A s \in Seq(Byte), p \in Nat : Holds(s, p, << CborNull >>) => p < Len(s) /\ s[p + 1] = CborNull
<1>1. CborNull \in Byte
  <2>1. MajOther \in Majors /\ Nil \in 0 .. (LowRange - 1)
    BY CodecSizes
  <2>2. QED BY <2>1, FirstByteType DEF CborNull
<1>2. << CborNull >> \in Seq(Byte) /\ Len(<< CborNull >>) = 1 /\ << CborNull >>[1] = CborNull
  BY <1>1
<1>3. ASSUME NEW s \in Seq(Byte), NEW p \in Nat, Holds(s, p, << CborNull >>)
      PROVE  p < Len(s) /\ s[p + 1] = CborNull
  <2>1. p + 1 <= Len(s) /\ \A c \in 1 .. 1 : s[p + c] = << CborNull >>[c]
    BY <1>2, <1>3 DEF Holds
  <2>2. Len(s) \in Nat
    BY LenProperties
  <2>3. QED BY <1>2, <2>1, <2>2
<1>4. QED BY <1>2, <1>3

\* A pointer comes back, if what it points to does and begins with no null.
LEMMA PointerComes ==
  ASSUME NEW kind \in Nullable, NEW s \in Seq(Byte), NEW p \in Nat, NEW w, NEW x,
         Comes(w, TRUE, s, p, ReadPointee(kind, s, p), x),
         Holds(s, p, w.bytes) =>
           \/ p < Len(s) /\ s[p + 1] # CborNull
           \/ ~w.ok /\ w.bytes = << >>
  PROVE  Comes(w, TRUE, s, p, ReadPointer(kind, s, p, << >>), << x >>)
<1> DEFINE r  == ReadPointer(kind, s, p, << >>)
           to == ReadPointee(kind, s, p)
<1>1. Len(s) \in Nat /\ w.bytes \in Seq(Byte) /\ w.ok \in BOOLEAN
  BY LenProperties DEF Comes
<1>2. CASE ~Holds(s, p, w.bytes)
  BY <1>1, <1>2 DEF Comes
<1>3. CASE Holds(s, p, w.bytes) /\ p < Len(s) /\ s[p + 1] # CborNull
  <2>1. r = IF to.ok THEN Good(<< to.v >>, to.n) ELSE to
    BY <1>1, <1>3 DEF ReadPointer, PutBack, Mapped
  <2>2. /\ w.ok => to = Good(x, Len(w.bytes))
        /\ ~w.ok /\ p + Len(w.bytes) = Len(s) => ~to.ok
    BY <1>3 DEF Comes
  <2> HIDE DEF to, r
  <2>3. w.ok => r = Good(<< x >>, Len(w.bytes))
    <3>1. w.ok => to.ok /\ to.v = x /\ to.n = Len(w.bytes)
      BY <2>2 DEF Good
    <3>2. QED BY <2>1, <3>1
  <2>4. ~w.ok /\ p + Len(w.bytes) = Len(s) => ~r.ok
    BY <2>1, <2>2
  <2>5. Comes(w, TRUE, s, p, r, << x >>)
    BY <1>1, <2>3, <2>4 DEF Comes
  <2>6. QED BY <2>5 DEF r
<1>4. CASE Holds(s, p, w.bytes) /\ ~w.ok /\ w.bytes = << >>
  <2>1. Len(w.bytes) = 0
    BY <1>4
  <2>2. ASSUME p + 0 = Len(s) PROVE ~r.ok
    BY <1>1, <2>2 DEF ReadPointer, Bad, Mapped
  <2> HIDE DEF r
  <2>3. Comes(w, TRUE, s, p, r, << x >>)
    BY <1>1, <1>4, <2>1, <2>2 DEF Comes
  <2>4. QED BY <2>3 DEF r
<1>5. QED BY <1>2, <1>3, <1>4

LEMMA NullComes ==
  ASSUME NEW kind, NEW s \in Seq(Byte), NEW p \in Nat
  PROVE  /\ Comes(Wrote(<< CborNull >>), TRUE, s, p, ReadPointer(kind, s, p, << >>), << >>)
         /\ \A v : Comes(Wrote(<< CborNull >>), FALSE, s, p, ReadStruct(s, p), v)
<1> DEFINE r == ReadPointer(kind, s, p, << >>)
           b == << CborNull >>
<1>1. b \in Seq(Byte) /\ Len(b) = 1 /\ Len(s) \in Nat
  BY NullHeld, LenProperties
<1>2. ASSUME Holds(s, p, b) PROVE p < Len(s) /\ s[p + 1] = CborNull
  BY <1>2, NullHeld
<1> HIDE DEF b
<1>3. ASSUME Holds(s, p, b) PROVE r = Good(<< >>, Len(b))
  BY <1>1, <1>2, <1>3 DEF ReadPointer, Mapped
<1>4. ASSUME Holds(s, p, b) PROVE ~ReadStruct(s, p).ok
  <2>1. CborReadHeaderBuf(s, p) = Header(MajOther, Nil, 1)
    BY <1>2, <1>4, NullHeader
  <2>2. CborReadHeaderBuf(s, p).maj # MajArray
    BY <2>1 DEF Header, MajOther, MajArray
  <2>3. QED BY <2>2 DEF ReadStruct, Uncounted, Headed, After, Bad
<1> HIDE DEF r
<1>5. Comes(Wrote(b), TRUE, s, p, r, << >>)
  BY <1>1, <1>3, WrittenComes
<1>6. ASSUME NEW v PROVE Comes(Wrote(b), FALSE, s, p, ReadStruct(s, p), v)
  BY <1>1, <1>4 DEF Comes, Wrote
<1>7. QED BY <1>5, <1>6 DEF r, b

LEMMA PointerIs ==
  ASSUME NEW V, NEW v, IsPointer(V, v), v # << >>
  PROVE  \E x \in V : v = << x >> /\ v[1] = x /\ DOMAIN v = {1}
<1>1. v \in Seq(V) /\ Len(v) <= 1 /\ Len(v) \in Nat
  BY LenProperties DEF IsPointer
<1>2. Len(v) # 0
  BY <1>1, EmptySeq
<1>3. Len(v) = 1
  <2>1. PICK n \in Nat : n = Len(v)
    BY <1>1
  <2>2. n <= 1 /\ n # 0
    BY <1>1, <1>2, <2>1
  <2>3. n = 1
    BY <2>2
  <2>4. QED BY <2>1, <2>3
<1>4. v[1] \in V
  BY <1>1, <1>3, ElementOfSeq
<1>5. v = << v[1] >>
  <2>1. << v[1] >> \in Seq(V) /\ Len(<< v[1] >>) = 1 /\ << v[1] >>[1] = v[1]
    BY <1>4
  <2> DEFINE b == << v[1] >>
  <2> HIDE DEF b
  <2>2. b \in Seq(V) /\ Len(b) = 1 /\ b[1] = v[1]
    BY <2>1 DEF b
  <2>3. v = b
    BY <1>1, <1>3, <2>2, SeqEqual
  <2>4. QED BY <2>3 DEF b
<1>6. DOMAIN v = {1}
  BY <1>1, <1>3, LenProperties
<1>7. QED BY <1>4, <1>5, <1>6

LEMMA StructPointerComes ==
  ASSUME NEW s \in Seq(Byte), NEW p \in Nat, NEW e, IsPointer(Ints(Word), e)
  PROVE  Comes(WriteStructPointer(e), TRUE, s, p, ReadPointer("*struct", s, p, << >>), e)
<1>1. CASE e = << >>
  <2>1. WriteStructPointer(e) = Wrote(<< CborNull >>)
    BY <1>1 DEF WriteStructPointer
  <2>2. QED BY <1>1, <2>1, NullComes
<1>2. CASE e # << >>
  <2>2. PICK x \in Ints(Word) : e = << x >> /\ e[1] = x
    BY <1>2, PointerIs
  <2>3. WriteStructPointer(e) = WriteStruct(x)
    BY <1>2, <2>2 DEF WriteStructPointer
  <2>4. ReadPointee("*struct", s, p) = ReadStruct(s, p) /\ "*struct" \in Nullable
    BY DEF ReadPointee, Nullable
  <2>5. Comes(WriteStruct(x), TRUE, s, p, ReadPointee("*struct", s, p), x)
    BY <2>4, StructComes
  <2>6. Holds(s, p, WriteStruct(x).bytes) => p < Len(s) /\ s[p + 1] # CborNull
    BY StructComes
  <2>7. Comes(WriteStruct(x), TRUE, s, p, ReadPointer("*struct", s, p, << >>), << x >>)
    BY <2>4, <2>5, <2>6, PointerComes
  <2>8. QED BY <2>2, <2>3, <2>7
<1>3. QED BY <1>1, <1>2

LEMMA UintComes ==
  ASSUME NEW s \in Seq(Byte), NEW p \in Nat, NEW v \in Arguments
  PROVE  /\ Comes(Wrote(Written(WriteUint(v))), TRUE, s, p, ReadUint64(s, p), v)
         /\ \A w : Comes(Wrote(Written(WriteUint(v))), TRUE, s, p, ReadNarrowed(s, p, w), UintOf(v, w))
         /\ Holds(s, p, Written(WriteUint(v))) => p < Len(s) /\ s[p + 1] # CborNull
<1> DEFINE b == Written(WriteUint(v))
<1>1. b = WriteMajorTypeHeader(MajUnsignedInt, v) /\ MajUnsignedInt \in Majors
  BY CodecSizes DEF Written, WriteUint
<1>2. b \in Seq(Byte)
  BY <1>1, WriteType
<1>3. Holds(s, p, b) => ReadUint64(s, p) = Good(v, Len(b))
  BY UintBack
<1>4. ASSUME NEW w PROVE Holds(s, p, b) => ReadNarrowed(s, p, w) = Good(UintOf(v, w), Len(b))
  BY UintBack
<1>5. ASSUME Holds(s, p, b) PROVE p < Len(s) /\ s[p + 1] # CborNull
  <2>1. CborReadHeaderBuf(s, p).ok /\ CborReadHeaderBuf(s, p).maj = MajUnsignedInt
    BY <1>1, <1>5, HeaderComesBack DEF Header
  <2>2. MajUnsignedInt # MajOther
    BY DEF MajUnsignedInt, MajOther
  <2>3. QED BY <2>1, <2>2, NotNull
<1> HIDE DEF b
<1>6. Comes(Wrote(b), TRUE, s, p, ReadUint64(s, p), v)
  BY <1>2, <1>3, WrittenComes
<1>7. ASSUME NEW w PROVE Comes(Wrote(b), TRUE, s, p, ReadNarrowed(s, p, w), UintOf(v, w))
  BY <1>2, <1>4, WrittenComes
<1>8. QED BY <1>5, <1>6, <1>7 DEF b

LEMMA IntComes ==
  ASSUME NEW s \in Seq(Byte), NEW p \in Nat, NEW w \in 1 .. Word, NEW v \in Ints(w)
  PROVE  Comes(Wrote(Written(WriteInt(v, w))), TRUE, s, p, ReadInt(s, p, w), v)
<1> DEFINE b == Written(WriteInt(v, w))
<1>1. b \in Seq(Byte)
  BY IntHeader, WriteType DEF Written
<1>2. w \in w .. Word
  OBVIOUS
<1>3. Holds(s, p, b) => ReadInt(s, p, w) = Good(v, Len(b))
  BY <1>2, IntBack
<1> HIDE DEF b
<1>4. Comes(Wrote(b), TRUE, s, p, ReadInt(s, p, w), v)
  BY <1>1, <1>3, WrittenComes
<1>5. QED BY <1>4 DEF b

LEMMA BoolComes ==
  ASSUME NEW s \in Seq(Byte), NEW p \in Nat, NEW v \in BOOLEAN
  PROVE  Comes(Wrote(Written(WriteBool(v))), TRUE, s, p, ReadBool(s, p), v)
<1>1. Written(WriteBool(v)) \in Seq(Byte)
  <2> DEFINE x == IF v THEN True ELSE False
  <2>1. MajOther \in Majors /\ x \in Arguments
    BY CodecSizes
  <2>2. Written(WriteBool(v)) = WriteMajorTypeHeader(MajOther, x)
    BY DEF Written, WriteBool
  <2>3. QED BY <2>1, <2>2, WriteType
<1>2. Holds(s, p, Written(WriteBool(v))) => ReadBool(s, p) = Good(v, Len(Written(WriteBool(v))))
  BY BoolBack
<1>3. QED BY <1>1, <1>2, WrittenComes

-----------------------------------------------------------------------------

\* A CID with its tag and its prefix.
LEMMA Joined ==
  ASSUME NEW a \in Seq(Byte), NEW b \in Seq(Byte), NEW c \in Seq(Byte)
  PROVE  (a \o b) \o c = a \o (b \o c)
BY ConcatAssociative

\* A CID is found out to be none after its tag.
LEMMA CidBytes ==
  ASSUME NEW c \in Seq(Byte), Len(c) < MaxCid
  PROVE  /\ MajTag \in Majors /\ LinkTag \in Arguments /\ MajByteString \in Majors
         /\ Len(c) \in Nat /\ Len(c) + 1 \in Arguments /\ Len(c) + 1 <= MaxCid
         /\ << 0 >> \o c \in Seq(Byte) /\ Len(<< 0 >> \o c) = Len(c) + 1
         /\ (<< 0 >> \o c)[1] = 0 /\ Tail(<< 0 >> \o c) = c
<1>1. /\ MajTag \in Majors /\ LinkTag \in Arguments /\ MajByteString \in Majors
      /\ MaxCid \in Arguments /\ Arguments \subseteq Nat
  BY CodecSizes
<1>2. Len(c) \in Nat /\ MaxCid \in Nat
  BY <1>1, LenProperties
<1>3. Len(c) + 1 \in Nat /\ Len(c) + 1 <= MaxCid
  BY <1>2
<1>4. Len(c) + 1 \in Arguments
  BY <1>1, <1>2, <1>3, CodecSizes
<1>5. << 0 >> \in Seq(Byte) /\ Len(<< 0 >>) = 1 /\ << 0 >>[1] = 0
  <2>1. 0 \in Byte
    <3>1. MajUnsignedInt \in Majors /\ 0 \in 0 .. (LowRange - 1)
      BY CodecSizes, Sizes
    <3>2. FirstByte(MajUnsignedInt, 0) = 0
      BY Sizes DEF FirstByte, MajUnsignedInt
    <3>3. QED BY <3>1, <3>2, FirstByteType
  <2>2. QED BY <2>1
<1> DEFINE d == << 0 >> \o c
<1>6. d \in Seq(Byte) /\ Len(d) = 1 + Len(c) /\ \A h \in 1 .. (1 + Len(c)) : d[h] = IF h <= 1 THEN << 0 >>[h] ELSE c[h - 1]
  BY <1>5, ConcatProperties
<1> HIDE DEF d
<1>7. d[1] = 0 /\ \A h \in 1 .. Len(c) : d[h + 1] = c[h]
  <2>1. 1 \in 1 .. (1 + Len(c))
    BY <1>2
  <2>2. d[1] = 0
    BY <1>5, <1>6, <2>1
  <2>3. ASSUME NEW h \in 1 .. Len(c) PROVE d[h + 1] = c[h]
    <3>1. h + 1 \in 1 .. (1 + Len(c)) /\ ~(h + 1 <= 1) /\ (h + 1) - 1 = h
      BY <1>2
    <3>2. QED BY <1>6, <3>1
  <2>4. QED BY <2>2, <2>3
<1>8. Tail(d) = c
  <2>1. d # << >>
    BY <1>2, <1>6
  <2>2. Tail(d) \in Seq(Byte) /\ Len(Tail(d)) = Len(d) - 1 /\ \A h \in 1 .. Len(Tail(d)) : Tail(d)[h] = d[h + 1]
    BY <1>6, <2>1, HeadTailProperties
  <2>3. Len(Tail(d)) = Len(c)
    BY <1>2, <1>6, <2>2
  <2>4. QED BY <1>7, <2>2, <2>3, SeqEqual
<1>9. Len(d) = Len(c) + 1
  BY <1>2, <1>6
<1>10. QED BY <1>1, <1>2, <1>3, <1>4, <1>6, <1>7, <1>8, <1>9 DEF d

LEMMA CidComes ==
  ASSUME NEW s \in Seq(Byte), NEW p \in Nat, NEW c, IsCidValue(c)
  PROVE  /\ Comes(WriteCid(c), TRUE, s, p, ReadCid(s, p), c)
         /\ Holds(s, p, WriteCid(c).bytes) => p < Len(s) /\ s[p + 1] # CborNull
<1> DEFINE tag == WriteMajorTypeHeader(MajTag, LinkTag)
           h  == Len(tag)
           hd == CborReadHeaderBuf(s, p)
           in == ReadByteArray(s, p + h)
           r  == ReadCid(s, p)
<1>1. MajTag \in Majors /\ LinkTag \in Arguments /\ MajTag # MajOther /\ Len(s) \in Nat
  BY CodecSizes, LenProperties DEF MajTag, MajOther
<1>2. tag \in Seq(Byte) /\ h \in Nat \ {0}
  BY <1>1, WriteType
<1>3. ASSUME Holds(s, p, tag)
      PROVE  /\ hd.ok /\ hd.maj = MajTag /\ hd.extra = LinkTag /\ hd.n = h
             /\ p < Len(s) /\ s[p + 1] # CborNull
             /\ r = bufToCid(Plus(h, in))
  <2>1. hd.ok /\ hd.maj = MajTag /\ hd.extra = LinkTag /\ hd.n = h
    BY <1>1, <1>3, HeaderComesBack DEF Header
  <2>2. p < Len(s) /\ s[p + 1] # CborNull
    BY <1>1, <2>1, NotNull
  <2> HIDE DEF h
  <2>3. r = bufToCid(Plus(hd.n, ReadByteArray(s, p + hd.n)))
    BY <2>1 DEF ReadCid, Headed, After
  <2>4. QED BY <2>1, <2>2, <2>3
<1>4. CASE c = << >>
  <2>1. WriteCid(c) = Refused(tag)
    BY <1>4 DEF WriteCid
  <2>2. ASSUME Holds(s, p, tag), p + h = Len(s) PROVE ~r.ok
    <3>1. ~CborReadHeaderBuf(s, p + h).ok
      BY <1>1, <1>2, <2>2, NoneAtTheEnd
    <3>2. ~in.ok
      BY <3>1 DEF ReadByteArray, Headed, After, Bad
    <3>3. r = bufToCid(Plus(h, in))
      BY <1>3, <2>2
    <3> HIDE DEF in, h
    <3>4. ~Plus(h, in).ok
      BY <3>2 DEF Plus, Bad
    <3>5. QED BY <3>3, <3>4 DEF bufToCid, Bad
  <2> HIDE DEF tag, r
  <2>3. Comes(Refused(tag), TRUE, s, p, r, c)
    BY <1>2, <2>2 DEF Comes, Refused
  <2>4. Holds(s, p, tag) => p < Len(s) /\ s[p + 1] # CborNull
    BY <1>3
  <2>5. WriteCid(c).bytes = tag
    BY <2>1 DEF Refused
  <2>6. QED BY <2>1, <2>3, <2>4, <2>5 DEF r
<1>5. CASE c # << >>
  <2> DEFINE d == << 0 >> \o c
             m == Len(c) + 1
             hb == WriteMajorTypeHeader(MajByteString, m)
             body == hb \o d
             b == tag \o body
  <2>1. c \in Seq(Byte) /\ IsCid(c) /\ Len(c) < MaxCid
    BY <1>5 DEF IsCidValue
  <2>2. /\ MajByteString \in Majors /\ Len(c) \in Nat /\ m \in Arguments /\ m <= MaxCid
        /\ d \in Seq(Byte) /\ Len(d) = m /\ d[1] = 0 /\ Tail(d) = c
    BY <2>1, CidBytes
  <2>3. hb \in Seq(Byte) /\ Len(hb) \in Nat
    BY <2>2, WriteType
  <2>4. body \in Seq(Byte) /\ Len(body) = Len(hb) + m
    BY <2>2, SizedBytes
  <2>5. b \in Seq(Byte) /\ Len(b) = h + Len(body)
    BY <1>2, <2>4, ConcatProperties
  <2>6. WriteCid(c) = Wrote(b)
    <3>1. WriteCid(c) = Wrote(((tag \o hb) \o << 0 >>) \o c)
      BY <1>5 DEF WriteCid
    <3>2. << 0 >> \in Seq(Byte)
      <4>1. 0 \in Byte
        <5>1. 1 \in 1 .. Len(d)
          BY <2>2
        <5>2. QED BY <2>2, <5>1, ElementOfSeq
      <4>2. QED BY <4>1
    <3> DEFINE y == << 0 >>
    <3>3. y \in Seq(Byte)
      BY <3>2
    <3> HIDE DEF tag, hb, y
    <3>4. ((tag \o hb) \o y) \o c = (tag \o hb) \o (y \o c)
      <4>1. tag \o hb \in Seq(Byte)
        BY <1>2, <2>3, ConcatProperties
      <4>2. QED BY <2>1, <3>3, <4>1, Joined, Zenon
    <3>5. y \o c \in Seq(Byte)
      BY <2>1, <3>3, ConcatProperties
    <3>6. (tag \o hb) \o (y \o c) = tag \o (hb \o (y \o c))
      BY <1>2, <2>3, <3>5, Joined, Zenon
    <3>7. QED BY <3>1, <3>4, <3>6 DEF y
  <2>7. ASSUME Holds(s, p, b)
        PROVE  Holds(s, p, tag) /\ r = Good(c, Len(b))
    <3>1. Holds(s, p, tag) /\ Holds(s, p + h, body)
      BY <1>2, <2>4, <2>7, ConcatHeld
    <3>2. r = bufToCid(Plus(h, in))
      BY <1>3, <3>1
    <3> DEFINE hd2 == CborReadHeaderBuf(s, p + h)
               l   == Len(hb)
    <3>3. p + h \in Nat
      BY <1>2
    <3>4. /\ hd2.ok /\ hd2.maj = MajByteString /\ hd2.extra = m /\ hd2.n = l
          /\ Holds(s, (p + h) + l, d)
      <4>1. PICK x \in Nat : x = p + h
        BY <3>3
      <4>2. Holds(s, x, hb \o d)
        BY <3>1, <4>1
      <4> HIDE DEF d, m
      <4>3. LET hd3 == CborReadHeaderBuf(s, x) IN
              /\ hd3.ok /\ hd3.maj = MajByteString /\ hd3.extra = m /\ hd3.n = l
              /\ Holds(s, x + l, d)
        BY <2>2, <4>2, SizedBack
      <4>4. QED BY <4>1, <4>3
    <3>5. (p + h) + l \in Nat
      BY <2>3, <3>3
    <3>6. ReadFull(s, (p + h) + l, m) = Good(d, m)
      <4>1. PICK x \in Nat : x = (p + h) + l
        BY <3>5
      <4>2. Holds(s, x, d)
        BY <3>4, <4>1
      <4> HIDE DEF d
      <4>3. ReadFull(s, x, Len(d)) = Good(d, Len(d))
        BY <2>2, <4>2, FullBack
      <4>4. QED BY <2>2, <4>1, <4>3
    <3> HIDE DEF h, l, m, d
    <3>7. in = Plus(hd2.n, ReadFull(s, (p + h) + hd2.n, hd2.extra))
      BY <2>2, <3>4 DEF ReadByteArray, Headed, After
    <3> HIDE DEF in, hd2
    <3>8. in = Good(d, l + m)
      <4>1. Plus(l, Good(d, m)) = Good(d, l + m)
        BY DEF Plus, Good
      <4>2. QED BY <3>4, <3>6, <3>7, <4>1
    <3>9. Plus(h, in) = Good(d, h + (l + m))
      BY <3>8 DEF Plus, Good
    <3>10. Len(d) >= 2
      <4>1. Len(c) # 0
        BY <1>5, <2>1, EmptySeq
      <4>2. PICK n \in Nat : n = Len(c)
        BY <2>2
      <4>3. n # 0 /\ Len(d) = n + 1
        BY <2>2, <4>1, <4>2 DEF m
      <4>4. QED BY <4>3
    <3>11. bufToCid(Good(d, h + (l + m))) = Good(c, h + (l + m))
      <4>1. Good(d, h + (l + m)).ok /\ Good(d, h + (l + m)).v = d /\ Good(d, h + (l + m)).n = h + (l + m)
        BY DEF Good
      <4>2. QED BY <2>1, <2>2, <3>10, <4>1 DEF bufToCid
    <3>12. Len(b) = h + (l + m)
      BY <2>4, <2>5 DEF l
    <3>13. QED BY <3>1, <3>2, <3>9, <3>11, <3>12
  <2> HIDE DEF b, r, tag
  <2>8. Comes(Wrote(b), TRUE, s, p, r, c)
    BY <2>5, <2>7, WrittenComes
  <2>9. Holds(s, p, b) => p < Len(s) /\ s[p + 1] # CborNull
    BY <1>3, <2>7
  <2>10. WriteCid(c).bytes = b
    BY <2>6 DEF Wrote
  <2>11. QED BY <2>6, <2>8, <2>9, <2>10 DEF r
<1>6. QED BY <1>4, <1>5

LEMMA CborCidComes ==
  ASSUME NEW s \in Seq(Byte), NEW p \in Nat, NEW c, IsCidValue(c)
  PROVE  Comes(WriteCborCid(c), TRUE, s, p, ReadCborCid(s, p), c)
<1> DEFINE r == ReadCid(s, p)
           r2 == ReadCborCid(s, p)
           w == WriteCid(c)
<1>1. Comes(w, TRUE, s, p, r, c)
  BY CidComes
<1>2. r2 = IF r.ok THEN r ELSE Bad(0)
  BY DEF ReadCborCid, Uncounted
<1> HIDE DEF r, r2, w
<1>3. r = Good(c, Len(w.bytes)) => r.ok
  BY DEF Good
<1>4. ~r.ok => ~r2.ok
  BY <1>2 DEF Bad
<1>5. Comes(w, TRUE, s, p, r2, c)
  BY <1>1, <1>2, <1>3, <1>4 DEF Comes
<1>6. QED BY <1>5 DEF w, r2, WriteCborCid

-----------------------------------------------------------------------------

\* What a Deferred holds is an item wherever it is written, and null is one.
LEMMA NoItem ==
  ASSUME NEW s \in Seq(Byte), NEW p \in 0 .. Len(s), ~CborReadHeaderBuf(s, p).ok
  PROVE  ~ItemAt(s, p).ok
<1> DEFINE F  == ItemsIn(BoundedHeads(s))
           hs == BoundedHeads(s)
<1>1. Len(s) \in Nat
  BY LenProperties
<1>2. Counts(F, hs, Len(s))
  BY <1>1, HeadsOfItems, CountsAsNested
<1>3. hs[p] = BoundedHead(s, p)
  BY DEF BoundedHeads
<1>4. ~BoundedHead(s, p).ok
  BY GoodHeadIs
<1>5. F[p][1] = Stops(hs[p].end, hs[p].links)
  <2>1. 1 \in Nat \ {0}
    OBVIOUS
  <2> HIDE DEF F, hs
  <2>2. QED BY <1>2, <1>3, <1>4, <2>1 DEF Counts
<1>6. QED BY <1>5 DEF ItemAt, Stops

LEMMA NullIsItem ==
  ItemAt(<< CborNull >>, 0) = Ends(1, << >>)
<1> DEFINE s  == << CborNull >>
           F  == ItemsIn(BoundedHeads(s))
           hs == BoundedHeads(s)
           hd == CborReadHeaderBuf(s, 0)
<1>1. s \in Seq(Byte) /\ Len(s) = 1 /\ s[0 + 1] = CborNull
  BY NullHeld
<1> HIDE DEF s
<1>2. hd = Header(MajOther, Nil, 1)
  BY <1>1, NullHeader
<1>3. hd.ok /\ hd.maj = MajOther /\ hd.extra = Nil /\ hd.n = 1
  BY <1>2 DEF Header
<1>4. /\ ~TooLong(MajOther, Nil) /\ Payload(MajOther, Nil) = 0 /\ Nested(MajOther, Nil) = 0
  BY DEF TooLong, Payload, Nested, IsString, IsContainer, MajOther, MajByteString, MajTextString, MajArray, MajMap, MajTag
<1>5. ItemHead(s, 0) = GoodHead(1, 0, << >>)
  <2>1. 0 \in 0 .. Len(s) /\ (0 + 1) + 0 = 1 /\ (0 + 1) + 0 <= Len(s)
    BY <1>1
  <2> HIDE DEF hd
  <2>2. hd.ok /\ (0 + hd.n) + Payload(hd.maj, hd.extra) = 1 /\ (0 + hd.n) + Payload(hd.maj, hd.extra) <= Len(s)
    BY <1>3, <1>4, <2>1
  <2>3. ItemHead(s, 0) = GoodHead((0 + hd.n) + Payload(hd.maj, hd.extra), Nested(hd.maj, hd.extra), << >>)
    BY <1>1, <2>1, <2>2, ItemHeadIs DEF hd
  <2>4. QED BY <1>3, <1>4, <2>2, <2>3
<1>6. BoundedHead(s, 0) = GoodHead(1, 0, << >>)
  BY <1>3, <1>4, <1>5 DEF BoundedHead
<1>7. hs[0].ok /\ hs[0].end = 1 /\ hs[0].nested = 0 /\ hs[0].links = << >>
  <2>1. hs[0] = BoundedHead(s, 0)
    BY <1>1 DEF BoundedHeads
  <2>2. QED BY <1>6, <2>1 DEF GoodHead
<1>8. Counts(F, hs, 1)
  BY <1>1, HeadsOfItems, CountsAsNested
<1> HIDE DEF hs, F
<1>9. F[1][0] = Ends(1, << >>)
  BY <1>8 DEF Counts
<1>10. F[0][1] = Behind(<< >>, F[1][0])
  <2>1. 1 \in Nat \ {0} /\ 0 \in 0 .. 1 /\ 0 + (1 - 1) = 0
    OBVIOUS
  <2>2. F[0][1] = Behind(hs[0].links, F[hs[0].end][hs[0].nested + (1 - 1)])
    BY <1>7, <1>8, <2>1 DEF Counts
  <2>3. QED BY <1>7, <2>1, <2>2
<1>11. F[0][1] = Ends(1, << >>)
  BY <1>9, <1>10 DEF Behind, Ends
<1>12. QED BY <1>11 DEF F, s, ItemAt

LEMMA DeferredBack ==
  ASSUME NEW s \in Seq(Byte), NEW p \in Nat, NEW raw \in Seq(Byte), ItemAt(raw, 0) = Ends(Len(raw), << >>),
         Holds(s, p, raw)
  PROVE  ReadDeferred(s, p) = Good(raw, Len(raw))
<1> DEFINE n == Len(raw)
<1>1. n \in Nat /\ 0 <= n /\ Len(s) \in Nat
  BY LenProperties
<1>2. ReadDeferred(raw, 0) = Good(raw, n)
  <2>1. ReadDeferred(raw, 0) = Good(SubSeq(raw, 0 + 1, n), n - 0)
    BY DEF ReadDeferred, RawOf, Ends
  <2>2. SubSeq(raw, 1, n) = raw
    BY SubSeqFull
  <2>3. n - 0 = n /\ 0 + 1 = 1
    BY <1>1
  <2>4. QED BY <2>1, <2>2, <2>3
<1>3. Agree(raw, 0, s, p, n)
  <2>1. p + n <= Len(s) /\ \A c \in 1 .. n : s[p + c] = raw[c]
    BY DEF Holds
  <2>2. 0 + n <= n /\ \A c \in 1 .. n : 0 + c = c
    BY <1>1
  <2>3. QED BY <2>1, <2>2 DEF Agree
<1>4. p <= Len(s)
  <2>1. PICK m \in Nat : m = n
    BY <1>1
  <2>2. p + m <= Len(s)
    BY <2>1 DEF Holds
  <2>3. QED BY <1>1, <2>2
<1> HIDE DEF n
<1>5. Local(ReadDeferred(raw, 0), raw, 0, ReadDeferred(s, p), s, p)
  BY <1>1, <1>4, DeferredLocal DEF n
<1>6. SameWithin(ReadDeferred(raw, 0), ReadDeferred(s, p), n)
  BY <1>1, <1>3, <1>5 DEF Local
<1>7. ReadDeferred(raw, 0).ok /\ ReadDeferred(raw, 0).n <= n
  BY <1>1, <1>2 DEF Good
<1>8. QED BY <1>2, <1>6, <1>7 DEF SameWithin, n

LEMMA RawComes ==
  ASSUME NEW s \in Seq(Byte), NEW p \in Nat, NEW raw, IsRaw(raw)
  PROVE  Comes(WriteRaw(raw), TRUE, s, p, ReadDeferred(s, p), raw)
<1>0. Len(s) \in Nat
  BY LenProperties
<1>1. CASE raw = << >>
  <2>1. WriteRaw(raw) = Refused(<< >>)
    BY <1>1 DEF WriteRaw
  <2>2. ASSUME p + 0 = Len(s) PROVE ~ReadDeferred(s, p).ok
    <3>1. p \in 0 .. Len(s) /\ Len(s) <= p
      BY <1>0, <2>2
    <3>2. ~ItemAt(s, p).ok
      BY <3>1, NoneAtTheEnd, NoItem
    <3>3. QED BY <3>2 DEF ReadDeferred, RawOf, Bad
  <2>3. << >> \in Seq(Byte) /\ Len(<< >>) = 0
    BY EmptySeq
  <2>4. Comes(Refused(<< >>), TRUE, s, p, ReadDeferred(s, p), raw)
    BY <2>2, <2>3 DEF Comes, Refused
  <2>5. QED BY <2>1, <2>4
<1>2. CASE raw # << >>
  <2>1. raw \in Seq(Byte) /\ ItemAt(raw, 0) = Ends(Len(raw), << >>)
    BY <1>2 DEF IsRaw
  <2>2. WriteRaw(raw) = Wrote(raw)
    BY <1>2 DEF WriteRaw
  <2>3. Holds(s, p, raw) => ReadDeferred(s, p) = Good(raw, Len(raw))
    BY <2>1, DeferredBack
  <2>4. Comes(Wrote(raw), TRUE, s, p, ReadDeferred(s, p), raw)
    BY <2>1, <2>3, WrittenComes
  <2>5. QED BY <2>2, <2>4
<1>3. QED BY <1>1, <1>2

-----------------------------------------------------------------------------

\* A header that says how many elements there are, and the elements.
LEMMA ChainComes ==
  ASSUME NEW s \in Seq(Byte), NEW p \in Nat, NEW maj \in Majors, NEW n \in Arguments, NEW ws, Len(ws) = n,
         NEW w, w = All(WriteMajorTypeHeader(maj, n), ws),
         NEW read, NEW goods, NEW vs, AllCome(ws, goods, s, read, vs, n),
         NEW good, good <=> \A j \in 1 .. n : goods[j],
         NEW r, ~CborReadHeaderBuf(s, p).ok => ~r.ok,
         LET hd == CborReadHeaderBuf(s, p) IN
           hd.ok /\ hd.maj = maj /\ hd.extra = n => r = Plus(hd.n, Elements(p + hd.n, n, read))
  PROVE  Comes(w, good, s, p, r, [j \in 1 .. n |-> vs[j]])
<1> DEFINE head == WriteMajorTypeHeader(maj, n)
           h  == Len(head)
           hd == CborReadHeaderBuf(s, p)
           els == Elements(p + h, n, read)
           all == [j \in 1 .. n |-> vs[j]]
<1>1. n \in Nat /\ head \in Seq(Byte) /\ h \in Nat \ {0} /\ Len(s) \in Nat
  BY CodecSizes, WriteType, LenProperties
<1>2. \A j \in 1 .. n : ws[j].bytes \in Seq(Byte) /\ ws[j].ok \in BOOLEAN
  <2>1. 0 \in 0 .. Len(s)
    BY <1>1
  <2>2. QED BY <2>1 DEF AllCome, Comes
<1> HIDE DEF head
<1>3. Chain(w, head, ws, n)
  <2>1. Chain(All(head, ws), head, ws, n)
    BY <1>1, <1>2, AllChain
  <2>2. QED BY <2>1 DEF head
<1>4. w.bytes \in Seq(Byte) /\ w.ok \in BOOLEAN
  BY <1>3 DEF Chain
<1>5. ASSUME Holds(s, p, w.bytes) PROVE Holds(s, p, head)
  <2>1. \E e, at : Laid(w.bytes, head, ws, e, at)
    BY <1>3 DEF Chain, ChainTo
  <2>2. QED BY <1>5, <2>1 DEF Laid
<1>6. ASSUME Holds(s, p, w.bytes) PROVE r = Plus(h, els)
  <2>1. Holds(s, p, head)
    BY <1>5, <1>6
  <2>2. hd = Header(maj, n, h)
    BY <2>1, HeaderComesBack DEF head
  <2>3. hd.ok /\ hd.maj = maj /\ hd.extra = n /\ hd.n = h
    BY <2>2 DEF Header
  <2> HIDE DEF h
  <2>4. r = Plus(hd.n, Elements(p + hd.n, n, read))
    BY <2>3
  <2>5. QED BY <2>3, <2>4
<1>7. ASSUME Holds(s, p, w.bytes), w.ok, good PROVE r = Good(all, Len(w.bytes))
  <2>1. PICK d \in Nat : Len(w.bytes) = h + d /\ els = Good(all, d)
    <3>1. w.ok \/ p + Len(w.bytes) = Len(s)
      BY <1>7
    <3>2. PICK x : x = els
      OBVIOUS
    <3>3. x = Elements(p + Len(head), n, read)
      BY <3>2
    <3>4. ReadsAll(w, head, goods, vs, n, x)
      BY <1>1, <1>3, <1>7, <3>1, <3>3, ChainRead, Zenon
    <3>5. PICK d \in Nat : Len(w.bytes) = Len(head) + d /\ x = Good(all, d)
      BY <1>7, <3>4 DEF ReadsAll
    <3>6. QED BY <3>2, <3>5
  <2>2. r = Plus(h, els)
    BY <1>6, <1>7
  <2> HIDE DEF h, els, all
  <2>3. QED BY <2>1, <2>2 DEF Plus, Good
<1>8. ASSUME Holds(s, p, w.bytes), (w.ok /\ ~good) \/ (~w.ok /\ p + Len(w.bytes) = Len(s))
      PROVE  ~r.ok
  <2>1. ~els.ok
    <3>1. w.ok \/ p + Len(w.bytes) = Len(s)
      BY <1>8
    <3>2. PICK x : x = els
      OBVIOUS
    <3>3. x = Elements(p + Len(head), n, read)
      BY <3>2
    <3>4. ReadsAll(w, head, goods, vs, n, x)
      BY <1>1, <1>3, <1>8, <3>1, <3>3, ChainRead, Zenon
    <3>5. ~x.ok
      BY <1>8, <3>4 DEF ReadsAll
    <3>6. QED BY <3>2, <3>5
  <2>2. r = Plus(h, els)
    BY <1>6, <1>8
  <2> HIDE DEF h, els
  <2>3. QED BY <2>1, <2>2 DEF Plus, Bad
<1> HIDE DEF all
<1>9. Comes(w, good, s, p, r, all)
  BY <1>4, <1>7, <1>8, Zenon DEF Comes
<1>10. QED BY <1>9 DEF all

LEMMA NoElements ==
  ASSUME NEW p, NEW read
  PROVE  Elements(p, 0, read) = Good(<< >>, 0)
<1>1. PICK k \in Nat : k = 0
  OBVIOUS
<1>2. PICK got : Got(p, k, read, got) /\ Elements(p, k, read) = got[k]
  BY GotIs
<1>3. QED BY <1>1, <1>2 DEF Got

LEMMA ElementsCome ==
  ASSUME NEW s \in Seq(Byte), NEW p \in Nat, NEW n \in Nat, NEW ws, Len(ws) = n,
         NEW read, NEW goods, NEW vs, AllCome(ws, goods, s, read, vs, n),
         NEW good, good <=> \A j \in 1 .. n : goods[j],
         vs = [j \in 1 .. n |-> vs[j]]
  PROVE  Comes(WriteElements(ws), good, s, p, ReadElements(s, p, << >>, read), vs)
<1> DEFINE r == ReadElements(s, p, << >>, read)
           all == [j \in 1 .. n |-> vs[j]]
<1>1. MaxLength \in Nat /\ MaxLength \in Arguments /\ MajArray \in Majors
  BY CodecSizes
<1>2. ~CborReadHeaderBuf(s, p).ok => ~r.ok
  BY DEF ReadElements, Headed, After, Bad
<1>3. CASE n > MaxLength
  <2>1. WriteElements(ws) = Refused(<< >>)
    BY <1>3 DEF WriteElements
  <2>2. QED BY <1>2, <2>1, NoneComes
<1>4. CASE ~(n > MaxLength)
  <2>1. n \in Arguments /\ n <= MaxLength
    BY <1>1, <1>4, CodecSizes
  <2> DEFINE w == All(WriteMajorTypeHeader(MajArray, n), ws)
             hd == CborReadHeaderBuf(s, p)
  <2>2. WriteElements(ws) = w
    BY <1>4 DEF WriteElements
  <2>3. ASSUME hd.ok, hd.maj = MajArray, hd.extra = n
        PROVE  r = Plus(hd.n, Elements(p + hd.n, n, read))
    <3>1. r = Plus(hd.n, IF hd.extra = 0 THEN Good(<< >>, 0) ELSE Elements(p + hd.n, hd.extra, read))
      BY <2>1, <2>3 DEF ReadElements, Headed, After
    <3>2. CASE n = 0
      <4> HIDE DEF hd
      <4>5. Elements(p + hd.n, 0, read) = Good(<< >>, 0)
        BY NoElements
      <4>6. QED BY <2>3, <3>1, <3>2, <4>5 DEF hd
    <3>3. CASE n # 0
      BY <2>3, <3>1, <3>3
    <3>4. QED BY <3>2, <3>3
  <2> HIDE DEF r, w, all
  <2>4. Comes(w, good, s, p, r, all)
    BY <1>1, <1>2, <2>1, <2>3, ChainComes DEF w, all
  <2>5. all = vs
    BY Zenon DEF all
  <2>6. QED BY <2>2, <2>4, <2>5 DEF r
<1>5. QED BY <1>3, <1>4

LEMMA ArrayComes ==
  ASSUME NEW s \in Seq(Byte), NEW p \in Nat, NEW n \in Nat, NEW v \in [1 .. n -> Arguments],
         NEW ws, ws = [j \in DOMAIN v |-> Wrote(Written(WriteUint(v[j])))]
  PROVE  Comes(WriteElements(ws), TRUE, s, p, ReadArray(s, p, n), v)
<1> DEFINE r == ReadArray(s, p, n)
           read == [q \in 0 .. Len(s) |-> ReadUint64(s, q)]
           goods == [j \in 1 .. n |-> TRUE]
           all == [j \in 1 .. n |-> v[j]]
<1>1. MaxLength \in Nat /\ MaxLength \in Arguments /\ MajArray \in Majors
  BY CodecSizes
<1>2. ~CborReadHeaderBuf(s, p).ok => ~r.ok
  BY DEF ReadArray, Headed, After, Bad
<1>3. DOMAIN v = 1 .. n /\ all = v
  OBVIOUS
<1>4. ws = [j \in 1 .. n |-> Wrote(Written(WriteUint(v[j])))] /\ Len(ws) = n
  BY <1>3
<1>5. CASE n > MaxLength
  <2>1. WriteElements(ws) = Refused(<< >>)
    BY <1>4, <1>5 DEF WriteElements
  <2>2. QED BY <1>2, <2>1, NoneComes
<1>6. CASE ~(n > MaxLength)
  <2>1. n \in Arguments /\ n <= MaxLength
    BY <1>1, <1>6, CodecSizes
  <2> DEFINE w == All(WriteMajorTypeHeader(MajArray, n), ws)
             hd == CborReadHeaderBuf(s, p)
  <2>2. WriteElements(ws) = w
    BY <1>4, <1>6 DEF WriteElements
  <2>3. ASSUME hd.ok, hd.maj = MajArray, hd.extra = n
        PROVE  r = Plus(hd.n, Elements(p + hd.n, n, read))
    BY <2>1, <2>3 DEF ReadArray, Headed, After
  <2>4. AllCome(ws, goods, s, read, v, n)
    <3>1. SUFFICES ASSUME NEW j \in 1 .. n, NEW a \in 0 .. Len(s)
                   PROVE  Comes(ws[j], TRUE, s, a, ReadUint64(s, a), v[j])
      BY DEF AllCome
    <3>2. ws[j] = Wrote(Written(WriteUint(v[j]))) /\ v[j] \in Arguments
      BY <1>4
    <3>3. a \in Nat
      OBVIOUS
    <3>4. QED BY <3>2, <3>3, UintComes
  <2>5. TRUE <=> \A j \in 1 .. n : goods[j]
    OBVIOUS
  <2> HIDE DEF r, w, read, goods
  <2>6. Comes(w, TRUE, s, p, r, all)
    <3>1. PICK g \in BOOLEAN : g = TRUE
      OBVIOUS
    <3>2. g <=> \A j \in 1 .. n : goods[j]
      BY <2>5, <3>1
    <3>3. Comes(w, g, s, p, r, all)
      BY <1>1, <1>2, <1>4, <2>1, <2>3, <2>4, <3>2, ChainComes DEF w
    <3>4. QED BY <3>1, <3>3
  <2>7. QED BY <1>3, <2>2, <2>6 DEF r
<1>7. QED BY <1>5, <1>6

-----------------------------------------------------------------------------

\* What a slice of kind f.kind may hold.
IsElement(f, e) ==
  CASE f.kind = "[]uint"    -> e \in 0 .. MaxUint(f.w)
    [] f.kind = "[]int"     -> e \in Ints(f.w)
    [] f.kind = "[]bytes"   -> e \in Seq(Byte)
    [] f.kind = "[]struct"  -> e \in Ints(Word)
    [] f.kind = "[]*struct" -> IsPointer(Ints(Word), e)
    [] f.kind = "[][]uint"  -> e \in Seq(0 .. MaxUint(f.w))

LEMMA NarrowedComes ==
  ASSUME NEW s \in Seq(Byte), NEW p \in Nat, NEW w \in 1 .. Word, NEW v \in 0 .. MaxUint(w)
  PROVE  Comes(Wrote(Written(WriteUint(v))), TRUE, s, p, ReadNarrowed(s, p, w), v)
<1>1. v \in Arguments /\ UintOf(v, w) = v
  BY UintFits
<1>2. Comes(Wrote(Written(WriteUint(v))), TRUE, s, p, ReadNarrowed(s, p, w), UintOf(v, w))
  BY <1>1, UintComes
<1>3. QED BY <1>1, <1>2

LEMMA NumbersCome ==
  ASSUME NEW s \in Seq(Byte), NEW p \in Nat, NEW w \in 1 .. Word, NEW e \in Seq(0 .. MaxUint(w)),
         NEW ws, Len(ws) = Len(e), \A j \in 1 .. Len(e) : ws[j] = Wrote(Written(WriteUint(e[j]))),
         NEW read, \A a \in 0 .. Len(s) : read[a] = ReadNarrowed(s, a, w)
  PROVE  Comes(WriteElements(ws), TRUE, s, p, ReadElements(s, p, << >>, read), e)
<1>1. PICK n \in Nat : n = Len(e)
  BY LenProperties
<1>2. DOMAIN e = 1 .. n /\ e = [j \in 1 .. n |-> e[j]] /\ \A j \in 1 .. n : e[j] \in 0 .. MaxUint(w)
  BY <1>1, LenProperties, ElementOfSeq
<1>3. Len(ws) = n
  BY <1>1
<1> DEFINE goods == [j \in 1 .. n |-> TRUE]
<1>4. AllCome(ws, goods, s, read, e, n)
  <2>1. SUFFICES ASSUME NEW j \in 1 .. n, NEW a \in 0 .. Len(s)
                 PROVE  Comes(ws[j], goods[j], s, a, read[a], e[j])
    BY DEF AllCome
  <2>2. a \in Nat /\ e[j] \in 0 .. MaxUint(w)
    BY <1>2
  <2>3. ws[j] = Wrote(Written(WriteUint(e[j]))) /\ goods[j] = TRUE /\ read[a] = ReadNarrowed(s, a, w)
    BY <1>1
  <2>4. Comes(Wrote(Written(WriteUint(e[j]))), TRUE, s, a, ReadNarrowed(s, a, w), e[j])
    BY <2>2, NarrowedComes, Zenon
  <2>5. QED BY <2>3, <2>4
<1>5. PICK good \in BOOLEAN : good = TRUE
  OBVIOUS
<1>6. good <=> \A j \in 1 .. n : goods[j]
  BY <1>5
<1>9. e = [j \in 1 .. n |-> e[j]]
  BY <1>2
<1> HIDE DEF goods
<1>7. Comes(WriteElements(ws), good, s, p, ReadElements(s, p, << >>, read), e)
  BY <1>9, <1>3, <1>4, <1>6, ElementsCome, Zenon
<1>8. QED BY <1>5, <1>7

LEMMA NewStructComes ==
  ASSUME NEW s \in Seq(Byte), NEW p \in Nat, NEW e, IsPointer(Ints(Word), e),
         NEW r, ReadStruct(s, p).ok => r = Good(<< ReadStruct(s, p).v >>, ReadStruct(s, p).n),
         ~ReadStruct(s, p).ok => ~r.ok
  PROVE  Comes(WriteStructPointer(e), e # << >>, s, p, r, e)
<1>3. CASE e = << >>
  <2>1. WriteStructPointer(e) = Wrote(<< CborNull >>)
    BY <1>3 DEF WriteStructPointer
  <2>2. Comes(Wrote(<< CborNull >>), FALSE, s, p, ReadStruct(s, p), e)
    BY NullComes
  <2>3. Comes(Wrote(<< CborNull >>), FALSE, s, p, r, e)
    BY <2>2 DEF Comes, Wrote
  <2>4. QED BY <1>3, <2>1, <2>3
<1>4. CASE e # << >>
  <2>1. PICK x \in Ints(Word) : e = << x >> /\ e[1] = x
    BY <1>4, PointerIs
  <2>2. Comes(WriteStruct(x), TRUE, s, p, ReadStruct(s, p), x)
    BY StructComes
  <2>3. WriteStructPointer(e) = WriteStruct(x)
    BY <1>4, <2>1 DEF WriteStructPointer
  <2>4. Comes(WriteStruct(x), TRUE, s, p, r, << x >>)
    <3>1. \A l : ReadStruct(s, p) = Good(x, l) => r = Good(<< x >>, l)
      BY DEF Good
    <3>2. QED BY <2>2, <3>1 DEF Comes
  <2>5. (e # << >>) = TRUE
    BY <1>4
  <2>6. QED BY <2>1, <2>3, <2>4, <2>5
<1>5. QED BY <1>3, <1>4

LEMMA ElementComes ==
  ASSUME NEW f, f.kind \in Slices, f.kind \in Numbered => f.w \in 1 .. Word, NEW e, IsElement(f, e),
         NEW s \in Seq(Byte), NEW p \in Nat
  PROVE  Comes(WriteElement(f, e), f.kind = "[]*struct" => e # << >>, s, p, ReadElement(f, s, p), e)
<1> DEFINE good == f.kind = "[]*struct" => e # << >>
<1>1. f.kind # "[]*struct" => good = TRUE
  OBVIOUS
<1>2. CASE f.kind = "[]uint"
  <2>1. f.w \in 1 .. Word /\ e \in 0 .. MaxUint(f.w)
    BY <1>2 DEF IsElement, Numbered
  <2>2. WriteElement(f, e) = Wrote(Written(WriteUint(e))) /\ ReadElement(f, s, p) = ReadNarrowed(s, p, f.w)
    BY <1>2 DEF WriteElement, ReadElement
  <2>3. Comes(Wrote(Written(WriteUint(e))), TRUE, s, p, ReadNarrowed(s, p, f.w), e)
    BY <2>1, NarrowedComes, Zenon
  <2>4. QED BY <1>1, <1>2, <2>2, <2>3
<1>3. CASE f.kind = "[]int"
  <2>1. f.w \in 1 .. Word /\ e \in Ints(f.w)
    BY <1>3 DEF IsElement, Numbered
  <2>2. WriteElement(f, e) = Wrote(Written(WriteInt(e, f.w))) /\ ReadElement(f, s, p) = ReadInt(s, p, f.w)
    BY <1>3 DEF WriteElement, ReadElement
  <2>3. Comes(Wrote(Written(WriteInt(e, f.w))), TRUE, s, p, ReadInt(s, p, f.w), e)
    BY <2>1, IntComes, Zenon
  <2>4. QED BY <1>1, <1>3, <2>2, <2>3
<1>4. CASE f.kind = "[]bytes"
  <2>1. e \in Seq(Byte)
    BY <1>4 DEF IsElement
  <2>2. WriteElement(f, e) = WriteBytes(e) /\ ReadElement(f, s, p) = ReadBytes(s, p, << >>)
    BY <1>4 DEF WriteElement, ReadElement
  <2>3. Comes(WriteBytes(e), TRUE, s, p, ReadBytes(s, p, << >>), e)
    BY <2>1, BytesComes
  <2>4. QED BY <1>1, <1>4, <2>2, <2>3
<1>5. CASE f.kind = "[]struct"
  <2>1. e \in Ints(Word)
    BY <1>5 DEF IsElement
  <2>2. WriteElement(f, e) = WriteStruct(e) /\ ReadElement(f, s, p) = ReadStruct(s, p)
    BY <1>5 DEF WriteElement, ReadElement
  <2>3. Comes(WriteStruct(e), TRUE, s, p, ReadStruct(s, p), e)
    BY <2>1, StructComes
  <2>4. QED BY <1>1, <1>5, <2>2, <2>3
<1>6. CASE f.kind = "[]*struct"
  <2>1. IsPointer(Ints(Word), e)
    BY <1>6 DEF IsElement
  <2>2. WriteElement(f, e) = WriteStructPointer(e)
    BY <1>6 DEF WriteElement
  <2>3. /\ ReadStruct(s, p).ok => ReadElement(f, s, p) = Good(<< ReadStruct(s, p).v >>, ReadStruct(s, p).n)
        /\ ~ReadStruct(s, p).ok => ~ReadElement(f, s, p).ok
    BY <1>6 DEF ReadElement, Mapped
  <2>4. Comes(WriteStructPointer(e), e # << >>, s, p, ReadElement(f, s, p), e)
    BY <2>1, <2>3, NewStructComes
  <2>5. good = (e # << >>)
    BY <1>6
  <2>6. QED BY <2>2, <2>4, <2>5
<1>7. CASE f.kind = "[][]uint"
  <2>1. f.w \in 1 .. Word /\ e \in Seq(0 .. MaxUint(f.w))
    BY <1>7 DEF IsElement, Numbered
  <2> DEFINE ws == [j \in DOMAIN e |-> Wrote(Written(WriteUint(e[j])))]
             read == [q \in 0 .. Len(s) |-> ReadNarrowed(s, q, f.w)]
  <2>2. WriteElement(f, e) = WriteElements(ws) /\ ReadElement(f, s, p) = ReadElements(s, p, << >>, read)
    BY <1>7 DEF WriteElement, ReadElement
  <2>3. /\ Len(ws) = Len(e) /\ \A j \in 1 .. Len(e) : ws[j] = Wrote(Written(WriteUint(e[j])))
        /\ \A a \in 0 .. Len(s) : read[a] = ReadNarrowed(s, a, f.w)
    <3>1. Len(e) \in Nat /\ DOMAIN e = 1 .. Len(e)
      BY <2>1, LenProperties
    <3>2. QED BY <3>1
  <2> HIDE DEF ws, read
  <2>5. Comes(WriteElements(ws), TRUE, s, p, ReadElements(s, p, << >>, read), e)
    BY <2>1, <2>3, NumbersCome, Zenon
  <2>4. QED BY <1>1, <1>7, <2>2, <2>5
<1>8. QED BY <1>2, <1>3, <1>4, <1>5, <1>6, <1>7 DEF Slices

LEMMA SliceElements ==
  ASSUME NEW f, f.kind \in Slices, NEW v, IsValue(f, v)
  PROVE  /\ Len(v) \in Nat /\ DOMAIN v = 1 .. Len(v) /\ v = [j \in 1 .. Len(v) |-> v[j]]
         /\ \A j \in 1 .. Len(v) : IsElement(f, v[j])
<1>1. ASSUME NEW V, v \in Seq(V)
      PROVE  /\ Len(v) \in Nat /\ DOMAIN v = 1 .. Len(v) /\ v = [j \in 1 .. Len(v) |-> v[j]]
             /\ \A j \in 1 .. Len(v) : v[j] \in V
  BY <1>1, LenProperties, ElementOfSeq
<1>2. CASE f.kind = "[]uint"
  BY <1>1, <1>2 DEF IsValue, IsElement, Slices
<1>3. CASE f.kind = "[]int"
  BY <1>1, <1>3 DEF IsValue, IsElement, Slices
<1>4. CASE f.kind = "[]bytes"
  BY <1>1, <1>4 DEF IsValue, IsElement, Slices
<1>5. CASE f.kind = "[]struct"
  BY <1>1, <1>5 DEF IsValue, IsElement, Slices
<1>6. CASE f.kind = "[]*struct"
  <2>1. v \in Seq(Seq(Ints(Word))) /\ \A j \in DOMAIN v : IsPointer(Ints(Word), v[j])
    BY <1>6 DEF IsValue
  <2>2. /\ Len(v) \in Nat /\ DOMAIN v = 1 .. Len(v) /\ v = [j \in 1 .. Len(v) |-> v[j]]
    BY <1>1, <2>1
  <2>3. QED BY <1>6, <2>1, <2>2 DEF IsElement
<1>7. CASE f.kind = "[][]uint"
  BY <1>1, <1>7 DEF IsValue, IsElement, Slices
<1>8. QED BY <1>2, <1>3, <1>4, <1>5, <1>6, <1>7 DEF Slices

LEMMA SliceComes ==
  ASSUME NEW f, f.kind \in Slices, f.kind \in Numbered => f.w \in 1 .. Word, NEW v, IsValue(f, v),
         NEW s \in Seq(Byte), NEW p \in Nat
  PROVE  Comes(WriteSlice(f, v), Readable(f, v), s, p, ReadSlice(f, s, p, << >>), v)
<1>1. PICK n \in Nat : n = Len(v)
  BY SliceElements
<1>2. DOMAIN v = 1 .. n /\ v = [j \in 1 .. n |-> v[j]] /\ \A j \in 1 .. n : IsElement(f, v[j])
  BY <1>1, SliceElements
<1> DEFINE ws == [j \in DOMAIN v |-> WriteElement(f, v[j])]
           read == [q \in 0 .. Len(s) |-> ReadElement(f, s, q)]
           goods == [j \in 1 .. n |-> f.kind = "[]*struct" => v[j] # << >>]
           good == \A j \in 1 .. n : goods[j]
<1>3. Len(ws) = n
  BY <1>2
<1>4. AllCome(ws, goods, s, read, v, n)
  <2>1. SUFFICES ASSUME NEW j \in 1 .. n, NEW a \in 0 .. Len(s)
                 PROVE  Comes(ws[j], goods[j], s, a, read[a], v[j])
    BY DEF AllCome
  <2>2. a \in Nat /\ IsElement(f, v[j])
    BY <1>2
  <2>3. /\ ws[j] = WriteElement(f, v[j]) /\ goods[j] = (f.kind = "[]*struct" => v[j] # << >>)
        /\ read[a] = ReadElement(f, s, a)
    BY <1>2
  <2>4. Comes(WriteElement(f, v[j]), f.kind = "[]*struct" => v[j] # << >>, s, a, ReadElement(f, s, a), v[j])
    BY <2>2, ElementComes, Zenon
  <2>5. QED BY <2>3, <2>4
<1>5. Readable(f, v) = good
  BY <1>2 DEF Readable
<1>6. good <=> \A j \in 1 .. n : goods[j]
  OBVIOUS
<1>7. WriteSlice(f, v) = WriteElements(ws) /\ ReadSlice(f, s, p, << >>) = ReadElements(s, p, << >>, read)
  BY DEF WriteSlice, ReadSlice
<1> HIDE DEF goods, good, ws, read
<1>8. Comes(WriteElements(ws), good, s, p, ReadElements(s, p, << >>, read), v)
  BY <1>2, <1>3, <1>4, <1>6, ElementsCome, Zenon
<1>9. QED BY <1>2, <1>5, <1>7, <1>8

-----------------------------------------------------------------------------

\* The keys of a map have one order.
LEMMA BytesDiffer ==
  ASSUME NEW k \in Seq(Byte), NEW l \in Seq(Byte), Len(k) = Len(l)
  PROVE  /\ Len(k) \in Nat
         /\ \A j \in 1 .. Len(k) : k[j] \in Nat /\ l[j] \in Nat
         /\ \A j \in 1 .. Len(k) :
              SubSeq(k, 1, j - 1) = SubSeq(l, 1, j - 1) <=> \A c \in 1 .. (j - 1) : k[c] = l[c]
         /\ k # l => \E j \in 1 .. Len(k) : k[j] # l[j] /\ \A c \in 1 .. (j - 1) : k[c] = l[c]
<1>1. Len(k) \in Nat /\ Len(l) \in Nat /\ DOMAIN k = 1 .. Len(k) /\ DOMAIN l = 1 .. Len(l)
  BY LenProperties
<1>2. \A j \in 1 .. Len(k) : k[j] \in Nat /\ l[j] \in Nat
  <2>1. \A b \in Byte : b \in Nat
    BY CodecSizes DEF Byte
  <2>2. QED BY <2>1, ElementOfSeq
<1>3. ASSUME NEW j \in 1 .. Len(k)
      PROVE  SubSeq(k, 1, j - 1) = SubSeq(l, 1, j - 1) <=> \A c \in 1 .. (j - 1) : k[c] = l[c]
  <2>1. j - 1 \in 0 .. Len(k) /\ j - 1 \in 0 .. Len(l)
    BY <1>1
  <2> DEFINE a == SubSeq(k, 1, j - 1)
             b == SubSeq(l, 1, j - 1)
  <2>2. Len(a) = j - 1 /\ Len(b) = j - 1 /\ a \in Seq(Byte) /\ b \in Seq(Byte)
    BY <1>1, <2>1, SubSeqProperties
  <2>3. \A c \in 1 .. (j - 1) : a[c] = k[c] /\ b[c] = l[c]
    BY <1>1, <2>1
  <2> HIDE DEF a, b
  <2>4. (\A c \in 1 .. (j - 1) : a[c] = b[c]) => a = b
    BY <2>2, SeqEqual
  <2>5. (\A c \in 1 .. (j - 1) : k[c] = l[c]) => a = b
    BY <2>3, <2>4
  <2>6. a = b => \A c \in 1 .. (j - 1) : k[c] = l[c]
    BY <2>3
  <2>7. QED BY <2>5, <2>6 DEF a, b
<1>4. ASSUME k # l PROVE \E j \in 1 .. Len(k) : k[j] # l[j] /\ \A c \in 1 .. (j - 1) : k[c] = l[c]
  <2> DEFINE T == { j \in 1 .. Len(k) : k[j] # l[j] }
  <2>1. T # {}
    <3>1. PICK j \in 1 .. Len(k) : k[j] # l[j]
      BY <1>4, SeqEqual
    <3>2. QED BY <3>1
  <2>2. PICK m \in T : \A j \in T : m <= j
    <3>1. T \subseteq Nat
      OBVIOUS
    <3> HIDE DEF T
    <3>2. QED BY <2>1, <3>1, LeastElement, Zenon
  <2>3. \A c \in 1 .. (m - 1) : k[c] = l[c]
    <3>1. ASSUME NEW c \in 1 .. (m - 1), k[c] # l[c] PROVE FALSE
      <4>1. c \in T
        BY <1>1, <3>1
      <4>2. m <= c
        BY <2>2, <4>1
      <4>3. QED BY <1>1, <3>1, <4>2
    <3>2. QED BY <3>1
  <2>4. QED BY <2>2, <2>3
<1>5. QED BY <1>1, <1>2, <1>3, <1>4

LEMMA KeyOrder ==
  ASSUME NEW k \in Seq(Byte), NEW l \in Seq(Byte)
  PROVE  /\ ~KeyLess(k, k)
         /\ k # l => KeyLess(k, l) \/ KeyLess(l, k)
<1>1. Len(k) \in Nat /\ Len(l) \in Nat
  BY LenProperties
<1>2. \A j \in 1 .. Len(k) : k[j] \in Nat
  BY BytesDiffer
<1>3. ~KeyLess(k, k)
  BY <1>1, <1>2 DEF KeyLess
<1>4. ASSUME k # l PROVE KeyLess(k, l) \/ KeyLess(l, k)
  <2>1. CASE Len(k) # Len(l)
    BY <1>1, <2>1 DEF KeyLess
  <2>2. CASE Len(k) = Len(l)
    <3>1. PICK j \in 1 .. Len(k) : k[j] # l[j] /\ \A c \in 1 .. (j - 1) : k[c] = l[c]
      BY <1>4, <2>2, BytesDiffer
    <3>2. SubSeq(k, 1, j - 1) = SubSeq(l, 1, j - 1) /\ k[j] \in Nat /\ l[j] \in Nat
      BY <2>2, <3>1, BytesDiffer
    <3>3. k[j] < l[j] \/ l[j] < k[j]
      BY <3>1, <3>2
    <3>4. QED BY <2>2, <3>2, <3>3 DEF KeyLess
  <2>3. QED BY <2>1, <2>2
<1>5. QED BY <1>3, <1>4

LEMMA KeyOrderGoesOn ==
  ASSUME NEW k \in Seq(Byte), NEW l \in Seq(Byte), NEW m \in Seq(Byte), KeyLess(k, l), KeyLess(l, m)
  PROVE  KeyLess(k, m)
<1>1. Len(k) \in Nat /\ Len(l) \in Nat /\ Len(m) \in Nat /\ Len(k) <= Len(l) /\ Len(l) <= Len(m)
  BY LenProperties DEF KeyLess
<1>2. CASE Len(k) < Len(m)
  BY <1>2 DEF KeyLess
<1>3. CASE ~(Len(k) < Len(m))
  <2>1. Len(k) = Len(l) /\ Len(l) = Len(m) /\ Len(k) = Len(m)
    BY <1>1, <1>3
  <2>2. PICK c \in 1 .. Len(l) : SubSeq(k, 1, c - 1) = SubSeq(l, 1, c - 1) /\ k[c] < l[c]
    BY <1>1, <2>1 DEF KeyLess
  <2>3. PICK j \in 1 .. Len(m) : SubSeq(l, 1, j - 1) = SubSeq(m, 1, j - 1) /\ l[j] < m[j]
    BY <1>1, <2>1 DEF KeyLess
  <2>4. \A h \in 1 .. (c - 1) : k[h] = l[h]
    BY <2>1, <2>2, BytesDiffer
  <2>5. \A h \in 1 .. (j - 1) : l[h] = m[h]
    BY <2>1, <2>3, BytesDiffer
  <2>6. \A h \in 1 .. Len(k) : k[h] \in Nat /\ l[h] \in Nat /\ m[h] \in Nat
    BY <2>1, BytesDiffer
  <2>7. PICK n \in 1 .. Len(k) : n <= c /\ n <= j /\ (n = c \/ n = j)
    <3>1. c \in Nat /\ j \in Nat /\ c \in 1 .. Len(k) /\ j \in 1 .. Len(k)
      BY <1>1, <2>1
    <3>2. CASE c <= j
      BY <3>1, <3>2
    <3>3. CASE ~(c <= j)
      BY <3>1, <3>3
    <3>4. QED BY <3>2, <3>3
  <2>8. \A h \in 1 .. (n - 1) : k[h] = m[h]
    BY <2>4, <2>5, <2>7
  <2>9. k[n] < m[n]
    <3>1. n < c => k[n] = l[n]
      BY <2>4, <2>7
    <3>2. n < j => l[n] = m[n]
      BY <2>5, <2>7
    <3>3. QED BY <2>2, <2>3, <2>6, <2>7, <3>1, <3>2
  <2>10. SubSeq(k, 1, n - 1) = SubSeq(m, 1, n - 1)
    BY <2>1, <2>8, BytesDiffer
  <2>11. QED BY <2>1, <2>7, <2>9, <2>10 DEF KeyLess
<1>4. QED BY <1>2, <1>3

InKeyOrder(ks) == \A c, j \in DOMAIN ks : c < j => KeyLess(ks[c], ks[j])

LEMMA SortedExists ==
  ASSUME NEW D, D \subseteq Seq(Byte), IsFiniteSet(D)
  PROVE  \E ks \in [1 .. Cardinality(D) -> D] : InKeyOrder(ks)
<1> DEFINE N == Cardinality(D)
           Below(x) == { y \in D : KeyLess(y, x) }
           rank == [x \in D |-> Cardinality(Below(x)) + 1]
<1>1. N \in Nat
  BY FS_CardinalityType
<1>2. ASSUME NEW x \in D
      PROVE  /\ IsFiniteSet(Below(x)) /\ Cardinality(Below(x)) \in Nat
             /\ Cardinality(Below(x)) < N
  <2>1. Below(x) \in SUBSET D
    OBVIOUS
  <2>2. IsFiniteSet(Below(x)) /\ Cardinality(Below(x)) <= N /\ (N = Cardinality(Below(x)) => D = Below(x))
    BY <2>1, FS_Subset, Zenon
  <2>3. Cardinality(Below(x)) \in Nat
    BY <2>2, FS_CardinalityType
  <2>4. x \notin Below(x)
    BY KeyOrder
  <2>5. D # Below(x)
    BY <2>4
  <2> HIDE DEF Below, N
  <2>6. QED BY <1>1, <2>2, <2>3, <2>5
<1>3. rank \in [D -> 1 .. N]
  <2> SUFFICES ASSUME NEW x \in D PROVE Cardinality(Below(x)) + 1 \in 1 .. N
    OBVIOUS
  <2> HIDE DEF Below, N
  <2>1. QED BY <1>1, <1>2
<1>4. ASSUME NEW x \in D, NEW y \in D, KeyLess(x, y) PROVE rank[x] < rank[y]
  <2>1. Below(x) \in SUBSET Below(y)
    BY <1>4, KeyOrderGoesOn
  <2>2. x \in Below(y) /\ x \notin Below(x)
    BY <1>4, KeyOrder
  <2>3. Below(y) # Below(x)
    BY <2>2
  <2>4. rank[x] = Cardinality(Below(x)) + 1 /\ rank[y] = Cardinality(Below(y)) + 1
    OBVIOUS
  <2> HIDE DEF Below, N, rank
  <2>5. IsFiniteSet(Below(y)) /\ Cardinality(Below(y)) \in Nat /\ Cardinality(Below(x)) \in Nat
    BY <1>2
  <2>6. Cardinality(Below(x)) <= Cardinality(Below(y)) /\ Cardinality(Below(y)) # Cardinality(Below(x))
    BY <2>1, <2>3, <2>5, FS_Subset, Zenon
  <2>7. QED BY <2>4, <2>5, <2>6
<1> HIDE DEF rank, Below
<1>5. rank \in Injection(D, 1 .. N)
  <2>1. ASSUME NEW x \in D, NEW y \in D, x # y PROVE rank[x] # rank[y]
    <3>1. KeyLess(x, y) \/ KeyLess(y, x)
      BY <2>1, KeyOrder
    <3>2. rank[x] < rank[y] \/ rank[y] < rank[x]
      BY <1>4, <3>1
    <3>3. rank[x] \in Int /\ rank[y] \in Int
      BY <1>1, <1>3
    <3>4. QED BY <3>2, <3>3
  <2>2. DOMAIN rank = D
    BY <1>3
  <2>3. IsInjective(rank)
    BY <2>1, <2>2 DEF IsInjective
  <2>4. QED BY <1>3, <2>3 DEF Injection
<1>6. rank \in Surjection(D, 1 .. N)
  <2>1. IsFiniteSet(1 .. N) /\ Cardinality(1 .. N) = N
    BY <1>1, FS_Interval
  <2> HIDE DEF N
  <2>2. Cardinality(D) = Cardinality(1 .. N)
    BY <2>1 DEF N
  <2>3. QED BY <1>5, <2>1, <2>2, FS_Injection, Zenon
<1> DEFINE ks == [j \in 1 .. N |-> CHOOSE x \in D : rank[x] = j]
<1>7. ASSUME NEW j \in 1 .. N PROVE ks[j] \in D /\ rank[ks[j]] = j
  BY <1>6 DEF Surjection
<1>8. ks \in [1 .. N -> D]
  BY <1>7
<1> HIDE DEF ks, N
<1>9. ASSUME NEW c \in 1 .. N, NEW j \in 1 .. N, c < j PROVE KeyLess(ks[c], ks[j])
  <2>1. ks[c] \in D /\ ks[j] \in D /\ rank[ks[c]] = c /\ rank[ks[j]] = j
    BY <1>7
  <2>2. ~KeyLess(ks[j], ks[c])
    <3>1. KeyLess(ks[j], ks[c]) => j < c
      BY <1>4, <2>1
    <3>2. QED BY <1>1, <1>9, <3>1
  <2>3. ks[c] # ks[j]
    BY <1>1, <1>9, <2>1
  <2>4. QED BY <2>1, <2>2, <2>3, KeyOrder
<1>10. InKeyOrder(ks)
  BY <1>8, <1>9 DEF InKeyOrder
<1>11. QED BY <1>8, <1>10 DEF N

LEMMA SortedIs ==
  ASSUME NEW D, D \subseteq Seq(Byte), IsFiniteSet(D)
  PROVE  \E n \in Nat :
           /\ Sorted(D) \in [1 .. n -> D] /\ Len(Sorted(D)) = n
           /\ \A c, j \in 1 .. n : c # j => Sorted(D)[c] # Sorted(D)[j]
           /\ \A x \in D : \E j \in 1 .. n : Sorted(D)[j] = x
<1> DEFINE N == Cardinality(D)
           ks == Sorted(D)
<1>1. N \in Nat
  BY FS_CardinalityType
<1>2. ks \in [1 .. N -> D] /\ InKeyOrder(ks)
  <2>1. \E x \in [1 .. N -> D] : \A c, j \in DOMAIN x : c < j => KeyLess(x[c], x[j])
    BY SortedExists, Zenon DEF InKeyOrder
  <2>2. ks \in [1 .. N -> D] /\ \A c, j \in DOMAIN ks : c < j => KeyLess(ks[c], ks[j])
    BY <2>1, Zenon DEF Sorted
  <2>3. QED BY <2>2, Zenon DEF InKeyOrder
<1> HIDE DEF ks
<1>3. ASSUME NEW c \in 1 .. N, NEW j \in 1 .. N, c # j PROVE ks[c] # ks[j]
  <2> HIDE DEF N
  <2>1. c < j \/ j < c
    BY <1>1, <1>3
  <2>2. KeyLess(ks[c], ks[j]) \/ KeyLess(ks[j], ks[c])
    BY <1>2, <2>1 DEF InKeyOrder
  <2>3. ks[c] \in Seq(Byte)
    BY <1>2
  <2>4. QED BY <2>2, <2>3, KeyOrder
<1>4. ks \in Injection(1 .. N, D)
  <2> HIDE DEF N
  <2>1. DOMAIN ks = 1 .. N
    BY <1>2
  <2>2. IsInjective(ks)
    BY <1>3, <2>1 DEF IsInjective
  <2>3. QED BY <1>2, <2>2 DEF Injection
<1>5. ks \in Surjection(1 .. N, D)
  <2>1. Cardinality(1 .. N) = N
    BY <1>1, FS_Interval
  <2> HIDE DEF N
  <2>2. Cardinality(1 .. N) = Cardinality(D)
    BY <2>1 DEF N
  <2>3. QED BY <1>4, <2>2, FS_Injection, Zenon
<1> HIDE DEF N
<1>6. Len(ks) = N
  <2>1. ks \in Seq(D)
    BY <1>1, <1>2
  <2>2. QED BY <1>1, <1>2, <2>1, LenProperties
<1>7. \A x \in D : \E j \in 1 .. N : ks[j] = x
  BY <1>5 DEF Surjection
<1>8. QED BY <1>1, <1>2, <1>3, <1>6, <1>7 DEF ks

-----------------------------------------------------------------------------

\* A map: its entries in the order of their keys.
IsMapValue(f, e) == IF f.kind = "map*" THEN IsPointer(Ints(Word), e) ELSE e \in Ints(Word)

LEMMA MapValueComes ==
  ASSUME NEW f, NEW e, IsMapValue(f, e), NEW s \in Seq(Byte), NEW p \in Nat
  PROVE  Comes(WriteMapValue(f, e), TRUE, s, p, ReadMapValue(f, s, p), e)
<1>1. CASE f.kind = "map*"
  <2>1. WriteMapValue(f, e) = WriteStructPointer(e) /\ ReadMapValue(f, s, p) = ReadPointer("*struct", s, p, << >>)
    BY <1>1 DEF WriteMapValue, ReadMapValue
  <2>2. IsPointer(Ints(Word), e)
    BY <1>1 DEF IsMapValue
  <2>3. QED BY <2>1, <2>2, StructPointerComes
<1>2. CASE f.kind # "map*"
  <2>1. WriteMapValue(f, e) = WriteTime(e) /\ ReadMapValue(f, s, p) = ReadTime(s, p)
    BY <1>2 DEF WriteMapValue, ReadMapValue
  <2>2. e \in Ints(Word)
    BY <1>2 DEF IsMapValue
  <2>3. QED BY <2>1, <2>2, TimeComes
<1>3. QED BY <1>1, <1>2

LEMMA EntryComes ==
  ASSUME NEW f, NEW k \in Seq(Byte), NEW e, IsMapValue(f, e), NEW s \in Seq(Byte), NEW p \in Nat
  PROVE  Comes(AndThen(WriteString(k), WriteMapValue(f, e)), TRUE, s, p, ReadEntry(f, s, p), <<k, e>>)
<1> DEFINE a  == WriteString(k)
           b  == WriteMapValue(f, e)
           w  == AndThen(a, b)
           rk == ReadString(s, p)
           r  == ReadEntry(f, s, p)
           l  == Len(a.bytes)
           x  == ReadMapValue(f, s, p + l)
           y  == IF x.ok THEN Good(<<k, x.v>>, x.n) ELSE x
<1>1. Comes(a, TRUE, s, p, rk, k)
  BY StringComes
<1>2. a.bytes \in Seq(Byte) /\ a.ok \in BOOLEAN /\ l \in Nat /\ p + l \in Nat /\ Len(s) \in Nat
  BY <1>1, LenProperties DEF Comes
<1>3. Comes(b, TRUE, s, p + l, x, e)
  BY <1>2, MapValueComes
<1>4. b.bytes \in Seq(Byte) /\ b.ok \in BOOLEAN /\ Len(b.bytes) \in Nat
  BY <1>3, LenProperties DEF Comes
<1>5. ~rk.ok => ~r.ok
  BY DEF ReadEntry, ReadValueOf
<1>6. CASE ~a.ok
  <2>1. w = a
    BY <1>6 DEF AndThen
  <2> HIDE DEF a, b, w, rk, r, l, x, y
  <2>2. Comes(a, TRUE, s, p, r, <<k, e>>)
    BY <1>1, <1>5, <1>6 DEF Comes
  <2>3. QED BY <2>1, <2>2 DEF w, a, b, r
<1>7. CASE a.ok
  <2>1. w.ok = b.ok /\ w.bytes = a.bytes \o b.bytes
    BY <1>7 DEF AndThen
  <2>2. w.bytes \in Seq(Byte) /\ Len(w.bytes) = l + Len(b.bytes)
    BY <1>2, <1>4, <2>1, ConcatProperties
  <2>3. ASSUME Holds(s, p, w.bytes)
        PROVE  /\ Holds(s, p, a.bytes) /\ Holds(s, p + l, b.bytes)
               /\ r = Plus(l, y)
    <3>1. Holds(s, p, a.bytes) /\ Holds(s, p + l, b.bytes)
      BY <1>2, <1>4, <2>1, <2>3, ConcatHeld
    <3>2. rk = Good(k, l)
      BY <1>1, <1>7, <3>1 DEF Comes
    <3>3. rk.ok /\ rk.v = k /\ rk.n = l
      BY <3>2 DEF Good
    <3>4. r = ReadValueOf(rk, f, s, p)
      BY DEF ReadEntry
    <3>5. ReadValueOf(Good(k, l), f, s, p) = Plus(l, y)
      BY DEF ReadValueOf, Mapped, Good
    <3> HIDE DEF a, b, w, rk, r, l, x, y
    <3>6. r = Plus(l, y)
      BY <3>2, <3>4, <3>5
    <3>7. QED BY <3>1, <3>6
  <2> HIDE DEF a, b, w, rk, r, l
  <2>4. ASSUME Holds(s, p, w.bytes), w.ok PROVE r = Good(<<k, e>>, Len(w.bytes))
    <3>1. x = Good(e, Len(b.bytes))
      BY <1>3, <2>1, <2>3, <2>4 DEF Comes
    <3>2. x.ok /\ x.v = e /\ x.n = Len(b.bytes)
      BY <3>1 DEF Good
    <3> HIDE DEF x
    <3>4. y = Good(<<k, e>>, Len(b.bytes))
      BY <3>2
    <3> HIDE DEF y
    <3>3. QED BY <2>2, <2>3, <2>4, <3>4 DEF Plus, Good
  <2>5. ASSUME Holds(s, p, w.bytes), ~w.ok, p + Len(w.bytes) = Len(s) PROVE ~r.ok
    <3>1. (p + l) + Len(b.bytes) = Len(s)
      <4>1. PICK c \in Nat, d \in Nat, o \in Nat : c = Len(b.bytes) /\ d = l /\ o = Len(s)
        BY <1>2, <1>4
      <4>2. p + (d + c) = o
        BY <2>2, <2>5, <4>1
      <4>3. (p + d) + c = o
        BY <4>2
      <4>4. QED BY <4>1, <4>3
    <3>2. ~x.ok
      BY <1>3, <2>1, <2>3, <2>5, <3>1 DEF Comes
    <3>3. ~y.ok
      BY <3>2
    <3> HIDE DEF x, y
    <3>4. QED BY <2>3, <2>5, <3>3 DEF Plus, Bad
  <2> HIDE DEF x, y
  <2>6. Comes(w, TRUE, s, p, r, <<k, e>>)
    BY <1>4, <2>1, <2>2, <2>4, <2>5 DEF Comes
  <2>7. QED BY <2>6 DEF w, a, b, r
<1>8. QED BY <1>2, <1>6, <1>7

\* es are the entries of v, in the order ks of their keys.
EntriesOf(v, es, ks, n) ==
  /\ \A j \in 1 .. n : ks[j] \in DOMAIN v
  /\ DOMAIN es = 1 .. n /\ \A j \in 1 .. n : es[j] = <<ks[j], v[ks[j]]>>
  /\ \A h, j \in 1 .. n : h # j => ks[h] # ks[j]
  /\ \A k \in DOMAIN v : \E j \in 1 .. n : ks[j] = k

LEMMA MapOfEntries ==
  ASSUME NEW n \in Nat, NEW ks, NEW v, IsMap(v), NEW es, EntriesOf(v, es, ks, n)
  PROVE  MapOf(es) = v
<1> DEFINE At(k) == CHOOSE j \in DOMAIN es :
                      es[j][1] = k /\ \A l \in DOMAIN es : es[l][1] = k => l <= j
<1>1. DOMAIN es = 1 .. n /\ \A j \in 1 .. n : es[j][1] = ks[j] /\ es[j][2] = v[ks[j]]
  BY DEF EntriesOf
<1>0. /\ \A j \in 1 .. n : ks[j] \in DOMAIN v
      /\ \A h, j \in 1 .. n : h # j => ks[h] # ks[j]
      /\ \A k \in DOMAIN v : \E j \in 1 .. n : ks[j] = k
  BY DEF EntriesOf
<1>2. { es[j][1] : j \in DOMAIN es } = DOMAIN v
  <2> DEFINE K == { es[j][1] : j \in DOMAIN es }
  <2>1. \A j \in 1 .. n : es[j][1] \in DOMAIN v
    BY <1>0, <1>1
  <2>2. K \subseteq DOMAIN v
    BY <1>1, <2>1
  <2>3. ASSUME NEW k \in DOMAIN v PROVE k \in K
    <3>1. PICK j \in 1 .. n : ks[j] = k
      BY <1>0
    <3>2. j \in DOMAIN es /\ es[j][1] = k
      BY <1>1, <3>1
    <3>3. QED BY <3>2
  <2>4. QED BY <2>2, <2>3
<1>3. ASSUME NEW k \in DOMAIN v PROVE es[At(k)][2] = v[k]
  <2>1. PICK j \in 1 .. n : ks[j] = k
    BY <1>0
  <2>2. \A l \in 1 .. n : ks[l] = k => l = j
    BY <1>0, <2>1
  <2>3. es[j][1] = k /\ \A l \in DOMAIN es : es[l][1] = k => l <= j
    BY <1>1, <2>1, <2>2
  <2>4. At(k) \in DOMAIN es /\ es[At(k)][1] = k
    BY <1>1, <2>3
  <2> HIDE DEF At
  <2>5. At(k) \in 1 .. n /\ ks[At(k)] = k
    BY <1>1, <2>4
  <2>7. At(k) = j
    BY <2>2, <2>5
  <2>6. QED BY <1>1, <2>1, <2>7
<1>4. MapOf(es) = [k \in DOMAIN v |-> es[At(k)][2]]
  BY <1>2 DEF MapOf
<1> HIDE DEF At
<1>5. QED BY <1>3, <1>4 DEF IsMap

LEMMA MapComes ==
  ASSUME NEW f, NEW v, IsMap(v), \A k \in DOMAIN v : IsMapValue(f, v[k]), NEW s \in Seq(Byte), NEW p \in Nat
  PROVE  Comes(WriteMap(f, v), TRUE, s, p, ReadMap(f, s, p), v)
<1> DEFINE D  == DOMAIN v
           ks == Sorted(D)
           read == [q \in 0 .. Len(s) |-> ReadEntry(f, s, q)]
           ws == [j \in DOMAIN ks |-> AndThen(WriteString(ks[j]), WriteMapValue(f, v[ks[j]]))]
           m  == ReadMap(f, s, p)
           r  == Headed(s, p, LAMBDA h : h.maj = MajMap /\ h.extra <= MaxMapLen,
                        LAMBDA h : Elements(p + h.n, h.extra, read))
           hd == CborReadHeaderBuf(s, p)
<1>1. D \subseteq Seq(Byte) /\ IsFiniteSet(D) /\ v = [k \in D |-> v[k]]
  BY DEF IsMap
<1>2. PICK n \in Nat :
        /\ ks \in [1 .. n -> D] /\ Len(ks) = n
        /\ \A h, j \in 1 .. n : h # j => ks[h] # ks[j]
        /\ \A x \in D : \E j \in 1 .. n : ks[j] = x
  BY <1>1, SortedIs, Zenon
<1> HIDE DEF ks
<1>3. MaxMapLen \in Arguments /\ MaxMapLen \in Nat /\ MajMap \in Majors
  BY CodecAssumption, CodecSizes
<1>4. ~hd.ok => ~r.ok
  BY DEF Headed, After, Bad
<1>5. m = IF r.ok THEN Good(MapOf(r.v), r.n) ELSE r
  BY DEF ReadMap, Mapped
<1>6. CASE n > MaxMapLen
  <2>1. WriteMap(f, v) = Refused(<< >>)
    BY <1>2, <1>6 DEF WriteMap, ks
  <2>2. ~hd.ok => ~m.ok
    BY <1>4, <1>5
  <2> HIDE DEF m
  <2>3. Comes(Refused(<< >>), TRUE, s, p, m, v)
    BY <2>2, NoneComes
  <2>4. QED BY <2>1, <2>3 DEF m
<1>7. CASE ~(n > MaxMapLen)
  <2>1. n \in Arguments /\ n <= MaxMapLen
    BY <1>3, <1>7, CodecSizes
  <2> DEFINE w == All(WriteMajorTypeHeader(MajMap, n), ws)
             es == [j \in 1 .. n |-> <<ks[j], v[ks[j]]>>]
             goods == [j \in 1 .. n |-> TRUE]
  <2>2. WriteMap(f, v) = w
    BY <1>2, <1>7 DEF WriteMap, ks
  <2>3. ASSUME hd.ok, hd.maj = MajMap, hd.extra = n
        PROVE  r = Plus(hd.n, Elements(p + hd.n, n, read))
    BY <2>1, <2>3 DEF Headed, After
  <2>4. Len(ws) = n
    BY <1>2
  <2>5. AllCome(ws, goods, s, read, es, n)
    <3>1. SUFFICES ASSUME NEW j \in 1 .. n, NEW a \in 0 .. Len(s)
                   PROVE  Comes(ws[j], goods[j], s, a, read[a], es[j])
      BY DEF AllCome
    <3>2. a \in Nat /\ ks[j] \in D /\ ks[j] \in Seq(Byte) /\ IsMapValue(f, v[ks[j]])
      BY <1>1, <1>2
    <3>3. /\ ws[j] = AndThen(WriteString(ks[j]), WriteMapValue(f, v[ks[j]]))
          /\ goods[j] = TRUE /\ read[a] = ReadEntry(f, s, a) /\ es[j] = <<ks[j], v[ks[j]]>>
      BY <1>2
    <3> HIDE DEF ws, goods, read, es
    <3>4. Comes(AndThen(WriteString(ks[j]), WriteMapValue(f, v[ks[j]])), TRUE, s, a, ReadEntry(f, s, a), <<ks[j], v[ks[j]]>>)
      BY <3>2, EntryComes, Zenon
    <3>5. QED BY <3>3, <3>4
  <2>6. PICK g \in BOOLEAN : g = TRUE
    OBVIOUS
  <2>7. g <=> \A j \in 1 .. n : goods[j]
    BY <2>6
  <2>8. MapOf(es) = v
    <3>1. \A j \in 1 .. n : ks[j] \in DOMAIN v
      BY <1>2
    <3>2. DOMAIN es = 1 .. n /\ \A j \in 1 .. n : es[j] = <<ks[j], v[ks[j]]>>
      OBVIOUS
    <3> HIDE DEF es
    <3>3. EntriesOf(v, es, ks, n)
      BY <1>2, <3>1, <3>2 DEF EntriesOf
    <3>4. QED BY <3>3, MapOfEntries
  <2>9. es = [j \in 1 .. n |-> es[j]]
    OBVIOUS
  <2> HIDE DEF r, w, read, goods, ws, es
  <2>10. Comes(w, g, s, p, r, [j \in 1 .. n |-> es[j]])
    BY <1>3, <1>4, <2>1, <2>3, <2>4, <2>5, <2>7, ChainComes DEF w
  <2>11. Comes(w, g, s, p, r, es)
    BY <2>9, <2>10
  <2> HIDE DEF m
  <2>12. Comes(w, TRUE, s, p, m, v)
    <3>1. \A l : r = Good(es, l) => m = Good(v, l)
      BY <1>5, <2>8 DEF Good
    <3>2. ~r.ok => ~m.ok
      BY <1>5
    <3>3. QED BY <2>6, <2>11, <3>1, <3>2 DEF Comes
  <2>13. QED BY <2>2, <2>12 DEF m
<1>8. QED BY <1>6, <1>7

-----------------------------------------------------------------------------

\* A nil pointer to a Deferred is written as a null, which is an item.
LEMMA DeferredPointerComes ==
  ASSUME NEW f, f.kind = "*deferred", NEW v, IsPointer(Seq(Byte), v), \A j \in DOMAIN v : IsRaw(v[j]),
         NEW s \in Seq(Byte), NEW p \in Nat,
         NEW r, ReadDeferred(s, p).ok => r = Good(<< ReadDeferred(s, p).v >>, ReadDeferred(s, p).n),
         ~ReadDeferred(s, p).ok => ~r.ok
  PROVE  Comes(WritePointer(f, v), TRUE, s, p, r, Same(f, v))
<1>1. CASE v = << >>
  <2>1. WritePointer(f, v) = Wrote(<< CborNull >>) /\ Same(f, v) = << << CborNull >> >>
    BY <1>1 DEF WritePointer, Same
  <2> DEFINE b == << CborNull >>
  <2>2. b \in Seq(Byte) /\ Len(b) = 1 /\ ItemAt(b, 0) = Ends(Len(b), << >>)
    BY NullHeld, NullIsItem
  <2> HIDE DEF b
  <2>3. Holds(s, p, b) => ReadDeferred(s, p) = Good(b, Len(b))
    BY <2>2, DeferredBack
  <2>4. Holds(s, p, b) => r = Good(<< b >>, Len(b))
    BY <2>3 DEF Good
  <2>5. Comes(Wrote(b), TRUE, s, p, r, << b >>)
    BY <2>2, <2>4, WrittenComes
  <2>6. QED BY <2>1, <2>5 DEF b
<1>2. CASE v # << >>
  <2>1. PICK x \in Seq(Byte) : v = << x >> /\ v[1] = x /\ DOMAIN v = {1}
    BY <1>2, PointerIs
  <2>2. IsRaw(x)
    BY <2>1
  <2>3. WritePointer(f, v) = WriteRaw(x) /\ Same(f, v) = v
    BY <1>2, <2>1 DEF WritePointer, Same
  <2>4. Comes(WriteRaw(x), TRUE, s, p, ReadDeferred(s, p), x)
    BY <2>2, RawComes
  <2>5. \A l : ReadDeferred(s, p) = Good(x, l) => r = Good(<< x >>, l)
    BY DEF Good
  <2>6. Comes(WriteRaw(x), TRUE, s, p, r, << x >>)
    BY <2>4, <2>5 DEF Comes
  <2>7. QED BY <2>1, <2>3, <2>6
<1>3. QED BY <1>1, <1>2

LEMMA NullableComes ==
  ASSUME NEW f, f.kind \in Nullable, NEW v, IsValue(f, v), NEW s \in Seq(Byte), NEW p \in Nat
  PROVE  Comes(WritePointer(f, v), TRUE, s, p, ReadPointer(f.kind, s, p, << >>), v)
<1>1. CASE v = << >>
  <2>1. WritePointer(f, v) = Wrote(<< CborNull >>)
    BY <1>1 DEF WritePointer
  <2>2. Comes(Wrote(<< CborNull >>), TRUE, s, p, ReadPointer(f.kind, s, p, << >>), << >>)
    BY NullComes
  <2>3. QED BY <1>1, <2>1, <2>2
<1>2. CASE v # << >> /\ f.kind = "*uint64"
  <2>1. IsPointer(Arguments, v)
    BY <1>2 DEF IsValue
  <2>2. PICK x \in Arguments : v = << x >> /\ v[1] = x
    BY <1>2, <2>1, PointerIs
  <2> DEFINE w == Wrote(Written(WriteUint(x)))
  <2>3. WritePointer(f, v) = w /\ ReadPointee(f.kind, s, p) = ReadUint64(s, p)
    BY <1>2, <2>2 DEF WritePointer, ReadPointee
  <2>4. /\ Comes(w, TRUE, s, p, ReadUint64(s, p), x)
        /\ Holds(s, p, Written(WriteUint(x))) => p < Len(s) /\ s[p + 1] # CborNull
    BY UintComes
  <2>5. w.bytes = Written(WriteUint(x))
    BY DEF Wrote
  <2> HIDE DEF w
  <2>6. Comes(w, TRUE, s, p, ReadPointee(f.kind, s, p), x)
    BY <2>3, <2>4
  <2>7. Holds(s, p, w.bytes) => p < Len(s) /\ s[p + 1] # CborNull
    BY <2>4, <2>5
  <2>8. Comes(w, TRUE, s, p, ReadPointer(f.kind, s, p, << >>), << x >>)
    BY <2>6, <2>7, PointerComes
  <2>9. QED BY <2>2, <2>3, <2>8
<1>3. CASE v # << >> /\ f.kind = "*cid"
  <2>1. IsPointer(Seq(Byte), v) /\ \A j \in DOMAIN v : IsCidValue(v[j])
    BY <1>3 DEF IsValue
  <2>2. PICK x \in Seq(Byte) : v = << x >> /\ v[1] = x /\ DOMAIN v = {1}
    BY <1>3, <2>1, PointerIs
  <2>3. IsCidValue(x)
    BY <2>1, <2>2
  <2>4. WritePointer(f, v) = WriteCid(x) /\ ReadPointee(f.kind, s, p) = ReadCid(s, p)
    BY <1>3, <2>2 DEF WritePointer, ReadPointee
  <2> DEFINE w == WriteCid(x)
  <2>5. /\ Comes(w, TRUE, s, p, ReadCid(s, p), x)
        /\ Holds(s, p, w.bytes) => p < Len(s) /\ s[p + 1] # CborNull
    BY <2>3, CidComes
  <2> HIDE DEF w
  <2>6. Comes(w, TRUE, s, p, ReadPointee(f.kind, s, p), x)
    BY <2>4, <2>5
  <2>7. Comes(w, TRUE, s, p, ReadPointer(f.kind, s, p, << >>), << x >>)
    BY <2>5, <2>6, PointerComes
  <2>8. QED BY <2>2, <2>4, <2>7 DEF w
<1>4. CASE v # << >> /\ f.kind = "*struct"
  <2>1. IsPointer(Ints(Word), v)
    BY <1>4 DEF IsValue
  <2>2. WritePointer(f, v) = WriteStructPointer(v)
    BY <1>4 DEF WritePointer
  <2>3. Comes(WriteStructPointer(v), TRUE, s, p, ReadPointer("*struct", s, p, << >>), v)
    BY <2>1, StructPointerComes
  <2>4. QED BY <1>4, <2>2, <2>3
<1>5. QED BY <1>1, <1>2, <1>3, <1>4 DEF Nullable

LEMMA FieldComes ==
  ASSUME NEW f, IsField(f), f.kind \notin SizedInts, NEW v, IsValue(f, v), NEW s \in Seq(Byte), NEW p \in Nat
  PROVE  Comes(WriteField(f, v), Readable(f, v), s, p, ReadField(f, s, p, Zero(f)), Same(f, v))
<1> DEFINE w == WriteField(f, v)
           r == ReadField(f, s, p, Zero(f))
<1>1. f.kind \in Kinds /\ f.w \in Nat /\ (f.kind \in Numbered => f.w \in 1 .. Word)
  BY DEF IsField, Fields
<1>2. f.kind # "[]*struct" => Readable(f, v) = TRUE
  BY DEF Readable
<1>3. f.kind # "*deferred" => Same(f, v) = v
  BY DEF Same
<1>4. SUFFICES ASSUME f.kind \notin Slices \cup {"*deferred"}
               PROVE  Comes(w, TRUE, s, p, r, v)
  <2>1. CASE f.kind \in Slices
    <3>1. f.kind # "*deferred"
      BY <2>1 DEF Slices
    <3>2. w = WriteSlice(f, v)
      BY <2>1 DEF WriteField, Slices, Nullable
    <3>3. r = ReadSlice(f, s, p, << >>)
      BY <2>1 DEF ReadField, Slices, Nullable, Zero, Mapped
    <3>4. Comes(WriteSlice(f, v), Readable(f, v), s, p, ReadSlice(f, s, p, << >>), v)
      BY <1>1, <2>1, SliceComes
    <3>5. QED BY <1>3, <3>1, <3>2, <3>3, <3>4
  <2>2. CASE f.kind = "*deferred"
    <3>1. w = WritePointer(f, v)
      BY <2>2 DEF WriteField, Slices, Nullable
    <3>2. /\ ReadDeferred(s, p).ok => r = Good(<< ReadDeferred(s, p).v >>, ReadDeferred(s, p).n)
          /\ ~ReadDeferred(s, p).ok => ~r.ok
      BY <2>2 DEF ReadField, Slices, Nullable, Mapped
    <3>3. IsPointer(Seq(Byte), v) /\ \A j \in DOMAIN v : IsRaw(v[j])
      BY <2>2 DEF IsValue
    <3> HIDE DEF r
    <3>4. Comes(WritePointer(f, v), TRUE, s, p, r, Same(f, v))
      BY <2>2, <3>2, <3>3, DeferredPointerComes
    <3>5. Readable(f, v) = TRUE
      BY <1>2, <2>2
    <3>6. QED BY <3>1, <3>4, <3>5 DEF r
  <2>3. CASE f.kind \notin Slices \cup {"*deferred"}
    <3>1. f.kind # "*deferred" /\ f.kind # "[]*struct"
      BY <2>3 DEF Slices
    <3>2. QED BY <1>2, <1>3, <1>4, <2>3, <3>1
  <2>4. QED BY <2>1, <2>2, <2>3
<1>5. CASE f.kind = "uint64"
  <2>1. v \in Arguments
    BY <1>5 DEF IsValue
  <2>2. w = Wrote(Written(WriteUint(v)))
    BY <1>5 DEF WriteField, Slices, Nullable
  <2>3. r = ReadUint64(s, p)
    BY <1>5 DEF ReadField, Slices, Nullable, Zero
  <2>4. Comes(Wrote(Written(WriteUint(v))), TRUE, s, p, ReadUint64(s, p), v)
    BY <2>1, UintComes
  <2>5. QED BY <2>2, <2>3, <2>4
<1>6. CASE f.kind = "bool"
  <2>1. v \in BOOLEAN
    BY <1>6 DEF IsValue
  <2>2. w = Wrote(Written(WriteBool(v)))
    BY <1>6 DEF WriteField, Slices, Nullable
  <2>3. r = ReadBool(s, p)
    BY <1>6 DEF ReadField, Slices, Nullable, Zero
  <2>4. Comes(Wrote(Written(WriteBool(v))), TRUE, s, p, ReadBool(s, p), v)
    BY <2>1, BoolComes
  <2>5. QED BY <2>2, <2>3, <2>4
<1>7. CASE f.kind = "string"
  <2>1. v \in Seq(Byte)
    BY <1>7 DEF IsValue
  <2>2. w = WriteString(v)
    BY <1>7 DEF WriteField, Slices, Nullable
  <2>3. r = ReadString(s, p)
    BY <1>7 DEF ReadField, Slices, Nullable, Zero
  <2>4. Comes(WriteString(v), TRUE, s, p, ReadString(s, p), v)
    BY <2>1, StringComes
  <2>5. QED BY <2>2, <2>3, <2>4
<1>8. CASE f.kind = "bytes"
  <2>1. v \in Seq(Byte)
    BY <1>8 DEF IsValue
  <2>2. w = WriteBytes(v)
    BY <1>8 DEF WriteField, Slices, Nullable
  <2>3. r = ReadBytes(s, p, << >>)
    BY <1>8 DEF ReadField, Slices, Nullable, Zero
  <2>4. Comes(WriteBytes(v), TRUE, s, p, ReadBytes(s, p, << >>), v)
    BY <2>1, BytesComes
  <2>5. QED BY <2>2, <2>3, <2>4
<1>9. CASE f.kind = "bytearray"
  <2>1. v \in [1 .. f.w -> Byte]
    BY <1>9 DEF IsValue
  <2>2. v \in Seq(Byte) /\ Len(v) = f.w
    BY <1>1, <2>1
  <2>3. w = WriteBytes(v)
    BY <1>9 DEF WriteField, Slices, Nullable
  <2>4. r = ReadBytesOf(s, p, Len(v))
    BY <1>9, <2>2 DEF ReadField, Slices, Nullable
  <2>5. Comes(WriteBytes(v), TRUE, s, p, ReadBytesOf(s, p, Len(v)), v)
    BY <2>2, BytesComes
  <2>6. QED BY <2>3, <2>4, <2>5
<1>10. CASE f.kind = "cid"
  <2>1. IsCidValue(v)
    BY <1>10 DEF IsValue
  <2>2. w = WriteCid(v)
    BY <1>10 DEF WriteField, Slices, Nullable
  <2>3. r = ReadCid(s, p)
    BY <1>10 DEF ReadField, Slices, Nullable, Zero
  <2>4. Comes(WriteCid(v), TRUE, s, p, ReadCid(s, p), v)
    BY <2>1, CidComes
  <2>5. QED BY <2>2, <2>3, <2>4
<1>11. CASE f.kind = "cborcid"
  <2>1. IsCidValue(v)
    BY <1>11 DEF IsValue
  <2>2. w = WriteCborCid(v)
    BY <1>11 DEF WriteField, Slices, Nullable
  <2>3. r = ReadCborCid(s, p)
    BY <1>11 DEF ReadField, Slices, Nullable, Zero
  <2>4. Comes(WriteCborCid(v), TRUE, s, p, ReadCborCid(s, p), v)
    BY <2>1, CborCidComes
  <2>5. QED BY <2>2, <2>3, <2>4
<1>12. CASE f.kind = "time"
  <2>1. v \in Ints(Word)
    BY <1>12 DEF IsValue
  <2>2. w = WriteTime(v)
    BY <1>12 DEF WriteField, Slices, Nullable
  <2>3. r = ReadTime(s, p)
    BY <1>12 DEF ReadField, Slices, Nullable, Zero
  <2>4. Comes(WriteTime(v), TRUE, s, p, ReadTime(s, p), v)
    BY <2>1, TimeComes
  <2>5. QED BY <2>2, <2>3, <2>4
<1>13. CASE f.kind = "struct"
  <2>1. v \in Ints(Word)
    BY <1>13 DEF IsValue
  <2>2. w = WriteStruct(v)
    BY <1>13 DEF WriteField, Slices, Nullable
  <2>3. r = ReadStruct(s, p)
    BY <1>13 DEF ReadField, Slices, Nullable, Zero
  <2>4. Comes(WriteStruct(v), TRUE, s, p, ReadStruct(s, p), v)
    BY <2>1, StructComes
  <2>5. QED BY <2>2, <2>3, <2>4
<1>14. CASE f.kind = "deferred"
  <2>1. IsRaw(v)
    BY <1>14 DEF IsValue
  <2>2. w = WriteRaw(v)
    BY <1>14 DEF WriteField, Slices, Nullable
  <2>3. r = ReadDeferred(s, p)
    BY <1>14 DEF ReadField, Slices, Nullable, Zero
  <2>4. Comes(WriteRaw(v), TRUE, s, p, ReadDeferred(s, p), v)
    BY <2>1, RawComes
  <2>5. QED BY <2>2, <2>3, <2>4
<1>15. CASE f.kind = "array"
  <2>1. v \in [1 .. f.w -> Arguments] /\ DOMAIN v = 1 .. f.w
    BY <1>15 DEF IsValue
  <2> DEFINE ws == [j \in DOMAIN v |-> Wrote(Written(WriteUint(v[j])))]
  <2>2. w = WriteElements(ws)
    <3>1. w = WriteSlice(f, v)
      BY <1>15 DEF WriteField, Slices, Nullable
    <3>2. \A e : WriteElement(f, e) = Wrote(Written(WriteUint(e)))
      BY <1>15 DEF WriteElement
    <3>3. [j \in DOMAIN v |-> WriteElement(f, v[j])] = ws
      BY <3>2
    <3>4. QED BY <3>1, <3>3 DEF WriteSlice
  <2>3. r = ReadArray(s, p, f.w)
    BY <1>15 DEF ReadField, Slices, Nullable
  <2>4. Comes(WriteElements(ws), TRUE, s, p, ReadArray(s, p, f.w), v)
    BY <1>1, <2>1, ArrayComes
  <2>5. QED BY <2>2, <2>3, <2>4
<1>16. CASE f.kind \in {"map", "map*"}
  <2>1. IsMap(v) /\ \A k \in DOMAIN v : IsMapValue(f, v[k])
    BY <1>16 DEF IsValue, IsMapValue
  <2>2. w = WriteMap(f, v)
    BY <1>16 DEF WriteField, Slices, Nullable
  <2>3. r = ReadMap(f, s, p)
    BY <1>16 DEF ReadField, Slices, Nullable
  <2>4. Comes(WriteMap(f, v), TRUE, s, p, ReadMap(f, s, p), v)
    BY <2>1, MapComes
  <2>5. QED BY <2>2, <2>3, <2>4
<1>17. CASE f.kind \in Nullable
  <2>1. w = WritePointer(f, v)
    BY <1>17 DEF WriteField, Slices, Nullable
  <2>2. r = ReadPointer(f.kind, s, p, << >>)
    BY <1>17 DEF ReadField, Slices, Nullable, Zero
  <2>3. Comes(WritePointer(f, v), TRUE, s, p, ReadPointer(f.kind, s, p, << >>), v)
    BY <1>17, NullableComes
  <2>4. QED BY <2>1, <2>2, <2>3
<1> HIDE DEF w, r
<1>18. QED BY <1>1, <1>4, <1>5, <1>6, <1>7, <1>8, <1>9, <1>10, <1>11, <1>12, <1>13, <1>14, <1>15, <1>16, <1>17 DEF Kinds, Numbered, SizedInts, Slices, Nullable

-----------------------------------------------------------------------------

\* Whether the decoder of a field reads numbers of the width they have, or wider.
Wide(f) == f.kind \in SizedInts => f.read \in f.w .. Word

\* What is read where v has been written is v, if it is read at all; and it is read
\* if it is written without error, for the decoder to take it.
Back(f, v, s, p) ==
  LET w == WriteField(f, v)
      r == ReadField(f, s, p, Zero(f))
  IN  /\ w.bytes \in Seq(Byte) /\ w.ok \in BOOLEAN
      /\ Holds(s, p, w.bytes) /\ r.ok /\ (w.ok \/ p + Len(w.bytes) = Len(s)) =>
           w.ok /\ Readable(f, v) /\ r.n = Len(w.bytes) /\ (Wide(f) => r.v = Same(f, v))
      /\ Holds(s, p, w.bytes) /\ w.ok /\ Readable(f, v) /\ Wide(f) => r.ok

LEMMA SizedUintBack ==
  ASSUME NEW f, IsField(f), f.kind = "uint", NEW v, IsValue(f, v), NEW s \in Seq(Byte), NEW p \in Nat
  PROVE  Back(f, v, s, p)
<1> DEFINE r == ReadField(f, s, p, Zero(f))
           x == ReadUint(s, p, f.read)
           b == Written(WriteUint(v))
<1>1. f.w \in 1 .. Word /\ v \in 0 .. MaxUint(f.w)
  BY DEF IsField, Numbered, IsValue
<1>2. v \in Arguments /\ UintOf(v, f.w) = v /\ \A k \in f.w .. Word : v <= MaxUint(k)
  BY <1>1, UintFits
<1>3. WriteField(f, v) = Wrote(b)
  BY DEF WriteField, Slices, Nullable
<1>4. /\ x.ok => r = Good(UintOf(x.v, f.w), x.n)
      /\ ~x.ok => ~r.ok
  BY DEF ReadField, Slices, Nullable, Mapped
<1>5. Readable(f, v) /\ Same(f, v) = v
  BY DEF Readable, Same
<1>6. b \in Seq(Byte)
  <2>1. Comes(Wrote(b), TRUE, s, p, ReadUint64(s, p), v)
    BY <1>2, UintComes
  <2>2. QED BY <2>1 DEF Comes, Wrote
<1>7. ASSUME Holds(s, p, b)
      PROVE  /\ x.ok => x.n = Len(b)
             /\ Wide(f) => x = Good(v, Len(b))
  <2>1. /\ \A k : ReadUint(s, p, k).ok => ReadUint(s, p, k).n = Len(b)
        /\ \A k : v <= MaxUint(k) => ReadUint(s, p, k) = Good(v, Len(b))
    BY <1>2, <1>7, UintBack
  <2>2. Wide(f) => v <= MaxUint(f.read)
    BY <1>2 DEF Wide, SizedInts
  <2>3. QED BY <2>1, <2>2
<1> HIDE DEF r, x, b
<1>8. Wrote(b).ok = TRUE /\ Wrote(b).bytes = b
  BY DEF Wrote
<1>9. ASSUME Holds(s, p, b), r.ok PROVE r.n = Len(b) /\ (Wide(f) => r.v = v)
  <2>1. x.ok /\ r.n = x.n /\ r.v = UintOf(x.v, f.w)
    BY <1>4, <1>9 DEF Good
  <2>2. Wide(f) => x.v = v
    BY <1>7, <1>9 DEF Good
  <2>3. QED BY <1>2, <1>7, <1>9, <2>1, <2>2
<1>10. ASSUME Holds(s, p, b), Wide(f) PROVE r.ok
  <2>1. x.ok
    BY <1>7, <1>10 DEF Good
  <2>2. QED BY <1>4, <2>1 DEF Good
<1>11. QED BY <1>3, <1>5, <1>6, <1>8, <1>9, <1>10 DEF Back, r

LEMMA SizedIntBack ==
  ASSUME NEW f, IsField(f), f.kind = "int", NEW v, IsValue(f, v), NEW s \in Seq(Byte), NEW p \in Nat
  PROVE  Back(f, v, s, p)
<1> DEFINE r == ReadField(f, s, p, Zero(f))
           x == ReadInt(s, p, f.read)
           b == Written(WriteInt(v, f.w))
<1>1. f.w \in 1 .. Word /\ v \in Ints(f.w)
  BY DEF IsField, Numbered, IsValue
<1>2. IntOf(v, f.w) = v
  <2>1. f.w \in f.w .. Word
    BY <1>1, Powers
  <2>2. PICK hd : hd.maj = WriteInt(v, f.w).maj /\ hd.extra = WriteInt(v, f.w).extra
    BY Zenon
  <2>3. QED BY <1>1, <2>1, <2>2, IntHeader
<1>3. WriteField(f, v) = Wrote(b)
  BY DEF WriteField, Slices, Nullable
<1>4. /\ x.ok => r = Good(IntOf(x.v, f.w), x.n)
      /\ ~x.ok => ~r.ok
  BY DEF ReadField, Slices, Nullable, Mapped
<1>5. Readable(f, v) /\ Same(f, v) = v
  BY DEF Readable, Same
<1>6. b \in Seq(Byte)
  <2>1. Comes(Wrote(b), TRUE, s, p, ReadInt(s, p, f.w), v)
    BY <1>1, IntComes
  <2>2. QED BY <2>1 DEF Comes, Wrote
<1>7. ASSUME Holds(s, p, b)
      PROVE  /\ x.ok => x.n = Len(b)
             /\ Wide(f) => x = Good(v, Len(b))
  <2>1. /\ \A k \in f.w .. Word : ReadInt(s, p, k) = Good(v, Len(b))
        /\ \A k : ReadInt(s, p, k).ok => ReadInt(s, p, k).n = Len(b)
    BY <1>1, <1>7, IntBack
  <2>2. QED BY <2>1 DEF Wide, SizedInts
<1> HIDE DEF r, x, b
<1>8. Wrote(b).ok = TRUE /\ Wrote(b).bytes = b
  BY DEF Wrote
<1>9. ASSUME Holds(s, p, b), r.ok PROVE r.n = Len(b) /\ (Wide(f) => r.v = v)
  <2>1. x.ok /\ r.n = x.n /\ r.v = IntOf(x.v, f.w)
    BY <1>4, <1>9 DEF Good
  <2>2. Wide(f) => x.v = v
    BY <1>7, <1>9 DEF Good
  <2>3. QED BY <1>2, <1>7, <1>9, <2>1, <2>2
<1>10. ASSUME Holds(s, p, b), Wide(f) PROVE r.ok
  <2>1. x.ok
    BY <1>7, <1>10 DEF Good
  <2>2. QED BY <1>4, <2>1 DEF Good
<1>11. QED BY <1>3, <1>5, <1>6, <1>8, <1>9, <1>10 DEF Back, r

\* A value of a field of any kind that is written anywhere in a stream is read back as
\* it was, and one that its encoder refuses is not read back at all (gen.go:644-691,
\* 1260-1328).
THEOREM FieldBack ==
  ASSUME NEW f, IsField(f), NEW v, IsValue(f, v), NEW s \in Seq(Byte), NEW p \in Nat
  PROVE  Back(f, v, s, p)
<1>1. CASE f.kind \notin SizedInts
  <2> DEFINE w == WriteField(f, v)
             r == ReadField(f, s, p, Zero(f))
  <2>1. Comes(w, Readable(f, v), s, p, r, Same(f, v))
    BY <1>1, FieldComes
  <2> HIDE DEF w, r
  <2>2. w.bytes \in Seq(Byte) /\ w.ok \in BOOLEAN
    BY <2>1 DEF Comes
  <2>3. ASSUME Holds(s, p, w.bytes), r.ok, w.ok \/ p + Len(w.bytes) = Len(s)
        PROVE  w.ok /\ Readable(f, v) /\ r.n = Len(w.bytes) /\ r.v = Same(f, v)
    <3>1. w.ok /\ Readable(f, v)
      BY <2>1, <2>3 DEF Comes
    <3>2. r = Good(Same(f, v), Len(w.bytes))
      BY <2>1, <2>3, <3>1 DEF Comes
    <3>3. QED BY <3>1, <3>2 DEF Good
  <2>4. ASSUME Holds(s, p, w.bytes), w.ok, Readable(f, v) PROVE r.ok
    <3>1. r = Good(Same(f, v), Len(w.bytes))
      BY <2>1, <2>4 DEF Comes
    <3>2. QED BY <3>1 DEF Good
  <2>5. QED BY <2>2, <2>3, <2>4 DEF Back, w, r
<1>2. CASE f.kind \in SizedInts
  BY <1>2, SizedUintBack, SizedIntBack DEF SizedInts
<1>3. QED BY <1>1, <1>2

-----------------------------------------------------------------------------

\* What was read by the decoder that yields r, from s at p, would have been written as
\* the bytes that were taken: w is what is written of it.
Again(w, s, p, r) ==
  r.ok => r.n \in Nat /\ p + r.n <= Len(s) /\ w = Wrote(SubSeq(s, p + 1, p + r.n))

InTwo(s, p, m, n) ==
  SubSeq(s, p + 1, p + m) \o SubSeq(s, (p + m) + 1, (p + m) + n) = SubSeq(s, p + 1, p + (m + n))

LEMMA SliceJoin ==
  ASSUME NEW s \in Seq(Byte), NEW p \in Nat, NEW m \in Nat, NEW n \in Nat, (p + m) + n <= Len(s)
  PROVE  InTwo(s, p, m, n)
<1> DEFINE a == SubSeq(s, p + 1, p + m)
           b == SubSeq(s, (p + m) + 1, (p + m) + n)
<1>1. p + m \in Nat /\ p + m <= Len(s)
  <2>1. Len(s) \in Nat
    BY LenProperties
  <2>2. QED BY <2>1
<1>2. a \in Seq(Byte) /\ Len(a) = m /\ Holds(s, p, a)
  <2>1. a \in Seq(Byte) /\ Len(a) = m
    BY <1>1, SliceOf, Zenon
  <2>2. Holds(s, p, a)
    BY <1>1, <2>1, HeldSlice, Zenon
  <2>3. QED BY <2>1, <2>2
<1>3. b \in Seq(Byte) /\ Len(b) = n /\ Holds(s, p + m, b)
  <2>1. b \in Seq(Byte) /\ Len(b) = n
    BY <1>1, SliceOf, Zenon
  <2>2. Holds(s, p + m, b)
    BY <1>1, <2>1, HeldSlice, Zenon
  <2>3. QED BY <2>1, <2>2
<1> HIDE DEF a, b
<1>4. Holds(s, p, a \o b) /\ a \o b \in Seq(Byte) /\ Len(a \o b) = m + n
  BY <1>2, <1>3, ConcatHeld, ConcatProperties
<1>5. SubSeq(s, p + 1, p + (m + n)) = a \o b
  BY <1>4, HeldSlice
<1>6. QED BY <1>5 DEF InTwo, a, b

\* A header, and what follows it.
LEMMA HeadAgain ==
  ASSUME NEW s \in Seq(Byte), NEW p \in Nat, NEW hd, hd = CborReadHeaderBuf(s, p),
         NEW r, NEW rest, r.ok => hd.ok /\ r = Plus(hd.n, rest),
         NEW body, r.ok => Again(Wrote(body), s, p + hd.n, rest),
         NEW w, r.ok => w = Wrote(WriteMajorTypeHeader(hd.maj, hd.extra) \o body)
  PROVE  Again(w, s, p, r)
<1>1. SUFFICES ASSUME r.ok PROVE r.n \in Nat /\ p + r.n <= Len(s) /\ w = Wrote(SubSeq(s, p + 1, p + r.n))
  BY DEF Again
<1>2. hd.n \in Nat /\ SubSeq(s, p + 1, p + hd.n) = WriteMajorTypeHeader(hd.maj, hd.extra)
  BY <1>1, HeaderRead
<1>3. rest.ok /\ r.n = hd.n + rest.n
  BY <1>1 DEF Plus, Good, Bad
<1>4. rest.n \in Nat /\ (p + hd.n) + rest.n <= Len(s) /\ body = SubSeq(s, (p + hd.n) + 1, (p + hd.n) + rest.n)
  BY <1>1, <1>3 DEF Again, Wrote
<1> PICK m \in Nat, n \in Nat : m = hd.n /\ n = rest.n
  BY <1>2, <1>4
<1>5. WriteMajorTypeHeader(hd.maj, hd.extra) \o body = SubSeq(s, p + 1, p + (m + n))
  <2>1. SubSeq(s, p + 1, p + m) \o SubSeq(s, (p + m) + 1, (p + m) + n) = SubSeq(s, p + 1, p + (m + n))
    <3>1. (p + m) + n <= Len(s)
      BY <1>4
    <3>2. InTwo(s, p, m, n)
      BY <3>1, SliceJoin, Zenon
    <3>3. QED BY <3>2 DEF InTwo
  <2>2. QED BY <1>2, <1>4, <2>1
<1>6. m + n \in Nat /\ p + (m + n) <= Len(s)
  <2>1. PICK l \in Nat : l = Len(s)
    BY LenProperties
  <2>2. (p + m) + n <= l
    BY <1>4, <2>1
  <2>3. p + (m + n) <= l
    BY <2>2
  <2>4. QED BY <2>1, <2>3
<1>7. r.n = m + n
  BY <1>3
<1>8. QED BY <1>1, <1>5, <1>6, <1>7

LEMMA AloneAgain ==
  ASSUME NEW s \in Seq(Byte), NEW p \in Nat, NEW hd, hd = CborReadHeaderBuf(s, p),
         NEW r, NEW v, r.ok => hd.ok /\ r = Plus(hd.n, Good(v, 0)),
         NEW w, r.ok => w = Wrote(WriteMajorTypeHeader(hd.maj, hd.extra))
  PROVE  Again(w, s, p, r)
<1>1. SUFFICES ASSUME r.ok PROVE r.n \in Nat /\ p + r.n <= Len(s) /\ w = Wrote(SubSeq(s, p + 1, p + r.n))
  BY DEF Again
<1>2. hd.n \in Nat /\ p + hd.n <= Len(s) /\ SubSeq(s, p + 1, p + hd.n) = WriteMajorTypeHeader(hd.maj, hd.extra)
  BY <1>1, HeaderRead
<1>3. r.n = hd.n
  BY <1>1, <1>2 DEF Plus, Good
<1>4. QED BY <1>1, <1>2, <1>3

\* The same bytes for another value.
LEMMA OtherAgain ==
  ASSUME NEW s, NEW p, NEW w, NEW r, Again(w, s, p, r), NEW other, NEW w2,
         other.ok => r.ok /\ other.n = r.n /\ w2 = w
  PROVE  Again(w2, s, p, other)
BY DEF Again

LEMMA FullAgain ==
  ASSUME NEW s \in Seq(Byte), NEW p \in Nat, NEW k \in Nat, NEW r, r = ReadFull(s, p, k)
  PROVE  /\ Again(Wrote(r.v), s, p, r)
         /\ r.ok => r.v \in Seq(Byte) /\ Len(r.v) = k
<1>1. CASE p + k <= Len(s)
  <2>1. r = Good(SubSeq(s, p + 1, p + k), k)
    BY <1>1 DEF ReadFull
  <2>2. r.n = k /\ r.v = SubSeq(s, p + 1, p + k)
    BY <2>1 DEF Good
  <2>3. r.v \in Seq(Byte) /\ Len(r.v) = k
    <3> DEFINE b == SubSeq(s, p + 1, p + k)
    <3>1. b \in Seq(Byte) /\ Len(b) = k
      BY <1>1, SliceOf, Zenon
    <3>2. QED BY <2>2, <3>1
  <2>4. QED BY <1>1, <2>2, <2>3 DEF Again
<1>2. CASE ~(p + k <= Len(s))
  BY <1>2 DEF ReadFull, Bad, Again
<1>3. QED BY <1>1, <1>2

\* Numbers.
LEMMA NumberIs ==
  ASSUME NEW x \in Arguments
  PROVE  /\ UintOf(x, Word) = x
         /\ ~Overflows(x, Word) => IntOf(x, Word) = x /\ x \in 0 .. (Pow2(Word - 1) - 1)
<1>1. /\ Word \in 1 .. Word /\ Pow2(Word) = Limit(Len(Widths)) /\ Pow2(Word) \in Nat \ {0}
      /\ Pow2(Word - 1) \in Nat \ {0} /\ Pow2(Word) = 2 * Pow2(Word - 1)
  <2>1. Word \in 1 .. Word /\ Word \in 0 .. Word /\ Word - 1 \in 0 .. Word
    BY Powers
  <2>2. QED BY <2>1, Powers, WordAssumption
<1>2. x \in 0 .. (Pow2(Word) - 1) /\ x \in Nat
  BY <1>1, CodecSizes DEF Arguments
<1>3. x % Pow2(Word) = x
  <2>1. PICK m \in Nat \ {0} : m = Pow2(Word)
    BY <1>1
  <2>2. x \in 0 .. (m - 1) /\ x \in Int
    BY <1>2, <2>1
  <2>3. x % m = x
    BY <2>2, Remainder, Zenon
  <2>4. QED BY <2>1, <2>3
<1>4. UintOf(x, Word) = x
  BY <1>3 DEF UintOf
<1>5. ASSUME ~Overflows(x, Word) PROVE IntOf(x, Word) = x /\ x \in 0 .. (Pow2(Word - 1) - 1)
  <2>1. IntOf(x, Word) = IF x < Pow2(Word - 1) THEN x ELSE x - Pow2(Word)
    BY <1>3 DEF IntOf
  <2>2. ~(IntOf(x, Word) < 0)
    BY <1>5 DEF Overflows
  <2>3. PICK h \in Nat, m \in Nat : h = Pow2(Word - 1) /\ m = Pow2(Word)
    BY <1>1
  <2>4. x \in 0 .. (m - 1) /\ IntOf(x, Word) = (IF x < h THEN x ELSE x - m)
    BY <1>2, <2>1, <2>3
  <2>5. x < h
    BY <2>2, <2>4
  <2>6. QED BY <1>2, <2>3, <2>4, <2>5
<1>6. QED BY <1>4, <1>5

LEMMA IntIs ==
  ASSUME NEW hd, hd.extra \in Arguments, ReadsInt(hd, Word)
  PROVE  LET v == IntRead(hd, Word) IN
         /\ v \in Ints(Word) /\ IntOf(v, Word) = v
         /\ WriteInt(v, Word).maj = hd.maj /\ WriteInt(v, Word).extra = hd.extra
<1> DEFINE x == hd.extra
           v == IntRead(hd, Word)
<1>1. IntOf(x, Word) = x /\ x \in 0 .. (Pow2(Word - 1) - 1)
  BY NumberIs DEF ReadsInt
<1>2. hd.maj \in {MajUnsignedInt, MajNegativeInt}
  BY DEF ReadsInt
<1>3. Word \in 1 .. Word /\ Pow2(Word - 1) \in Nat \ {0}
  <2>1. Word \in 1 .. Word /\ Word - 1 \in 0 .. Word
    BY Powers
  <2>2. QED BY <2>1, Powers
<1>4. v = IF hd.maj = MajUnsignedInt THEN x ELSE -1 - x
  BY <1>1 DEF IntRead
<1>5. v \in Ints(Word)
  <2> HIDE DEF v
  <2>1. PICK h \in Nat \ {0} : h = Pow2(Word - 1)
    BY <1>3
  <2>2. v \in (-h) .. (h - 1)
    BY <1>1, <1>4, <2>1
  <2>3. QED BY <2>1, <2>2 DEF Ints
<1> DEFINE e == WriteInt(v, Word)
<1> HIDE DEF v
<1>6. e.extra \in Arguments /\ ReadsInt(e, Word) /\ IntRead(e, Word) = v /\ IntOf(v, Word) = v
  <2>1. Word \in Word .. Word
    BY <1>3
  <2>2. QED BY <1>3, <1>5, <2>1, IntHeader
<1>7. IntOf(e.extra, Word) = e.extra
  BY <1>6, NumberIs DEF ReadsInt
<1>8. e.maj = IF v >= 0 THEN MajUnsignedInt ELSE MajNegativeInt
  BY DEF WriteInt, WriteUint
<1> HIDE DEF e
<1>9. v = IF e.maj = MajUnsignedInt THEN e.extra ELSE -1 - e.extra
  BY <1>6, <1>7 DEF IntRead
<1>10. e.extra \in Nat /\ x \in Nat
  BY <1>6, CodecSizes
<1>11. e.maj = hd.maj /\ e.extra = x
  <2>1. CASE hd.maj = MajUnsignedInt
    <3>1. v = x /\ v >= 0
      BY <1>4, <1>10, <2>1
    <3>2. QED BY <1>8, <1>9, <2>1, <3>1
  <2>2. CASE hd.maj # MajUnsignedInt
    <3>1. hd.maj = MajNegativeInt /\ v = -1 - x /\ ~(v >= 0)
      BY <1>2, <1>4, <1>10, <2>2
    <3>2. e.maj = MajNegativeInt /\ MajNegativeInt # MajUnsignedInt
      BY <1>8, <3>1 DEF MajNegativeInt, MajUnsignedInt
    <3>3. QED BY <1>9, <1>10, <3>1, <3>2
  <2>3. QED BY <2>1, <2>2
<1>12. QED BY <1>5, <1>6, <1>11 DEF v, e

LEMMA UintAgain ==
  ASSUME NEW s \in Seq(Byte), NEW p \in Nat
  PROVE  /\ Again(Wrote(Written(WriteUint(ReadUint64(s, p).v))), s, p, ReadUint64(s, p))
         /\ Again(Wrote(Written(WriteUint(ReadNarrowed(s, p, Word).v))), s, p, ReadNarrowed(s, p, Word))
         /\ \A w : /\ Again(Wrote(Written(WriteUint(ReadUint(s, p, w).v))), s, p, ReadUint(s, p, w))
                   /\ ReadUint(s, p, w).ok => ReadUint(s, p, w).v \in 0 .. MaxUint(w)
<1> DEFINE hd == CborReadHeaderBuf(s, p)
<1>1. \A v : Written(WriteUint(v)) = WriteMajorTypeHeader(MajUnsignedInt, v)
  BY DEF Written, WriteUint
<1>2. hd.ok => hd.extra \in Arguments /\ hd.extra \in Nat /\ hd.n \in Nat
  BY HeaderRead, CodecSizes
<1>3. Again(Wrote(Written(WriteUint(ReadUint64(s, p).v))), s, p, ReadUint64(s, p))
  <2> DEFINE r == ReadUint64(s, p)
  <2>1. r.ok => hd.ok /\ hd.maj = MajUnsignedInt /\ r = Plus(hd.n, Good(hd.extra, 0)) /\ r.v = hd.extra
    BY DEF ReadUint64, Headed, After, Plus, Good, Bad
  <2> DEFINE w == Wrote(Written(WriteUint(r.v)))
  <2>2. r.ok => w = Wrote(WriteMajorTypeHeader(hd.maj, hd.extra))
    BY <1>1, <2>1
  <2> HIDE DEF r, w
  <2>3. Again(w, s, p, r)
    BY <2>1, <2>2, AloneAgain
  <2>4. QED BY <2>3 DEF r, w
<1>4. Again(Wrote(Written(WriteUint(ReadNarrowed(s, p, Word).v))), s, p, ReadNarrowed(s, p, Word))
  <2> DEFINE r == ReadNarrowed(s, p, Word)
  <2>1. r.ok => hd.ok /\ hd.maj = MajUnsignedInt /\ r = Plus(hd.n, Good(UintOf(hd.extra, Word), 0)) /\ r.v = UintOf(hd.extra, Word)
    BY DEF ReadNarrowed, Headed, After, Plus, Good, Bad
  <2> DEFINE w == Wrote(Written(WriteUint(r.v)))
  <2>2. r.ok => w = Wrote(WriteMajorTypeHeader(hd.maj, hd.extra))
    BY <1>1, <1>2, <2>1, NumberIs
  <2> HIDE DEF r, w
  <2>3. Again(w, s, p, r)
    BY <2>1, <2>2, AloneAgain
  <2>4. QED BY <2>3 DEF r, w
<1>5. ASSUME NEW b
      PROVE  /\ Again(Wrote(Written(WriteUint(ReadUint(s, p, b).v))), s, p, ReadUint(s, p, b))
             /\ ReadUint(s, p, b).ok => ReadUint(s, p, b).v \in 0 .. MaxUint(b)
  <2> DEFINE r == ReadUint(s, p, b)
  <2>1. r.ok => hd.ok /\ hd.maj = MajUnsignedInt /\ hd.extra <= MaxUint(b) /\ r = Plus(hd.n, Good(hd.extra, 0)) /\ r.v = hd.extra
    BY DEF ReadUint, ReadsUint, Headed, After, Plus, Good, Bad
  <2> DEFINE w == Wrote(Written(WriteUint(r.v)))
  <2>2. r.ok => w = Wrote(WriteMajorTypeHeader(hd.maj, hd.extra))
    BY <1>1, <2>1
  <2> HIDE DEF r, w
  <2>3. Again(w, s, p, r)
    BY <2>1, <2>2, AloneAgain
  <2>4. r.ok => r.v \in 0 .. MaxUint(b)
    BY <1>2, <2>1 DEF MaxUint
  <2>5. QED BY <2>3, <2>4 DEF r, w
<1>6. QED BY <1>3, <1>4, <1>5

LEMMA IntAgain ==
  ASSUME NEW s \in Seq(Byte), NEW p \in Nat, NEW r, r = ReadInt(s, p, Word)
  PROVE  /\ Again(Wrote(Written(WriteInt(r.v, Word))), s, p, r)
         /\ r.ok => IntOf(r.v, Word) = r.v
<1> DEFINE hd == CborReadHeaderBuf(s, p)
           v  == IntRead(hd, Word)
           w  == Wrote(Written(WriteInt(r.v, Word)))
<1>1. r.ok => hd.ok /\ ReadsInt(hd, Word) /\ r = Plus(hd.n, Good(v, 0)) /\ r.v = v
  BY DEF ReadInt, Headed, After, Plus, Good, Bad
<1>2. hd.ok => hd.extra \in Arguments
  BY HeaderRead
<1>3. r.ok => IntOf(v, Word) = v /\ WriteInt(v, Word).maj = hd.maj /\ WriteInt(v, Word).extra = hd.extra
  <2> HIDE DEF hd
  <2>1. QED BY <1>1, <1>2, IntIs
<1>4. r.ok => w = Wrote(WriteMajorTypeHeader(hd.maj, hd.extra))
  <2> HIDE DEF v, hd
  <2>1. QED BY <1>1, <1>3 DEF Written
<1> HIDE DEF w, v
<1>5. Again(w, s, p, r)
  BY <1>1, <1>4, AloneAgain
<1>6. QED BY <1>1, <1>3, <1>5 DEF w

LEMMA BoolAgain ==
  ASSUME NEW s \in Seq(Byte), NEW p \in Nat, NEW r, r = ReadBool(s, p)
  PROVE  Again(Wrote(Written(WriteBool(r.v))), s, p, r)
<1> DEFINE hd == CborReadHeaderBuf(s, p)
           w  == Wrote(Written(WriteBool(r.v)))
<1>1. r.ok => hd.ok /\ ReadsBool(hd) /\ r = Plus(hd.n, Good(BoolRead(hd), 0)) /\ r.v = BoolRead(hd)
  BY DEF ReadBool, Headed, After, Plus, Good, Bad
<1>2. r.ok => w = Wrote(WriteMajorTypeHeader(hd.maj, hd.extra))
  <2>1. r.ok => WriteBool(r.v).maj = hd.maj /\ WriteBool(r.v).extra = hd.extra
    BY <1>1 DEF ReadsBool, BoolRead, WriteBool, True, False
  <2>2. QED BY <2>1 DEF Written
<1> HIDE DEF w
<1>3. Again(w, s, p, r)
  BY <1>1, <1>2, AloneAgain
<1>4. QED BY <1>3 DEF w

LEMMA TimeAgain ==
  ASSUME NEW s \in Seq(Byte), NEW p \in Nat, NEW r, r = ReadTime(s, p)
  PROVE  Again(WriteTime(r.v), s, p, r)
<1> PICK q : q = ReadInt(s, p, Word)
  OBVIOUS
<1>1. Again(Wrote(Written(WriteInt(q.v, Word))), s, p, q)
  BY IntAgain, Zenon
<1>2. r.ok => r = q
  BY DEF ReadTime, Uncounted, Bad
<1>3. r.ok => q.ok /\ r.n = q.n /\ WriteTime(r.v) = Wrote(Written(WriteInt(q.v, Word)))
  BY <1>2 DEF WriteTime
<1>4. QED BY <1>1, <1>3, OtherAgain

LEMMA StringAgain ==
  ASSUME NEW s \in Seq(Byte), NEW p \in Nat, NEW r, r = ReadString(s, p)
  PROVE  Again(WriteString(r.v), s, p, r)
<1> DEFINE hd == CborReadHeaderBuf(s, p)
           rest == ReadFull(s, p + hd.n, hd.extra)
<1>1. r.ok => hd.ok /\ hd.maj = MajTextString /\ hd.extra <= MaxLength /\ r = Plus(hd.n, rest)
  BY DEF ReadString, Uncounted, Headed, After, Bad
<1>2. r.ok => hd.n \in Nat /\ hd.extra \in Nat
  BY <1>1, HeaderRead, CodecSizes
<1> HIDE DEF hd
<1>3. r.ok => Again(Wrote(rest.v), s, p + hd.n, rest) /\ (rest.ok => Len(rest.v) = hd.extra)
  BY <1>2, FullAgain
<1>4. r.ok => rest.ok /\ r.v = rest.v
  BY <1>1 DEF Plus, Good, Bad
<1> HIDE DEF rest
<1>5. r.ok => WriteString(r.v) = Wrote(WriteMajorTypeHeader(hd.maj, hd.extra) \o rest.v)
  <2>1. MaxLength \in Nat
    BY CodecSizes
  <2>2. ASSUME r.ok PROVE Len(r.v) = hd.extra /\ ~(hd.extra > MaxLength)
    BY <1>1, <1>2, <1>3, <1>4, <2>1, <2>2
  <2>3. QED BY <1>1, <1>4, <2>2 DEF WriteString, WriteSized
<1>6. QED BY <1>1, <1>3, <1>5, HeadAgain DEF hd

LEMMA BytesAgain ==
  ASSUME NEW s \in Seq(Byte), NEW p \in Nat, NEW r, r = ReadBytes(s, p, << >>) \/ \E k : r = ReadBytesOf(s, p, k)
  PROVE  Again(WriteBytes(r.v), s, p, r)
<1> DEFINE hd == CborReadHeaderBuf(s, p)
           rest == ReadFull(s, p + hd.n, hd.extra)
<1>1. r.ok => hd.ok /\ hd.maj = MajByteString /\ hd.extra <= ByteArrayMaxLen /\ r = Plus(hd.n, rest)
  <2>1. Len(<< >>) = 0
    OBVIOUS
  <2>2. hd.ok => hd.extra \in Nat
    BY HeaderRead, CodecSizes
  <2>3. hd.ok => (IF hd.extra > 0 THEN hd.extra ELSE Len(<< >>)) = hd.extra
    BY <2>1, <2>2
  <2>4. CASE r = ReadBytes(s, p, << >>)
    BY <2>3, <2>4 DEF ReadBytes, Headed, After, Bad
  <2>5. CASE \E k : r = ReadBytesOf(s, p, k)
    BY <2>5 DEF ReadBytesOf, Headed, After, Bad
  <2>6. QED BY <2>4, <2>5
<1>2. r.ok => hd.n \in Nat /\ hd.extra \in Nat
  BY <1>1, HeaderRead, CodecSizes
<1> HIDE DEF hd
<1>3. r.ok => Again(Wrote(rest.v), s, p + hd.n, rest) /\ (rest.ok => Len(rest.v) = hd.extra)
  BY <1>2, FullAgain
<1>4. r.ok => rest.ok /\ r.v = rest.v
  BY <1>1 DEF Plus, Good, Bad
<1> HIDE DEF rest
<1>5. r.ok => WriteBytes(r.v) = Wrote(WriteMajorTypeHeader(hd.maj, hd.extra) \o rest.v)
  <2>1. ByteArrayMaxLen \in Nat
    BY CodecSizes
  <2>2. ASSUME r.ok PROVE Len(r.v) = hd.extra /\ ~(hd.extra > ByteArrayMaxLen)
    BY <1>1, <1>2, <1>3, <1>4, <2>1, <2>2
  <2>3. QED BY <1>1, <1>4, <2>2 DEF WriteBytes, WriteSized
<1>6. QED BY <1>1, <1>3, <1>5, HeadAgain DEF hd

LEMMA StructAgain ==
  ASSUME NEW s \in Seq(Byte), NEW p \in Nat, NEW r, r = ReadStruct(s, p)
  PROVE  Again(WriteStruct(r.v), s, p, r)
<1> DEFINE hd == CborReadHeaderBuf(s, p)
           rest == ReadInt(s, p + hd.n, Word)
<1>1. r.ok => hd.ok /\ hd.maj = MajArray /\ hd.extra = 1 /\ r = Plus(hd.n, rest)
  BY DEF ReadStruct, Uncounted, Headed, After, Bad
<1>2. r.ok => hd.n \in Nat
  BY <1>1, HeaderRead
<1> HIDE DEF hd
<1> DEFINE body == Written(WriteInt(rest.v, Word))
<1>3. r.ok => Again(Wrote(body), s, p + hd.n, rest)
  BY <1>2, IntAgain
<1>4. r.ok => r.v = rest.v
  BY <1>1 DEF Plus, Good, Bad
<1>5. r.ok => WriteStruct(r.v) = Wrote(WriteMajorTypeHeader(hd.maj, hd.extra) \o body)
  <2>1. r.ok => WriteTime(r.v).bytes = body
    BY <1>4 DEF WriteTime, Wrote
  <2> HIDE DEF rest, body
  <2>2. QED BY <1>1, <2>1 DEF WriteStruct
<1> HIDE DEF rest, body
<1>6. QED BY <1>1, <1>3, <1>5, HeadAgain DEF hd

\* Concatenation associates, said by name: the steps that use it match a name.
Associates(a, b, c) == (a \o b) \o c = a \o (b \o c)

LEMMA ThreeJoined ==
  ASSUME NEW a \in Seq(Byte), NEW b \in Seq(Byte), NEW c \in Seq(Byte)
  PROVE  Associates(a, b, c)
<1>1. (a \o b) \o c = a \o (b \o c)
  BY ConcatAssociative
<1>2. QED BY <1>1, Zenon DEF Associates

JoinedInOrder(a, b, z, c) == ((a \o b) \o z) \o c = a \o (b \o (z \o c))

LEMMA FourJoined ==
  ASSUME NEW a \in Seq(Byte), NEW b \in Seq(Byte), NEW z \in Seq(Byte), NEW c \in Seq(Byte)
  PROVE  JoinedInOrder(a, b, z, c)
<1>1. a \o b \in Seq(Byte) /\ z \o c \in Seq(Byte)
  BY ConcatProperties
<1>2. Associates(a \o b, z, c)
  BY <1>1, ThreeJoined, Zenon
<1>3. Associates(a, b, z \o c)
  BY <1>1, ThreeJoined, Zenon
<1>4. QED BY <1>2, <1>3, Zenon DEF JoinedInOrder, Associates

LEMMA CidAgain ==
  ASSUME NEW s \in Seq(Byte), NEW p \in Nat, NEW r, r = ReadCid(s, p)
  PROVE  Again(WriteCid(r.v), s, p, r)
<1> SUFFICES ASSUME r.ok PROVE Again(WriteCid(r.v), s, p, r)
  BY DEF Again
<1> DEFINE hd    == CborReadHeaderBuf(s, p)
           inner == ReadByteArray(s, p + hd.n)
           buf   == Headed(s, p, LAMBDA h : h.maj = MajTag /\ h.extra = LinkTag,
                                 LAMBDA h : ReadByteArray(s, p + h.n))
<1>1. buf.ok /\ Len(buf.v) >= 2 /\ buf.v[1] = 0 /\ IsCid(Tail(buf.v)) /\ r = Good(Tail(buf.v), buf.n)
  BY DEF ReadCid, bufToCid, Bad
<1>2. hd.ok /\ hd.maj = MajTag /\ hd.extra = LinkTag /\ buf = Plus(hd.n, inner)
  BY <1>1 DEF Headed, After, Bad
<1>3. inner.ok /\ buf.v = inner.v
  BY <1>1, <1>2 DEF Plus, Good, Bad
<1>4. hd.n \in Nat
  BY <1>2, HeaderRead
<1> PICK q \in Nat : q = p + hd.n
  BY <1>4
<1> DEFINE hd2  == CborReadHeaderBuf(s, q)
           full == ReadFull(s, q + hd2.n, hd2.extra)
<1>5. hd2.ok /\ hd2.maj = MajByteString /\ inner = Plus(hd2.n, full)
  BY <1>3 DEF ReadByteArray, Headed, After, Bad
<1>6. hd2.n \in Nat /\ hd2.extra \in Nat
  BY <1>5, HeaderRead, CodecSizes
<1>7. full.ok /\ inner.v = full.v
  BY <1>3, <1>5 DEF Plus, Good, Bad
<1>8. Again(Wrote(full.v), s, q + hd2.n, full) /\ full.v \in Seq(Byte) /\ Len(full.v) = hd2.extra
  <2>1. PICK a \in Nat, k \in Nat : a = q + hd2.n /\ k = hd2.extra
    BY <1>6
  <2>2. Again(Wrote(full.v), s, a, full) /\ (full.ok => full.v \in Seq(Byte) /\ Len(full.v) = k)
    BY <2>1, FullAgain
  <2>3. QED BY <1>7, <2>1, <2>2
<1> DEFINE tag  == WriteMajorTypeHeader(MajTag, LinkTag)
           head == WriteMajorTypeHeader(MajByteString, hd2.extra)
           c    == Tail(full.v)
<1>9. Again(Wrote(head \o full.v), s, q, inner)
  <2> DEFINE w == Wrote(head \o full.v)
             body == full.v
  <2>1. w = Wrote(WriteMajorTypeHeader(hd2.maj, hd2.extra) \o body)
    BY <1>5
  <2> HIDE DEF w, body
  <2>2. Again(Wrote(body), s, q + hd2.n, full)
    BY <1>8 DEF body
  <2> HIDE DEF full, inner
  <2>3. Again(w, s, q, inner)
    BY <1>5, <2>1, <2>2, HeadAgain
  <2>4. QED BY <2>3 DEF w, body
<1> HIDE DEF inner, full, hd2
<1>10. Again(Wrote(tag \o (head \o full.v)), s, p, buf)
  <2> DEFINE w == Wrote(tag \o (head \o full.v))
             body == head \o full.v
  <2>1. w = Wrote(WriteMajorTypeHeader(hd.maj, hd.extra) \o body)
    BY <1>2
  <2> HIDE DEF w, body
  <2>2. Again(Wrote(body), s, p + hd.n, inner)
    BY <1>9 DEF body
  <2> HIDE DEF buf
  <2>3. Again(w, s, p, buf)
    BY <1>2, <2>1, <2>2, HeadAgain
  <2>4. QED BY <2>3 DEF w, body
<1> HIDE DEF buf
<1>11. r.v = c /\ r.n = buf.n
  BY <1>1, <1>3, <1>7 DEF Good
<1>12. Len(c) + 1 = hd2.extra /\ full.v = << 0 >> \o c /\ c \in Seq(Byte) /\ c # << >>
  <2>1. full.v[1] = 0 /\ Len(full.v) >= 2 /\ IsCid(c)
    BY <1>1, <1>3, <1>7
  <2>2. c \in Seq(Byte) /\ Len(c) = Len(full.v) - 1 /\ \A e \in 1 .. Len(c) : c[e] = full.v[e + 1]
    <3>1. full.v # << >>
      BY <2>1
    <3>2. QED BY <1>8, <3>1, HeadTailProperties
  <2>3. full.v = << 0 >> \o c
    <3>1. PICK b \in Seq(Byte) : b = full.v
      BY <1>8
    <3>2. b = << Head(b) >> \o Tail(b)
      BY <2>1, <3>1
    <3>3. Head(b) = 0
      BY <2>1, <3>1
    <3>4. QED BY <3>1, <3>2, <3>3
  <2>4. c # << >>
    BY <2>1, CodecAssumption
  <2>5. QED BY <1>6, <1>8, <2>2, <2>3, <2>4
<1> HIDE DEF c
<1>13. WriteCid(c) = Wrote(tag \o (head \o full.v))
  <2>1. WriteCid(c) = Wrote(((tag \o head) \o << 0 >>) \o c)
    BY <1>12 DEF WriteCid
  <2>2. tag \in Seq(Byte) /\ head \in Seq(Byte)
    <3>1. {MajTag, MajByteString} \subseteq Majors /\ LinkTag \in Arguments
      BY CodecSizes
    <3>2. hd2.extra \in Arguments
      BY <1>5, HeaderRead DEF hd2
    <3>3. QED BY <3>1, <3>2, WriteType
  <2>3. << 0 >> \in Seq(Byte)
    <3>1. Radix \in Nat /\ Radix # 0
      BY Sizes DEF Radix
    <3>2. PICK z \in Byte : z = 0
      BY <3>1 DEF Byte
    <3>3. << z >> \in Seq(Byte)
      OBVIOUS
    <3>4. QED BY <3>2, <3>3, Zenon
  <2> HIDE DEF tag, head
  <2>4. PICK z \in Seq(Byte) : z = << 0 >>
    BY <2>3
  <2>5. c \in Seq(Byte)
    BY <1>12
  <2>6. JoinedInOrder(tag, head, z, c)
    BY <2>2, <2>5, FourJoined, Zenon
  <2>7. ((tag \o head) \o << 0 >>) \o c = tag \o (head \o (<< 0 >> \o c))
    BY <2>4, <2>6, Zenon DEF JoinedInOrder
  <2>8. << 0 >> \o c = full.v
    BY <1>12
  <2>9. QED BY <2>1, <2>7, <2>8, Zenon
<1> HIDE DEF tag, head
<1>14. QED BY <1>1, <1>10, <1>11, <1>13, OtherAgain

LEMMA CborCidAgain ==
  ASSUME NEW s \in Seq(Byte), NEW p \in Nat, NEW r, r = ReadCborCid(s, p)
  PROVE  Again(WriteCborCid(r.v), s, p, r)
<1> PICK q : q = ReadCid(s, p)
  OBVIOUS
<1>1. Again(WriteCid(q.v), s, p, q)
  BY CidAgain, Zenon
<1>2. r.ok => r = q
  BY DEF ReadCborCid, Uncounted, Bad
<1>3. r.ok => q.ok /\ r.n = q.n /\ WriteCborCid(r.v) = WriteCid(q.v)
  BY <1>2 DEF WriteCborCid
<1>4. QED BY <1>1, <1>3, OtherAgain

LEMMA DeferredAgain ==
  ASSUME NEW s \in Seq(Byte), NEW p \in Nat, p <= Len(s), NEW r, r = ReadDeferred(s, p)
  PROVE  Again(WriteRaw(r.v), s, p, r)
<1> SUFFICES ASSUME r.ok PROVE Again(WriteRaw(r.v), s, p, r)
  BY DEF Again
<1> DEFINE item == ItemAt(s, p)
<1>1. item.ok /\ r.v = SubSeq(s, p + 1, item.end) /\ r.n = item.end - p
  BY DEF ReadDeferred, RawOf, Good, Bad
<1>2. r.n \in Nat \ {0} /\ p + r.n <= Len(s)
  <2> PICK z \in Seq(Byte), q \in Nat : z = << >> /\ q = 0 /\ Len(z) = 0
    <3>1. << >> \in Seq(Byte) /\ Len(<< >>) = 0
      BY EmptySeq
    <3>2. QED BY <3>1
  <2>1. q <= Len(z) /\ Len(z) <= q
    OBVIOUS
  <2>2. Local(r, s, p, ReadDeferred(z, q), z, q)
    BY <2>1, DeferredLocal
  <2>3. ~ReadDeferred(z, q).ok
    <3>1. ~CborReadHeaderBuf(z, q).ok
      BY <2>1, NoneAtTheEnd, Zenon
    <3>2. q \in 0 .. Len(z)
      BY <2>1
    <3>3. ~ItemAt(z, q).ok
      BY <3>1, <3>2, NoItem, Zenon
    <3>4. QED BY <3>3 DEF ReadDeferred, RawOf, Bad
  <2>5. Local(r, s, p, ReadDeferred(z, q), << >>, 0)
    BY <2>2
  <2>4. r.n \in Nat \ {0}
    BY <2>5, <2>3, Something
  <2>6. QED BY <2>2, <2>4 DEF Local, Takes
<1>3. r.v = SubSeq(s, p + 1, p + r.n)
  <2>1. item.end \in Int
    <3>1. Len(s) \in Nat /\ p \in 0 .. Len(s)
      BY LenProperties
    <3>2. item \in Yields(Byte, p, Len(s))
      BY <3>1, HeadsOfItems, Recursion DEF Solves, ItemAt
    <3>3. QED BY <1>1, <3>1, <3>2 DEF Yields
  <2> HIDE DEF item
  <2>2. p + (item.end - p) = item.end
    BY <2>1
  <2>3. QED BY <1>1, <2>2
<1> PICK n \in Nat \ {0} : n = r.n
  BY <1>2
<1>4. r.v # << >>
  <2> DEFINE b == SubSeq(s, p + 1, p + n)
  <2>1. Len(b) = n
    BY <1>2, SliceOf, Zenon
  <2>2. Len(<< >>) = 0
    OBVIOUS
  <2> HIDE DEF b
  <2>3. b # << >>
    BY <2>1, <2>2
  <2>4. QED BY <1>3, <2>3 DEF b
<1>5. WriteRaw(r.v) = Wrote(r.v)
  BY <1>4 DEF WriteRaw
<1>6. QED BY <1>2, <1>3, <1>5 DEF Again

LEMMA SumWithin ==
  ASSUME NEW p \in Nat, NEW a \in Nat, NEW n \in Nat, NEW l \in Nat, p + (a + n) <= l
  PROVE  p + a <= l /\ (p + a) + n <= l /\ p + a \in Nat
OBVIOUS

\* One after the other, what is written is head and n bytes of s.
Joins(head, ws, s, p, n) == All(head, ws) = Wrote(head \o SubSeq(s, p + 1, p + n))

LEMMA AlongAgain ==
  ASSUME NEW s \in Seq(Byte), NEW p \in Nat, NEW head \in Seq(Byte), NEW ws, NEW k \in Nat, Len(ws) = k,
         NEW read, NEW at, Along(p, k, read, at), \A j \in 0 .. k : p + at[j] <= Len(s),
         \A j \in 1 .. k : Again(ws[j], s, p + at[j - 1], read[p + at[j - 1]])
  PROVE  Joins(head, ws, s, p, at[k])
<1>1. PICK put : IsAll(put, head, ws, k)
  BY AllIs, Zenon
<1> DEFINE Up(j) == put[j] = Wrote(head \o SubSeq(s, p + 1, p + at[j]))
           S == { j \in 0 .. k : Up(j) }
<1>2. 0 \in S
  <2>1. at[0] = 0 /\ put[0] = Wrote(head)
    BY <1>1 DEF Along, IsAll
  <2>2. p + at[0] = p /\ p + 0 <= Len(s)
    BY <2>1
  <2> DEFINE none == SubSeq(s, p + 1, p + 0)
  <2>3. none \in Seq(Byte) /\ Len(none) = 0
    BY <2>2, SliceOf
  <2> HIDE DEF none
  <2>4. none = << >>
    BY <2>3, EmptySeq
  <2>5. head \o << >> = head
    BY ConcatEmptySeq
  <2>6. SubSeq(s, p + 1, p + at[0]) = << >>
    BY <2>1, <2>4 DEF none
  <2>7. Up(0)
    BY <2>1, <2>5, <2>6, Zenon
  <2>9. 0 \in 0 .. k
    OBVIOUS
  <2> HIDE DEF Up
  <2>8. QED BY <2>7, <2>9
<1>3. ASSUME NEW j \in 0 .. (k - 1), j \in S PROVE j + 1 \in S
  <2>1. j + 1 \in 1 .. k /\ (j + 1) - 1 = j /\ j + 1 \in 0 .. k /\ j \in 0 .. k
    OBVIOUS
  <2> DEFINE r == read[p + at[j]]
  <2>2. at[j] \in Nat /\ r.ok /\ at[j + 1] = at[j] + r.n /\ p + at[j + 1] <= Len(s)
    BY <2>1 DEF Along
  <2>3. Again(ws[j + 1], s, p + at[j], r)
    BY <2>1
  <2>4. r.n \in Nat /\ ws[j + 1] = Wrote(SubSeq(s, (p + at[j]) + 1, (p + at[j]) + r.n))
    BY <2>2, <2>3 DEF Again
  <2>5. put[j + 1] = AndThen(put[j], ws[j + 1])
    BY <1>1, <2>1 DEF IsAll
  <2> HIDE DEF r
  <2> PICK a \in Nat, n \in Nat : a = at[j] /\ n = r.n
    BY <2>2, <2>4
  <2> DEFINE A == SubSeq(s, p + 1, p + a)
             B == SubSeq(s, (p + a) + 1, (p + a) + n)
  <2>6. p + a <= Len(s) /\ (p + a) + n <= Len(s) /\ p + at[j + 1] = p + (a + n) /\ p + a \in Nat
    <3>1. PICK l \in Nat : l = Len(s)
      BY LenProperties
    <3> PICK b : b = at[j + 1]
      OBVIOUS
    <3>2. b = a + n /\ p + b <= l
      BY <2>2, <3>1
    <3>3. p + (a + n) <= l
      BY <3>2
    <3>4. p + a <= l /\ (p + a) + n <= l /\ p + a \in Nat
      BY <3>3, SumWithin, Zenon
    <3>5. p + at[j + 1] = p + (a + n)
      BY <3>2
    <3>6. QED BY <3>1, <3>4, <3>5, Zenon
  <2>7. A \in Seq(Byte) /\ B \in Seq(Byte)
    BY <2>6, SliceOf, Zenon
  <2>8. A \o B = SubSeq(s, p + 1, p + (a + n))
    <3>1. InTwo(s, p, a, n)
      BY <2>6, SliceJoin, Zenon
    <3>2. QED BY <3>1 DEF InTwo
  <2>9. put[j] = Wrote(head \o A) /\ ws[j + 1] = Wrote(B)
    BY <1>3, <2>4
  <2> HIDE DEF A, B
  <2>10. put[j + 1] = Wrote((head \o A) \o B)
    BY <2>5, <2>9 DEF AndThen, Wrote
  <2>11. (head \o A) \o B = head \o (A \o B)
    BY <2>7, Joined
  <2>12. Up(j + 1)
    BY <2>6, <2>8, <2>10, <2>11
  <2>13. QED BY <2>1, <2>12
<1>4. \A j \in 0 .. k : j \in S
  <2> HIDE DEF S
  <2>1. QED BY <1>2, <1>3, Upward
<1>5. k \in 0 .. k
  OBVIOUS
<1>6. QED BY <1>1, <1>4, <1>5 DEF IsAll, Joins

\* What each position holds is taken from the bytes; and ws is what is written of the
\* values, if they were read from any positions.
Within(s, read) == \A q \in 0 .. Len(s) : Takes(read[q], s, q)
Rewrites(ws, vals, s, read) ==
  /\ ws = [j \in DOMAIN vals |-> ws[j]]
  /\ \A j \in DOMAIN vals : \A q \in 0 .. Len(s) : vals[j] = read[q].v => Again(ws[j], s, q, read[q])

\* There are k of them, and what is read of them is what they write after head.
Listed(head, ws, s, p, k, r) ==
  Len(ws) = k /\ r.n \in Nat /\ p + r.n <= Len(s) /\ Joins(head, ws, s, p, r.n)

LEMMA ElementsAgain ==
  ASSUME NEW s \in Seq(Byte), NEW p \in Nat, p <= Len(s), NEW head \in Seq(Byte), NEW k \in Nat,
         NEW read, Within(s, read), NEW r, r = Elements(p, k, read), r.ok,
         NEW ws, Rewrites(ws, r.v, s, read)
  PROVE  Listed(head, ws, s, p, k, r)
<1>1. Len(s) \in Nat /\ p \in 0 .. Len(s)
  BY LenProperties
<1>2. PICK at : Along(p, k, read, at) /\ \A j \in 0 .. k : p + at[j] <= Len(s)
  <2>1. \A q \in 0 .. Len(s) : read[q].ok => read[q].n \in Nat /\ q + read[q].n <= Len(s)
    BY DEF Within, Takes
  <2>2. QED BY <1>1, <2>1, ElementsRead
<1> DEFINE vals == [j \in 1 .. k |-> read[p + at[j - 1]].v]
<1>3. r = Good(vals, at[k])
  BY <1>2, ElementsAlong
<1>4. r.v = vals /\ r.n = at[k] /\ DOMAIN vals = 1 .. k
  BY <1>3 DEF Good
<1>5. Len(ws) = k
  <2>1. ws = [j \in 1 .. k |-> ws[j]]
    BY <1>4 DEF Rewrites
  <2>2. QED BY <2>1
<1>6. ASSUME NEW j \in 1 .. k PROVE Again(ws[j], s, p + at[j - 1], read[p + at[j - 1]])
  <2>1. j - 1 \in 0 .. k
    OBVIOUS
  <2>2. at[j - 1] \in Nat /\ p + at[j - 1] <= Len(s)
    BY <1>2, <2>1 DEF Along
  <2>3. PICK q \in 0 .. Len(s) : q = p + at[j - 1]
    BY <1>1, <2>2
  <2>4. vals[j] = read[q].v
    BY <2>3
  <2> HIDE DEF vals
  <2>5. Again(ws[j], s, q, read[q])
    BY <1>4, <2>4 DEF Rewrites
  <2>6. QED BY <2>3, <2>5
<1>7. at[k] \in Nat /\ p + at[k] <= Len(s)
  BY <1>2 DEF Along
<1>8. Joins(head, ws, s, p, at[k])
  BY <1>2, <1>5, <1>6, AlongAgain, Zenon
<1> HIDE DEF vals
<1>9. QED BY <1>4, <1>5, <1>7, <1>8 DEF Listed

\* An array of them.
LEMMA ListAgain ==
  ASSUME NEW s \in Seq(Byte), NEW p \in Nat, NEW read, Within(s, read), NEW hd, hd = CborReadHeaderBuf(s, p), NEW r,
         r.ok => /\ hd.ok /\ hd.maj = MajArray /\ hd.extra <= MaxLength
                 /\ r = Plus(hd.n, Elements(p + hd.n, hd.extra, read)),
         NEW ws, r.ok => Rewrites(ws, r.v, s, read)
  PROVE  Again(WriteElements(ws), s, p, r)
<1>1. SUFFICES ASSUME r.ok PROVE Again(WriteElements(ws), s, p, r)
  BY DEF Again
<1>2. hd.n \in Nat /\ p + hd.n <= Len(s) /\ hd.extra \in Nat /\ hd.extra \in Arguments
  BY <1>1, HeaderRead, CodecSizes
<1> DEFINE rest == Elements(p + hd.n, hd.extra, read)
           head == WriteMajorTypeHeader(MajArray, hd.extra)
<1>3. rest.ok /\ r.v = rest.v
  BY <1>1 DEF Plus, Good, Bad
<1>4. head \in Seq(Byte)
  <2>1. MajArray \in Majors
    BY CodecSizes
  <2>2. QED BY <1>2, <2>1, WriteType
<1> PICK q \in Nat, k \in Nat : q = p + hd.n /\ k = hd.extra
  BY <1>2
<1> DEFINE body == SubSeq(s, q + 1, q + rest.n)
<1>5. Len(ws) = k /\ rest.n \in Nat /\ q + rest.n <= Len(s) /\ All(head, ws) = Wrote(head \o body)
  <2>1. Rewrites(ws, rest.v, s, read)
    BY <1>1, <1>3
  <2>2. q <= Len(s) /\ rest = Elements(q, k, read)
    BY <1>2
  <2> HIDE DEF rest, head
  <2>3. PICK h \in Seq(Byte) : h = head
    BY <1>4
  <2>0. PICK x : x = rest
    OBVIOUS
  <2>4. x.ok /\ x = Elements(q, k, read) /\ q <= Len(s) /\ Rewrites(ws, x.v, s, read)
    BY <1>3, <2>1, <2>2, <2>0
  <2>5. Listed(h, ws, s, q, k, x)
    BY <2>4, ElementsAgain, Zenon
  <2>6. QED BY <2>0, <2>3, <2>5 DEF Listed, Joins
<1>6. Again(Wrote(body), s, p + hd.n, rest)
  <2> HIDE DEF rest
  <2>1. QED BY <1>5 DEF Again
<1>7. WriteElements(ws) = Wrote(WriteMajorTypeHeader(hd.maj, hd.extra) \o body)
  <2> HIDE DEF body
  <2>1. ~(Len(ws) > MaxLength)
    <3>1. MaxLength \in Nat
      BY CodecSizes
    <3>2. QED BY <1>1, <1>2, <1>5, <3>1
  <2>2. QED BY <1>1, <1>5, <2>1 DEF WriteElements
<1> HIDE DEF rest, body
<1>8. QED BY <1>1, <1>6, <1>7, HeadAgain DEF rest

\* Arrays of numbers.
LEMMA NumbersAgain ==
  ASSUME NEW s \in Seq(Byte), NEW p \in Nat, NEW read,
         \/ read = [q \in 0 .. Len(s) |-> ReadNarrowed(s, q, Word)]
         \/ read = [q \in 0 .. Len(s) |-> ReadUint64(s, q)],
         NEW hd, hd = CborReadHeaderBuf(s, p), NEW r,
         r.ok => /\ hd.ok /\ hd.maj = MajArray /\ hd.extra <= MaxLength
                 /\ r = Plus(hd.n, Elements(p + hd.n, hd.extra, read)),
         NEW ws, r.ok => ws = [j \in DOMAIN r.v |-> Wrote(Written(WriteUint(r.v[j])))]
  PROVE  Again(WriteElements(ws), s, p, r)
<1>1. ASSUME NEW q \in 0 .. Len(s)
      PROVE  Again(Wrote(Written(WriteUint(read[q].v))), s, q, read[q]) /\ Takes(read[q], s, q)
  <2>1. q \in Nat
    BY <1>1
  <2>2. Again(Wrote(Written(WriteUint(read[q].v))), s, q, read[q])
    <3>1. read[q] = ReadNarrowed(s, q, Word) \/ read[q] = ReadUint64(s, q)
      OBVIOUS
    <3>2. QED BY <2>1, <3>1, UintAgain
  <2>3. Takes(read[q], s, q)
    <3>1. Local(ReadNarrowed(s, q, Word), s, q, ReadNarrowed(s, q, Word), s, q)
      BY <2>1, NarrowedLocal
    <3>2. Local(ReadUint64(s, q), s, q, ReadUint64(s, q), s, q)
      BY <2>1, Uint64Local
    <3>3. read[q] = ReadNarrowed(s, q, Word) \/ read[q] = ReadUint64(s, q)
      OBVIOUS
    <3>4. QED BY <3>1, <3>2, <3>3 DEF Local
  <2>4. QED BY <2>2, <2>3
<1>2. Within(s, read)
  BY <1>1 DEF Within
<1>3. r.ok => Rewrites(ws, r.v, s, read)
  <2>1. SUFFICES ASSUME r.ok PROVE Rewrites(ws, r.v, s, read)
    OBVIOUS
  <2>2. ws = [j \in DOMAIN r.v |-> ws[j]] /\ \A j \in DOMAIN r.v : ws[j] = Wrote(Written(WriteUint(r.v[j])))
    BY <2>1
  <2>3. ASSUME NEW j \in DOMAIN r.v, NEW q \in 0 .. Len(s), r.v[j] = read[q].v PROVE Again(ws[j], s, q, read[q])
    BY <1>1, <2>2, <2>3
  <2>4. QED BY <2>2, <2>3 DEF Rewrites
<1>4. QED BY <1>2, <1>3, ListAgain

\* A slice of bytes that is empty, or is not, from ReadElements.
LEMMA SomeRead ==
  ASSUME NEW s \in Seq(Byte), NEW p \in Nat, NEW read, NEW hd, hd = CborReadHeaderBuf(s, p),
         NEW r, r = ReadElements(s, p, << >>, read)
  PROVE  r.ok => /\ hd.ok /\ hd.maj = MajArray /\ hd.extra <= MaxLength
                 /\ r = Plus(hd.n, Elements(p + hd.n, hd.extra, read))
<1>1. r.ok => /\ hd.ok /\ hd.maj = MajArray /\ hd.extra <= MaxLength
              /\ r = Plus(hd.n, IF hd.extra = 0 THEN Good(<< >>, 0) ELSE Elements(p + hd.n, hd.extra, read))
  BY DEF ReadElements, Headed, After, Bad
<1>2. hd.extra = 0 => Elements(p + hd.n, hd.extra, read) = Good(<< >>, 0)
  BY NoElements
<1>3. QED BY <1>1, <1>2

\* An element of a slice.
LEMMA ElementAgain ==
  ASSUME NEW f, f.kind \in Slices, f.kind \in Numbered => f.w = Word, NEW s \in Seq(Byte), NEW p \in Nat,
         NEW r, r = ReadElement(f, s, p)
  PROVE  Again(WriteElement(f, r.v), s, p, r)
<1>1. CASE f.kind = "[]uint"
  <2>1. r = ReadNarrowed(s, p, Word) /\ WriteElement(f, r.v) = Wrote(Written(WriteUint(r.v)))
    BY <1>1 DEF ReadElement, WriteElement, Numbered
  <2>2. QED BY <2>1, UintAgain
<1>2. CASE f.kind = "[]int"
  <2>1. r = ReadInt(s, p, Word) /\ WriteElement(f, r.v) = Wrote(Written(WriteInt(r.v, Word)))
    BY <1>2 DEF ReadElement, WriteElement, Numbered
  <2>2. QED BY <2>1, IntAgain
<1>3. CASE f.kind = "[]bytes"
  <2>1. r = ReadBytes(s, p, << >>) /\ WriteElement(f, r.v) = WriteBytes(r.v)
    BY <1>3 DEF ReadElement, WriteElement
  <2>2. QED BY <2>1, BytesAgain
<1>4. CASE f.kind = "[]struct"
  <2>1. r = ReadStruct(s, p) /\ WriteElement(f, r.v) = WriteStruct(r.v)
    BY <1>4 DEF ReadElement, WriteElement
  <2>2. QED BY <2>1, StructAgain
<1>5. CASE f.kind = "[]*struct"
  <2> DEFINE q == ReadStruct(s, p)
  <2>1. r = IF q.ok THEN Good(<< q.v >>, q.n) ELSE q
    BY <1>5 DEF ReadElement, Mapped
  <2>2. Again(WriteStruct(q.v), s, p, q)
    BY StructAgain
  <2> HIDE DEF q
  <2>3. r.ok => q.ok /\ r.n = q.n /\ r.v = << q.v >>
    BY <2>1 DEF Good
  <2>4. r.ok => WriteElement(f, r.v) = WriteStruct(q.v)
    <3>1. SUFFICES ASSUME r.ok PROVE WriteElement(f, r.v) = WriteStruct(q.v)
      OBVIOUS
    <3>2. WriteElement(f, r.v) = WriteStructPointer(r.v)
      BY <1>5 DEF WriteElement
    <3>3. r.v # << >> /\ r.v[1] = q.v
      BY <2>3, <3>1
    <3>4. QED BY <3>2, <3>3 DEF WriteStructPointer
  <2>5. QED BY <2>2, <2>3, <2>4, OtherAgain
<1>6. CASE f.kind = "[][]uint"
  <2> DEFINE read == [q \in 0 .. Len(s) |-> ReadNarrowed(s, q, Word)]
             ws   == [j \in DOMAIN r.v |-> Wrote(Written(WriteUint(r.v[j])))]
             hd   == CborReadHeaderBuf(s, p)
  <2>1. r = ReadElements(s, p, << >>, read) /\ WriteElement(f, r.v) = WriteElements(ws)
    BY <1>6 DEF ReadElement, WriteElement, Numbered
  <2>2. read = [q \in 0 .. Len(s) |-> ReadNarrowed(s, q, Word)] /\ (r.ok => ws = [j \in DOMAIN r.v |-> Wrote(Written(WriteUint(r.v[j])))])
    OBVIOUS
  <2> HIDE DEF read, ws
  <2>3. r.ok => /\ hd.ok /\ hd.maj = MajArray /\ hd.extra <= MaxLength
                /\ r = Plus(hd.n, Elements(p + hd.n, hd.extra, read))
    BY <2>1, SomeRead
  <2>4. Again(WriteElements(ws), s, p, r)
    BY <2>2, <2>3, NumbersAgain
  <2>5. QED BY <2>1, <2>4
<1>7. QED BY <1>1, <1>2, <1>3, <1>4, <1>5, <1>6 DEF Slices

LEMMA SliceAgain ==
  ASSUME NEW f, f.kind \in Slices, f.kind \in Numbered => f.w = Word, NEW s \in Seq(Byte), NEW p \in Nat,
         NEW r, r = ReadSlice(f, s, p, << >>)
  PROVE  Again(WriteSlice(f, r.v), s, p, r)
<1> DEFINE read == [q \in 0 .. Len(s) |-> ReadElement(f, s, q)]
           ws   == [j \in DOMAIN r.v |-> WriteElement(f, r.v[j])]
           hd   == CborReadHeaderBuf(s, p)
<1>1. r = ReadElements(s, p, << >>, read) /\ WriteSlice(f, r.v) = WriteElements(ws)
  BY DEF ReadSlice, WriteSlice
<1>2. ASSUME NEW q \in 0 .. Len(s) PROVE Again(WriteElement(f, read[q].v), s, q, read[q]) /\ Takes(read[q], s, q)
  <2>1. q \in Nat /\ read[q] = ReadElement(f, s, q)
    OBVIOUS
  <2>2. Again(WriteElement(f, read[q].v), s, q, read[q])
    BY <2>1, ElementAgain
  <2>3. Local(ReadElement(f, s, q), s, q, ReadElement(f, s, q), s, q)
    BY <2>1, ElementLocal
  <2>4. QED BY <2>1, <2>2, <2>3 DEF Local
<1> HIDE DEF read
<1>3. Within(s, read)
  BY <1>2 DEF Within
<1>4. Rewrites(ws, r.v, s, read)
  <2>1. ws = [j \in DOMAIN r.v |-> ws[j]] /\ \A j \in DOMAIN r.v : ws[j] = WriteElement(f, r.v[j])
    OBVIOUS
  <2> HIDE DEF ws
  <2>2. ASSUME NEW j \in DOMAIN r.v, NEW q \in 0 .. Len(s), r.v[j] = read[q].v PROVE Again(ws[j], s, q, read[q])
    BY <1>2, <2>1, <2>2
  <2>3. QED BY <2>1, <2>2 DEF Rewrites
<1> HIDE DEF ws
<1>5. r.ok => /\ hd.ok /\ hd.maj = MajArray /\ hd.extra <= MaxLength
              /\ r = Plus(hd.n, Elements(p + hd.n, hd.extra, read))
  BY <1>1, SomeRead
<1>6. Again(WriteElements(ws), s, p, r)
  BY <1>3, <1>4, <1>5, ListAgain
<1>7. QED BY <1>1, <1>6

LEMMA ArrayAgain ==
  ASSUME NEW f, f.kind = "array", NEW s \in Seq(Byte), NEW p \in Nat, NEW r, r = ReadArray(s, p, f.w)
  PROVE  Again(WriteSlice(f, r.v), s, p, r)
<1> DEFINE read == [q \in 0 .. Len(s) |-> ReadUint64(s, q)]
           ws   == [j \in DOMAIN r.v |-> Wrote(Written(WriteUint(r.v[j])))]
           hd   == CborReadHeaderBuf(s, p)
<1>1. WriteSlice(f, r.v) = WriteElements(ws)
  <2>1. \A e : WriteElement(f, e) = Wrote(Written(WriteUint(e)))
    BY DEF WriteElement
  <2>2. QED BY <2>1 DEF WriteSlice
<1>2. r.ok => /\ hd.ok /\ hd.maj = MajArray /\ hd.extra <= MaxLength
              /\ r = Plus(hd.n, Elements(p + hd.n, hd.extra, read))
  BY DEF ReadArray, Headed, After, Bad
<1>3. read = [q \in 0 .. Len(s) |-> ReadUint64(s, q)] /\ ws = [j \in DOMAIN r.v |-> Wrote(Written(WriteUint(r.v[j])))]
  OBVIOUS
<1> HIDE DEF read, ws
<1>4. Again(WriteElements(ws), s, p, r)
  BY <1>2, <1>3, NumbersAgain
<1>5. QED BY <1>1, <1>4

\* A pointer that was nil.
LEMMA PointerAgain ==
  ASSUME NEW f, f.kind \in Nullable, NEW s \in Seq(Byte), NEW p \in Nat, NEW r, r = ReadPointer(f.kind, s, p, << >>)
  PROVE  Again(WritePointer(f, r.v), s, p, r)
<1>0. Len(s) \in Nat
  BY LenProperties
<1> DEFINE q == ReadPointee(f.kind, s, p)
<1>1. r = IF p >= Len(s) THEN Bad(0) ELSE IF s[p + 1] = CborNull THEN Good(<< >>, 1)
          ELSE IF q.ok THEN Good(<< q.v >>, q.n) ELSE q
  BY DEF ReadPointer, PutBack, Mapped
<1>2. ASSUME r.ok, s[p + 1] = CborNull PROVE Again(WritePointer(f, r.v), s, p, r)
  <2>1. ~(p >= Len(s)) /\ r = Good(<< >>, 1)
    BY <1>1, <1>2 DEF Bad
  <2>2. r.v = << >> /\ r.n = 1 /\ p + 1 <= Len(s)
    BY <1>0, <2>1 DEF Good
  <2>3. WritePointer(f, r.v) = Wrote(<< CborNull >>)
    BY <2>2 DEF WritePointer
  <2>4. SubSeq(s, p + 1, p + 1) = << CborNull >>
    <3> DEFINE b == SubSeq(s, p + 1, p + 1)
    <3>1. b \in Seq(Byte) /\ Len(b) = 1 /\ \A e \in 1 .. 1 : b[e] = s[p + e]
      BY <2>2, SliceOf
    <3> HIDE DEF b
    <3>2. b[1] = CborNull
      BY <1>2, <3>1
    <3>3. b = << b[1] >>
      BY <3>1
    <3>4. QED BY <3>2, <3>3 DEF b
  <2>5. WritePointer(f, r.v) = Wrote(SubSeq(s, p + 1, p + r.n))
    BY <2>2, <2>3, <2>4, Zenon
  <2>6. r.n \in Nat /\ p + r.n <= Len(s)
    BY <2>2
  <2>7. QED BY <2>5, <2>6 DEF Again
<1>3. ASSUME r.ok, s[p + 1] # CborNull PROVE Again(WritePointer(f, r.v), s, p, r)
  <2>1. q.ok /\ r = Good(<< q.v >>, q.n)
    BY <1>1, <1>3 DEF Bad
  <2> HIDE DEF q
  <2>2. r.v # << >> /\ r.v[1] = q.v /\ r.n = q.n
    BY <2>1 DEF Good
  <2>3. CASE f.kind = "*uint64"
    <3>1. q = ReadUint64(s, p) /\ WritePointer(f, r.v) = Wrote(Written(WriteUint(q.v)))
      BY <2>2, <2>3 DEF q, ReadPointee, WritePointer
    <3>2. Again(Wrote(Written(WriteUint(q.v))), s, p, q)
      BY <3>1, UintAgain
    <3>3. QED BY <2>1, <2>2, <3>1, <3>2, OtherAgain
  <2>4. CASE f.kind = "*cid"
    <3>1. q = ReadCid(s, p) /\ WritePointer(f, r.v) = WriteCid(q.v)
      BY <2>2, <2>4 DEF q, ReadPointee, WritePointer
    <3>2. Again(WriteCid(q.v), s, p, q)
      BY <3>1, CidAgain
    <3>3. QED BY <2>1, <2>2, <3>1, <3>2, OtherAgain
  <2>5. CASE f.kind = "*struct"
    <3>1. q = ReadStruct(s, p) /\ WritePointer(f, r.v) = WriteStruct(q.v)
      BY <2>2, <2>5 DEF q, ReadPointee, WritePointer, WriteStructPointer
    <3>2. Again(WriteStruct(q.v), s, p, q)
      BY <3>1, StructAgain
    <3>3. QED BY <2>1, <2>2, <3>1, <3>2, OtherAgain
  <2>6. QED BY <2>3, <2>4, <2>5 DEF Nullable
<1>4. ~r.ok => Again(WritePointer(f, r.v), s, p, r)
  BY DEF Again
<1>5. QED BY <1>2, <1>3, <1>4

\* The field codec of an exact field, which was zero before: what it reads, it writes.
THEOREM FieldAgain ==
  ASSUME NEW f, IsField(f), Exact(f), NEW s \in Seq(Byte), NEW p \in Nat, p <= Len(s),
         NEW r, r = ReadField(f, s, p, Zero(f))
  PROVE  Again(WriteField(f, r.v), s, p, r)
<1>1. CASE f.kind = "uint64"
  <2>1. r = ReadUint64(s, p) /\ WriteField(f, r.v) = Wrote(Written(WriteUint(r.v)))
    BY <1>1 DEF ReadField, WriteField, Slices, Nullable
  <2>2. QED BY <2>1, UintAgain
<1>2. CASE f.kind = "uint"
  <2> DEFINE q == ReadUint(s, p, f.read)
  <2>1. r = (IF q.ok THEN Good(UintOf(q.v, f.w), q.n) ELSE q)
    BY <1>2 DEF ReadField, Slices, Nullable, Mapped
  <2>2. WriteField(f, r.v) = Wrote(Written(WriteUint(r.v)))
    BY <1>2 DEF WriteField, Slices, Nullable
  <2>3. f.read = f.w /\ f.w \in 1 .. Word
    BY <1>2 DEF Exact, IsField, Numbered
  <2>4. Again(Wrote(Written(WriteUint(q.v))), s, p, q) /\ (q.ok => q.v \in 0 .. MaxUint(f.w))
    BY <2>3, UintAgain
  <2> HIDE DEF q
  <2>5. r.ok => q.ok /\ r.n = q.n /\ r.v = q.v
    BY <2>1, <2>3, <2>4, UintFits DEF Good
  <2>6. r.ok => WriteField(f, r.v) = Wrote(Written(WriteUint(q.v)))
    BY <2>2, <2>5
  <2>7. QED BY <2>4, <2>5, <2>6, OtherAgain
<1>3. CASE f.kind = "int"
  <2> DEFINE q == ReadInt(s, p, Word)
  <2>1. f.read = Word /\ f.w = Word
    BY <1>3 DEF Exact
  <2>2. r = (IF q.ok THEN Good(IntOf(q.v, Word), q.n) ELSE q)
    BY <1>3, <2>1 DEF ReadField, Slices, Nullable, Mapped
  <2>3. WriteField(f, r.v) = Wrote(Written(WriteInt(r.v, Word)))
    BY <1>3, <2>1 DEF WriteField, Slices, Nullable
  <2>4. Again(Wrote(Written(WriteInt(q.v, Word))), s, p, q) /\ (q.ok => IntOf(q.v, Word) = q.v)
    BY IntAgain
  <2> HIDE DEF q
  <2>5. r.ok => q.ok /\ r.n = q.n /\ r.v = q.v
    BY <2>2, <2>4 DEF Good
  <2>6. r.ok => WriteField(f, r.v) = Wrote(Written(WriteInt(q.v, Word)))
    BY <2>3, <2>5
  <2>7. QED BY <2>4, <2>5, <2>6, OtherAgain
<1>4. CASE f.kind = "bool"
  <2>1. r = ReadBool(s, p) /\ WriteField(f, r.v) = Wrote(Written(WriteBool(r.v)))
    BY <1>4 DEF ReadField, WriteField, Slices, Nullable
  <2>2. QED BY <2>1, BoolAgain
<1>5. CASE f.kind = "string"
  <2>1. r = ReadString(s, p) /\ WriteField(f, r.v) = WriteString(r.v)
    BY <1>5 DEF ReadField, WriteField, Slices, Nullable
  <2>2. QED BY <2>1, StringAgain
<1>6. CASE f.kind = "bytes"
  <2>1. r = ReadBytes(s, p, << >>) /\ WriteField(f, r.v) = WriteBytes(r.v)
    BY <1>6 DEF ReadField, WriteField, Slices, Nullable, Zero
  <2>2. QED BY <2>1, BytesAgain
<1>7. CASE f.kind = "bytearray"
  <2>1. r = ReadBytesOf(s, p, f.w) /\ WriteField(f, r.v) = WriteBytes(r.v)
    BY <1>7 DEF ReadField, WriteField, Slices, Nullable
  <2>2. QED BY <2>1, BytesAgain
<1>8. CASE f.kind = "array"
  <2>1. r = ReadArray(s, p, f.w) /\ WriteField(f, r.v) = WriteSlice(f, r.v)
    BY <1>8 DEF ReadField, WriteField, Slices, Nullable
  <2>2. QED BY <1>8, <2>1, ArrayAgain
<1>9. CASE f.kind \in Slices
  <2>1. r = ReadSlice(f, s, p, << >>) /\ WriteField(f, r.v) = WriteSlice(f, r.v)
    BY <1>9 DEF ReadField, WriteField, Slices, Nullable, Zero
  <2>2. f.kind \in Numbered => f.w = Word
    BY <1>9 DEF Exact, Numbered, Slices
  <2>3. QED BY <1>9, <2>1, <2>2, SliceAgain
<1>10. CASE f.kind = "cid"
  <2>1. r = ReadCid(s, p) /\ WriteField(f, r.v) = WriteCid(r.v)
    BY <1>10 DEF ReadField, WriteField, Slices, Nullable
  <2>2. QED BY <2>1, CidAgain
<1>11. CASE f.kind = "cborcid"
  <2>1. r = ReadCborCid(s, p) /\ WriteField(f, r.v) = WriteCborCid(r.v)
    BY <1>11 DEF ReadField, WriteField, Slices, Nullable
  <2>2. QED BY <2>1, CborCidAgain
<1>12. CASE f.kind = "time"
  <2>1. r = ReadTime(s, p) /\ WriteField(f, r.v) = WriteTime(r.v)
    BY <1>12 DEF ReadField, WriteField, Slices, Nullable
  <2>2. QED BY <2>1, TimeAgain
<1>13. CASE f.kind = "struct"
  <2>1. r = ReadStruct(s, p) /\ WriteField(f, r.v) = WriteStruct(r.v)
    BY <1>13 DEF ReadField, WriteField, Slices, Nullable
  <2>2. QED BY <2>1, StructAgain
<1>14. CASE f.kind \in Nullable
  <2>1. r = ReadPointer(f.kind, s, p, << >>) /\ WriteField(f, r.v) = WritePointer(f, r.v)
    BY <1>14 DEF ReadField, WriteField, Slices, Nullable, Zero
  <2>2. QED BY <1>14, <2>1, PointerAgain
<1>15. CASE f.kind = "deferred"
  <2>1. r = ReadDeferred(s, p) /\ WriteField(f, r.v) = WriteRaw(r.v)
    BY <1>15 DEF ReadField, WriteField, Slices, Nullable
  <2>2. QED BY <2>1, DeferredAgain
<1>16. CASE f.kind = "*deferred"
  <2> DEFINE q == ReadDeferred(s, p)
  <2>1. r = (IF q.ok THEN Good(<< q.v >>, q.n) ELSE q)
    BY <1>16 DEF ReadField, Slices, Nullable, Mapped
  <2>2. Again(WriteRaw(q.v), s, p, q)
    BY DeferredAgain
  <2> HIDE DEF q
  <2>3. r.ok => q.ok /\ r.n = q.n /\ r.v # << >> /\ r.v[1] = q.v
    BY <2>1 DEF Good
  <2>4. WriteField(f, r.v) = WritePointer(f, r.v)
    BY <1>16 DEF WriteField, Slices, Nullable
  <2>5. r.ok => WriteField(f, r.v) = WriteRaw(q.v)
    BY <1>16, <2>3, <2>4 DEF WritePointer
  <2>6. QED BY <2>2, <2>3, <2>5, OtherAgain
<1>17. f.kind \in Kinds /\ f.kind \notin {"map", "map*"}
  BY DEF Exact, IsField, Fields
<1>18. QED
  BY <1>1, <1>2, <1>3, <1>4, <1>5, <1>6, <1>7, <1>8, <1>9, <1>10, <1>11, <1>12, <1>13, <1>14, <1>15, <1>16, <1>17
  DEF Kinds, Numbered, Slices

=============================================================================
