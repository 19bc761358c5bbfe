----------------------------- MODULE CborProofs -----------------------------
(***************************************************************************)
(* For every size of the wire format: a header that is written is read     *)
(* back whatever follows it, and every header that is read is one that is  *)
(* written.  Of items that nest, whatever their heads are: a counter of    *)
(* the items still to be read is as good as a stack.  And integers of      *)
(* every width come back from the headers that stand for them.             *)
(***************************************************************************)
EXTENDS CborGrammar, Scalars, SequenceTheorems, WellFoundedInduction, TLAPS

LEMMA LeastElement ==
  ASSUME NEW T, T \subseteq Nat, T # {}
  PROVE  \E m \in T : \A k \in T : m <= k
<1>1. PICK m \in T : \A k \in T : <<k, m>> \notin OpToRel(<, Nat)
  BY WFMin, NatLessThanWellFounded, Zenon
<1>2. \A k \in T : ~(k < m)
  BY <1>1, Zenon DEF OpToRel
<1>3. QED BY <1>2

LEMMA Sizes ==
  /\ MajRange \in Nat \ {0} /\ LowRange \in Nat \ {0} /\ Inline \in Nat \ {0}
  /\ Len(Widths) \in Nat
  /\ Inline + Len(Widths) <= LowRange
  /\ Limit(0) = Inline
  /\ \A i \in 1 .. Len(Widths) : Widths[i] \in Nat \ {0}
  /\ Radix \in Nat
<1>1. Len(Widths) \in Nat /\ \A i \in 1 .. Len(Widths) : Widths[i] \in Nat \ {0}
  BY SizesAssumption, LenProperties, ElementOfSeq
<1>2. Limit(0) = Inline
  BY DEF Limit
<1>3. LowRange \in Nat \ {0}
  BY <1>1, SizesAssumption
<1>4. Radix \in Nat
  BY SizesAssumption DEF Radix
<1>5. QED BY <1>1, <1>2, <1>3, <1>4, SizesAssumption

\* The writer's switch takes one case for each argument: the first that fits.
LEMMA WidthProperties ==
  ASSUME NEW l \in Arguments
  PROVE  /\ Width(l) \in 0 .. Len(Widths)
         /\ Fits(l, Width(l))
         /\ \A j \in 0 .. (Width(l) - 1) : ~Fits(l, j)
<1> DEFINE T == { i \in 0 .. Len(Widths) : Fits(l, i) }
<1>1. Len(Widths) \in T
  <2>1. Limit(Len(Widths)) \in Nat
    BY Sizes, SizesAssumption
  <2>2. Fits(l, Len(Widths))
    BY <2>1 DEF Arguments, Fits
  <2>3. QED BY <2>2, Sizes
<1>2. T \subseteq Nat
  BY Sizes
<1>3. PICK m \in T : \A k \in T : m <= k
  BY <1>1, <1>2, LeastElement, Zenon
<1>4. \A j \in 0 .. (m - 1) : ~Fits(l, j)
  BY <1>2, <1>3, Sizes
<1>5. \E i \in 0 .. Len(Widths) : Fits(l, i) /\ \A j \in 0 .. (i - 1) : ~Fits(l, j)
  BY <1>3, <1>4
<1>6. QED
  BY <1>5, Zenon DEF Width

\* The first case that fits is recognised by the one before it.
LEMMA WidthIs ==
  ASSUME NEW l \in Arguments, NEW i \in 0 .. Len(Widths), Fits(l, i), i > 0 => Canonical(l, i)
  PROVE  Width(l) = i
<1>1. /\ Width(l) \in 0 .. Len(Widths) /\ Fits(l, Width(l))
      /\ \A j \in 0 .. (Width(l) - 1) : ~Fits(l, j)
  BY WidthProperties
<1>2. \A j, k \in 0 .. Len(Widths) : j <= k => Limit(j) <= Limit(k)
  BY SizesAssumption
<1>3. \A j \in 0 .. Len(Widths) : Limit(j) \in Nat
  BY SizesAssumption
<1>4. l \in Nat
  <2>1. Limit(Len(Widths)) \in Nat
    BY Sizes, SizesAssumption
  <2>2. QED BY <2>1 DEF Arguments
<1>5. ~(i < Width(l))
  BY <1>1, Sizes
<1>6. ~(Width(l) < i)
  <2>1. SUFFICES ASSUME Width(l) < i PROVE FALSE
    OBVIOUS
  <2>2. Limit(Width(l)) <= Limit(i - 1)
    BY <2>1, <1>1, <1>2, Sizes
  <2>3. l < Limit(Width(l)) /\ ~(l < Limit(i - 1)) /\ i - 1 \in 0 .. Len(Widths)
    BY <2>1, <1>1, Sizes DEF Canonical, Fits
  <2>4. QED BY <2>2, <2>3, <1>1, <1>3, <1>4
<1>7. QED BY <1>1, <1>5, <1>6, Sizes

-----------------------------------------------------------------------------

\* The major type and the low bits can be told apart again.
LEMMA FirstByteFields ==
  ASSUME NEW t \in Nat, NEW low \in 0 .. (LowRange - 1)
  PROVE  FirstByte(t, low) \div LowRange = t /\ FirstByte(t, low) % LowRange = low
BY Sizes DEF FirstByte

LEMMA FirstByteOf ==
  ASSUME NEW b \in Byte
  PROVE  /\ b \div LowRange \in Majors /\ b % LowRange \in 0 .. (LowRange - 1)
         /\ b = FirstByte(b \div LowRange, b % LowRange)
<1> DEFINE q == b \div LowRange
           r == b % LowRange
<1>1. b \in Nat /\ b < MajRange * LowRange /\ LowRange \in Nat \ {0} /\ MajRange \in Nat
  BY Sizes DEF Byte, Radix
<1>2. q \in Nat /\ r \in 0 .. (LowRange - 1) /\ b = q * LowRange + r
  BY <1>1
<1> HIDE DEF q, r
<1>3. q < MajRange
  <2>1. SUFFICES ASSUME MajRange <= q PROVE FALSE
    BY <1>1, <1>2
  <2>2. PICK d \in Nat : q = MajRange + d
    BY <2>1, <1>1, <1>2
  <2>3. q * LowRange = MajRange * LowRange + d * LowRange /\ d * LowRange \in Nat
    BY <2>2, <1>1
  <2>4. QED BY <2>3, <1>1, <1>2
<1>4. QED BY <1>1, <1>2, <1>3 DEF q, r, FirstByte, Majors

-----------------------------------------------------------------------------

\* Bytes s with a header of major type t and argument l at p, and the first byte
\* of it, read as what they are.
LEMMA InlineRead ==
  ASSUME NEW s \in Seq(Byte), NEW p \in Nat, NEW t \in Majors, NEW l \in Nat,
         p < Len(s), l < Inline, s[p + 1] = FirstByte(t, l)
  PROVE  CborReadHeaderBuf(s, p) = Header(t, l, 1)
<1>1. l \in 0 .. (LowRange - 1) /\ t \in Nat
  BY Sizes DEF Majors
<1>2. s[p + 1] \div LowRange = t /\ s[p + 1] % LowRange = l
  BY <1>1, FirstByteFields
<1>3. Len(s) > p /\ ~(Len(s) <= p) /\ ~(l >= Inline) /\ ~(l >= Inline + Len(Widths))
  BY Sizes, LenProperties
<1>4. QED BY <1>2, <1>3 DEF CborReadHeaderBuf

LEMMA WideRead ==
  ASSUME NEW s \in Seq(Byte), NEW p \in Nat, NEW t \in Majors, NEW i \in 1 .. Len(Widths),
         p < Len(s), s[p + 1] = FirstByte(t, Inline + i - 1)
  PROVE  CborReadHeaderBuf(s, p) = ReadArgument(s, p, t, i)
<1>1. Inline + i - 1 \in 0 .. (LowRange - 1) /\ t \in Nat
  BY Sizes DEF Majors
<1>2. s[p + 1] \div LowRange = t /\ s[p + 1] % LowRange = Inline + i - 1
  BY <1>1, FirstByteFields
<1>3. /\ Len(s) > p /\ ~(Len(s) <= p)
      /\ ~(Inline + i - 1 < Inline) /\ Inline + i - 1 >= Inline
      /\ Inline + i - 1 < Inline + Len(Widths) /\ ~(Inline + i - 1 >= Inline + Len(Widths))
      /\ (Inline + i - 1) - Inline + 1 = i
  BY Sizes, LenProperties
<1>4. QED BY <1>2, <1>3 DEF CborReadHeaderBuf

LEMMA FirstByteType ==
  ASSUME NEW t \in Majors, NEW low \in 0 .. (LowRange - 1)
  PROVE  FirstByte(t, low) \in Byte
<1>1. t \in Nat /\ MajRange \in Nat /\ LowRange \in Nat \ {0} /\ t + 1 <= MajRange
  BY Sizes DEF Majors
<1> DEFINE d == MajRange - (t + 1)
<1>2. d \in Nat /\ MajRange = (t + 1) + d
  BY <1>1
<1> HIDE DEF d
<1>3. MajRange * LowRange = t * LowRange + LowRange + d * LowRange
  BY <1>1, <1>2
<1>4. d * LowRange \in Nat /\ t * LowRange \in Nat
  BY <1>1, <1>2
<1>5. QED BY <1>1, <1>3, <1>4 DEF FirstByte, Byte, Radix

\* The bytes of an argument of the i-th width.
LEMMA BigEndianProperties ==
  ASSUME NEW i \in 1 .. Len(Widths), NEW v \in Nat, Fits(v, i)
  PROVE  /\ BigEndian(v, Widths[i]) \in Seq(Byte)
         /\ Len(BigEndian(v, Widths[i])) = Widths[i]
         /\ Uint(BigEndian(v, Widths[i])) = v
<1>1. v \in 0 .. (Limit(i) - 1)
  BY Sizes, SizesAssumption DEF Fits
<1>2. BigEndian(v, Widths[i]) \in [1 .. Widths[i] -> Byte] /\ Uint(BigEndian(v, Widths[i])) = v
  BY <1>1, BigEndianAssumption
<1>3. Widths[i] \in Nat
  BY Sizes
<1>4. BigEndian(v, Widths[i]) \in Seq(Byte)
  BY <1>2, <1>3, SeqDef
<1>5. Len(BigEndian(v, Widths[i])) = Widths[i]
  <2>1. /\ Len(BigEndian(v, Widths[i])) \in Nat
        /\ 1 .. Len(BigEndian(v, Widths[i])) = 1 .. Widths[i]
    BY <1>2, <1>4, LenProperties
  <2>2. QED BY <2>1, <1>3
<1>6. QED BY <1>2, <1>4, <1>5

LEMMA WriteInline ==
  ASSUME NEW t \in Majors, NEW l \in Arguments, Width(l) = 0
  PROVE  /\ WriteMajorTypeHeader(t, l) = << FirstByte(t, l) >>
         /\ WriteMajorTypeHeader(t, l) \in Seq(Byte)
         /\ Len(WriteMajorTypeHeader(t, l)) = 1
         /\ l \in Nat /\ l < Inline
<1>1. l \in Nat /\ l < Inline
  <2>1. Fits(l, 0)
    BY WidthProperties
  <2>2. Limit(Len(Widths)) \in Nat
    BY Sizes, SizesAssumption
  <2>3. QED BY <2>1, <2>2, Sizes DEF Fits, Arguments
<1>2. FirstByte(t, l) \in Byte
  BY <1>1, Sizes, FirstByteType
<1>3. QED BY <1>1, <1>2 DEF WriteMajorTypeHeader

LEMMA WriteWide ==
  ASSUME NEW t \in Majors, NEW l \in Arguments, Width(l) # 0
  PROVE  /\ Width(l) \in 1 .. Len(Widths) /\ l \in Nat
         /\ Fits(l, Width(l)) /\ Canonical(l, Width(l))
         /\ WriteMajorTypeHeader(t, l)
              = << FirstByte(t, Inline + Width(l) - 1) >> \o BigEndian(l, Widths[Width(l)])
         /\ WriteMajorTypeHeader(t, l) \in Seq(Byte)
         /\ Len(WriteMajorTypeHeader(t, l)) = 1 + Widths[Width(l)]
<1> DEFINE i == Width(l)
           b == << FirstByte(t, Inline + i - 1) >>
           c == BigEndian(l, Widths[i])
<1>1. i \in 1 .. Len(Widths) /\ Fits(l, i) /\ Canonical(l, i) /\ l \in Nat
  <2>1. /\ i \in 0 .. Len(Widths) /\ Fits(l, i)
        /\ \A j \in 0 .. (i - 1) : ~Fits(l, j)
    BY WidthProperties
  <2>2. Limit(Len(Widths)) \in Nat
    BY Sizes, SizesAssumption
  <2>3. QED BY <2>1, <2>2, Sizes DEF Canonical, Arguments
<1>2. FirstByte(t, Inline + i - 1) \in Byte
  BY <1>1, Sizes, FirstByteType
<1>3. b \in Seq(Byte) /\ Len(b) = 1
  BY <1>2
<1>4. WriteMajorTypeHeader(t, l) = b \o c
  BY DEF WriteMajorTypeHeader
<1>5. c \in Seq(Byte) /\ Len(c) = Widths[i]
  BY <1>1, BigEndianProperties
<1> HIDE DEF b, c
<1>6. b \o c \in Seq(Byte) /\ Len(b \o c) = 1 + Widths[i]
  <2>1. b \o c \in Seq(Byte) /\ Len(b \o c) = Len(b) + Len(c)
    BY <1>3, <1>5, ConcatProperties, Zenon
  <2>2. QED BY <2>1, <1>3, <1>5
<1>7. QED BY <1>1, <1>4, <1>6 DEF b, c

LEMMA WriteType ==
  ASSUME NEW t \in Majors, NEW l \in Arguments
  PROVE  /\ WriteMajorTypeHeader(t, l) \in Seq(Byte)
         /\ Len(WriteMajorTypeHeader(t, l)) \in Nat \ {0}
<1>1. CASE Width(l) = 0
  <2>1. WriteMajorTypeHeader(t, l) \in Seq(Byte) /\ Len(WriteMajorTypeHeader(t, l)) = 1
    BY <1>1, WriteInline
  <2>2. QED BY <2>1, 1 \in Nat \ {0}
<1>2. CASE Width(l) # 0
  <2>1. /\ Width(l) \in 1 .. Len(Widths)
        /\ WriteMajorTypeHeader(t, l) \in Seq(Byte)
        /\ Len(WriteMajorTypeHeader(t, l)) = 1 + Widths[Width(l)]
    BY <1>2, WriteWide
  <2> DEFINE w == Widths[Width(l)]
  <2>2. w \in Nat \ {0} /\ Len(WriteMajorTypeHeader(t, l)) = 1 + w
    BY <2>1, Sizes
  <2> HIDE DEF w
  <2>3. 1 + w \in Nat \ {0}
    BY <2>2
  <2>4. QED BY <2>1, <2>2, <2>3
<1>3. QED BY <1>1, <1>2

-----------------------------------------------------------------------------

\* The bytes of s after p, split behind the first.
LEMMA SplitFirst ==
  ASSUME NEW s \in Seq(Byte), NEW p \in Nat, NEW n \in Nat, p + 1 + n <= Len(s)
  PROVE  /\ SubSeq(s, p + 1, p + 1 + n) = << s[p + 1] >> \o SubSeq(s, p + 2, p + 1 + n)
         /\ SubSeq(s, p + 2, p + 1 + n) \in Seq(Byte)
         /\ Len(SubSeq(s, p + 2, p + 1 + n)) = n
         /\ s[p + 1] \in Byte
<1>1. Len(s) \in Nat /\ \A i \in 1 .. Len(s) : s[i] \in Byte
  BY LenProperties, ElementOfSeq
<1>2. p + 1 \in 1 .. Len(s) /\ p + 1 + n \in (p + 1) .. Len(s) /\ (p + 1) + 1 = p + 2
  BY <1>1
<1>3. SubSeq(s, p + 1, p + 1 + n) = << s[p + 1] >> \o SubSeq(s, p + 2, p + 1 + n)
  BY <1>2, SubSeqRecursiveFirst
<1>4. \A i \in (p + 2) .. (p + 1 + n) : s[i] \in Byte
  BY <1>1
<1>5. /\ SubSeq(s, p + 2, p + 1 + n) \in Seq(Byte)
      /\ Len(SubSeq(s, p + 2, p + 1 + n)) = IF p + 2 <= p + 1 + n THEN (p + 1 + n) - (p + 2) + 1 ELSE 0
  BY <1>4, SubSeqProperties, p + 2 \in Int, p + 1 + n \in Int
<1>6. QED BY <1>1, <1>2, <1>3, <1>5

\* Two nonempty strings are equal only if their first bytes and the rest are.
LEMMA SplitEqual ==
  ASSUME NEW b \in Byte, NEW c \in Byte, NEW u \in Seq(Byte), NEW v \in Seq(Byte),
         << b >> \o u = << c >> \o v
  PROVE  b = c /\ u = v
<1>1. << b >> \in Seq(Byte) /\ << c >> \in Seq(Byte) /\ Len(<< b >>) = 1 /\ Len(<< c >>) = 1
      /\ << b >>[1] = b /\ << c >>[1] = c
  OBVIOUS
<1>2. (<< b >> \o u)[1] = b /\ (<< c >> \o v)[1] = c
  BY <1>1, ConcatProperties, LenProperties
<1>3. b = c
  BY <1>2
<1>4. u = v
  BY <1>1, <1>3, ConcatSimplifications, Zenon
<1>5. QED BY <1>3, <1>4

-----------------------------------------------------------------------------

\* Wherever in the input a written header stands, it is read back as it was.
THEOREM ReadsWhatIsWritten ==
  ASSUME NEW s \in Seq(Byte), NEW p \in Nat, NEW t \in Majors, NEW l \in Arguments,
         p + Len(WriteMajorTypeHeader(t, l)) <= Len(s),
         SubSeq(s, p + 1, p + Len(WriteMajorTypeHeader(t, l))) = WriteMajorTypeHeader(t, l)
  PROVE  CborReadHeaderBuf(s, p) = Header(t, l, Len(WriteMajorTypeHeader(t, l)))
<1>0. Len(s) \in Nat
  BY LenProperties
<1>1. CASE Width(l) = 0
  <2>1. /\ WriteMajorTypeHeader(t, l) = << FirstByte(t, l) >>
        /\ Len(WriteMajorTypeHeader(t, l)) = 1 /\ l \in Nat /\ l < Inline
    BY <1>1, WriteInline
  <2>2. p < Len(s) /\ p + 1 + 0 <= Len(s) /\ p + 1 + 0 = p + 1
    BY <2>1, <1>0
  <2>3. /\ SubSeq(s, p + 1, p + 1) = << s[p + 1] >> \o SubSeq(s, p + 2, p + 1)
        /\ s[p + 1] \in Byte
    BY <2>2, SplitFirst, 0 \in Nat
  <2>4. SubSeq(s, p + 2, p + 1) = << >>
    BY SubSeqEmpty, p + 2 \in Int, p + 1 \in Int
  <2>5. << s[p + 1] >> \o << >> = << s[p + 1] >>
    BY <2>3, ConcatEmptySeq, << s[p + 1] >> \in Seq(Byte)
  <2>6. << s[p + 1] >> = << FirstByte(t, l) >>
    BY <2>1, <2>3, <2>4, <2>5
  <2>7. s[p + 1] = FirstByte(t, l)
    BY <2>6
  <2>8. QED BY <2>1, <2>2, <2>7, InlineRead
<1>2. CASE Width(l) # 0
  <2> DEFINE i == Width(l)
             w == Widths[i]
             b == FirstByte(t, Inline + i - 1)
  <2>1. /\ i \in 1 .. Len(Widths) /\ l \in Nat /\ Fits(l, i) /\ Canonical(l, i)
        /\ WriteMajorTypeHeader(t, l) = << b >> \o BigEndian(l, w)
        /\ Len(WriteMajorTypeHeader(t, l)) = 1 + w
    BY <1>2, WriteWide
  <2>2. w \in Nat /\ b \in Byte
    BY <2>1, Sizes, FirstByteType
  <2>3. BigEndian(l, w) \in Seq(Byte) /\ Uint(BigEndian(l, w)) = l
    BY <2>1, BigEndianProperties
  <2> HIDE DEF i, w, b
  <2>4. p + 1 + w <= Len(s) /\ p + (1 + w) = p + 1 + w /\ p < Len(s)
    BY <2>1, <2>2, <1>0
  <2>5. /\ SubSeq(s, p + 1, p + 1 + w) = << s[p + 1] >> \o SubSeq(s, p + 2, p + 1 + w)
        /\ SubSeq(s, p + 2, p + 1 + w) \in Seq(Byte)
        /\ s[p + 1] \in Byte
    BY <2>2, <2>4, SplitFirst
  <2>6. << b >> \o BigEndian(l, w) = << s[p + 1] >> \o SubSeq(s, p + 2, p + 1 + w)
    BY <2>1, <2>4, <2>5
  <2>7. s[p + 1] = b /\ SubSeq(s, p + 2, p + 1 + w) = BigEndian(l, w)
    BY <2>2, <2>3, <2>5, <2>6, SplitEqual
  <2>8. CborReadHeaderBuf(s, p) = ReadArgument(s, p, t, i)
    BY <2>1, <2>4, <2>7, WideRead DEF b
  <2>9. ReadArgument(s, p, t, i) = Header(t, l, 1 + w)
    <3>1. ~(Len(s) < p + 1 + w)
      BY <2>2, <2>4, <1>0
    <3>2. QED BY <3>1, <2>1, <2>3, <2>7 DEF ReadArgument, w
  <2>10. QED BY <2>1, <2>8, <2>9
<1>3. QED BY <1>1, <1>2

\* A header that is accepted is the one encoding of its type and argument.
THEOREM WritesWhatIsRead ==
  ASSUME NEW s \in Seq(Byte), NEW p \in Nat, CborReadHeaderBuf(s, p).ok
  PROVE  LET h == CborReadHeaderBuf(s, p) IN
         /\ h.maj \in Majors /\ h.extra \in Arguments /\ h.n \in Nat \ {0}
         /\ p + h.n <= Len(s)
         /\ SubSeq(s, p + 1, p + h.n) = WriteMajorTypeHeader(h.maj, h.extra)
         /\ h.n = Len(WriteMajorTypeHeader(h.maj, h.extra))
<1> DEFINE h == CborReadHeaderBuf(s, p)
           maj == s[p + 1] \div LowRange
           low == s[p + 1] % LowRange
<1>1. p < Len(s) /\ Len(s) \in Nat /\ s[p + 1] \in Byte
  <2>1. Len(s) \in Nat
    BY LenProperties
  <2>2. CASE Len(s) <= p
    <3>1. h = BadHeader(0)
      BY <2>1, <2>2 DEF CborReadHeaderBuf
    <3>2. QED BY <3>1 DEF BadHeader
  <2>3. CASE ~(Len(s) <= p)
    BY <2>1, <2>3, ElementOfSeq
  <2>4. QED BY <2>2, <2>3
<1>2. maj \in Majors /\ low \in 0 .. (LowRange - 1) /\ s[p + 1] = FirstByte(maj, low)
  BY <1>1, FirstByteOf
<1> HIDE DEF maj, low
<1>3. CASE low < Inline
  <2>1. low \in Nat
    BY <1>2, Sizes
  <2>2. h = Header(maj, low, 1)
    BY <2>1, <1>1, <1>2, <1>3, InlineRead
  <2>3. low \in Arguments /\ Width(low) = 0
    <3>1. Limit(0) <= Limit(Len(Widths)) /\ Limit(Len(Widths)) \in Nat
      BY Sizes, SizesAssumption
    <3>2. low \in Arguments
      BY <3>1, <2>1, <1>3, Sizes DEF Arguments
    <3>3. Fits(low, 0) /\ 0 \in 0 .. Len(Widths)
      BY <1>3, Sizes DEF Fits
    <3>4. QED BY <3>2, <3>3, WidthIs
  <2>4. WriteMajorTypeHeader(maj, low) = << s[p + 1] >>
    BY <2>3, <1>2 DEF WriteMajorTypeHeader
  <2>5. SubSeq(s, p + 1, p + 1) = << s[p + 1] >>
    <3>1. /\ SubSeq(s, p + 1, p + 1 + 0) = << s[p + 1] >> \o SubSeq(s, p + 2, p + 1 + 0)
      BY <1>1, SplitFirst, 0 \in Nat
    <3>2. p + 1 + 0 = p + 1
      OBVIOUS
    <3>3. SubSeq(s, p + 2, p + 1) = << >>
      BY SubSeqEmpty, p + 2 \in Int, p + 1 \in Int
    <3>4. << s[p + 1] >> \o << >> = << s[p + 1] >>
      BY <1>1, ConcatEmptySeq, << s[p + 1] >> \in Seq(Byte)
    <3>5. QED BY <3>1, <3>2, <3>3, <3>4
  <2>6. Len(<< s[p + 1] >>) = 1
    OBVIOUS
  <2>7. h.maj = maj /\ h.extra = low /\ h.n = 1
    BY <2>2 DEF Header
  <2>8. QED BY <2>3, <2>4, <2>5, <2>6, <2>7, <1>1, <1>2
<1>4. CASE ~(low < Inline)
  <2> DEFINE i == low - Inline + 1
             w == Widths[i]
             bs == SubSeq(s, p + 2, p + 1 + w)
  <2>1. i \in 1 .. Len(Widths) /\ low = Inline + i - 1
    <3>1. CASE low < Inline + Len(Widths)
      BY <3>1, <1>2, <1>4, Sizes
    <3>2. CASE ~(low < Inline + Len(Widths))
      <4>1. Len(s) > p /\ ~(Len(s) <= p) /\ low >= Inline /\ low >= Inline + Len(Widths)
        BY <3>2, <1>1, <1>2, <1>4, Sizes
      <4>2. h = BadHeader(1)
        BY <4>1, <3>2, <1>4 DEF CborReadHeaderBuf, low
      <4>3. QED BY <4>2 DEF BadHeader
    <3>3. QED BY <3>1, <3>2
  <2> HIDE DEF i
  <2>2. h = ReadArgument(s, p, maj, i)
    BY <2>1, <1>1, <1>2, WideRead
  <2>3. w \in Nat
    BY <2>1, Sizes
  <2>4. ~(Len(s) < p + 1 + w)
    <3>1. CASE Len(s) < p + 1 + w
      BY <3>1, <2>2 DEF ReadArgument, BadHeader
    <3>2. QED BY <3>1
  <2>17. p + 1 + w <= Len(s)
    <3> HIDE DEF w
    <3>1. QED BY <1>1, <2>3, <2>4
  <2>5. Canonical(Uint(bs), i)
    BY <2>2, <2>4 DEF ReadArgument, BadHeader
  <2>6. h = Header(maj, Uint(bs), 1 + w)
    BY <2>2, <2>4, <2>5 DEF ReadArgument
  <2>7. /\ SubSeq(s, p + 1, p + 1 + w) = << s[p + 1] >> \o bs
        /\ bs \in Seq(Byte) /\ Len(bs) = w
    <3> HIDE DEF w
    <3>1. /\ SubSeq(s, p + 1, p + 1 + w) = << s[p + 1] >> \o SubSeq(s, p + 2, p + 1 + w)
          /\ SubSeq(s, p + 2, p + 1 + w) \in Seq(Byte)
          /\ Len(SubSeq(s, p + 2, p + 1 + w)) = w
      BY <2>3, <2>17, SplitFirst
    <3>2. QED BY <3>1
  <2>8. bs \in [1 .. w -> Byte]
    BY <2>7, LenProperties
  <2> DEFINE v == Uint(bs)
  <2> HIDE DEF bs
  <2>9. v \in 0 .. (Limit(i) - 1) /\ BigEndian(v, w) = bs
    BY <2>1, <2>8, BigEndianAssumption
  <2> HIDE DEF v
  <2>10. v \in Arguments /\ Width(v) = i
    <3>1. Limit(i) <= Limit(Len(Widths)) /\ Limit(Len(Widths)) \in Nat /\ Limit(i) \in Nat
      BY <2>1, Sizes, SizesAssumption
    <3>2. v \in Arguments /\ Fits(v, i) /\ i \in 0 .. Len(Widths)
      BY <3>1, <2>1, <2>9, Sizes DEF Arguments, Fits
    <3>3. QED BY <3>2, <2>5, WidthIs DEF v
  <2>11. WriteMajorTypeHeader(maj, v) = << s[p + 1] >> \o bs
    <3>1. Width(v) # 0
      BY <2>1, <2>10
    <3>2. QED BY <3>1, <2>1, <2>9, <2>10, <1>2 DEF WriteMajorTypeHeader
  <2>12. Len(WriteMajorTypeHeader(maj, v)) = 1 + w
    <3>1. Width(v) # 0
      BY <2>1, <2>10
    <3>2. QED BY <3>1, <1>2, <2>10, WriteWide
  <2>13. h.maj = maj /\ h.extra = v /\ h.n = 1 + w
    BY <2>6 DEF Header, v
  <2>14. p + (1 + w) = p + 1 + w /\ p + 1 + w <= Len(s) /\ 1 + w \in Nat \ {0}
    <3> HIDE DEF w
    <3>1. QED BY <1>1, <2>3, <2>17
  <2> HIDE DEF h, w
  <2>15. /\ h.maj \in Majors /\ h.extra \in Arguments /\ h.n \in Nat \ {0}
         /\ p + h.n <= Len(s)
         /\ SubSeq(s, p + 1, p + h.n) = WriteMajorTypeHeader(h.maj, h.extra)
         /\ h.n = Len(WriteMajorTypeHeader(h.maj, h.extra))
    BY <1>2, <2>7, <2>10, <2>11, <2>12, <2>13, <2>14
  <2>16. QED BY <2>15 DEF h
<1>5. QED BY <1>3, <1>4

\* A header that is bad takes what there is of it.
LEMMA HeaderTakes ==
  ASSUME NEW s \in Seq(Byte), NEW p \in 0 .. Len(s), ~CborReadHeaderBuf(s, p).ok
  PROVE  CborReadHeaderBuf(s, p).n \in 0 .. (Len(s) - p)
<1> DEFINE maj == s[p + 1] \div LowRange
           low == s[p + 1] % LowRange
           i == low - Inline + 1
<1>1. Len(s) \in Nat /\ p \in Nat
  BY LenProperties
<1>2. CASE Len(s) <= p
  BY <1>1, <1>2 DEF CborReadHeaderBuf, BadHeader
<1>3. CASE Len(s) > p /\ low < Inline
  <2>1. low \in 0 .. (LowRange - 1) /\ maj \in Majors /\ s[p + 1] = FirstByte(maj, low)
    BY <1>1, <1>3, ElementOfSeq, FirstByteOf
  <2>2. CborReadHeaderBuf(s, p) = Header(maj, low, 1)
    BY <2>1, <1>1, <1>3, InlineRead, Sizes
  <2>3. QED BY <2>2 DEF Header
<1>4. CASE Len(s) > p /\ low >= Inline /\ low < Inline + Len(Widths)
  <2>1. low \in 0 .. (LowRange - 1) /\ maj \in Majors /\ s[p + 1] = FirstByte(maj, low)
    BY <1>1, <1>4, ElementOfSeq, FirstByteOf
  <2> HIDE DEF low, maj
  <2>2. i \in 1 .. Len(Widths) /\ low = Inline + i - 1
    BY <2>1, <1>4, Sizes
  <2> HIDE DEF i
  <2>3. CborReadHeaderBuf(s, p) = ReadArgument(s, p, maj, i)
    BY <2>1, <2>2, <1>1, <1>4, WideRead
  <2> DEFINE w == Widths[i]
  <2>4. w \in Nat
    BY <2>2, Sizes
  <2>5. CborReadHeaderBuf(s, p) \in {BadHeader(Len(s) - p)}
          \/ (Len(s) >= p + 1 + w /\ CborReadHeaderBuf(s, p) = BadHeader(1 + w))
    <3>1. CASE Len(s) < p + 1 + w
      BY <3>1, <2>3 DEF ReadArgument
    <3>2. CASE ~(Len(s) < p + 1 + w)
      <4>1. ~Canonical(Uint(SubSeq(s, p + 2, p + 1 + w)), i)
        BY <3>2, <2>3 DEF ReadArgument, Header
      <4>2. CborReadHeaderBuf(s, p) = BadHeader(1 + w)
        BY <3>2, <4>1, <2>3 DEF ReadArgument
      <4> HIDE DEF w
      <4>3. QED BY <3>2, <4>2, <2>4, <1>1
    <3>3. QED BY <3>1, <3>2
  <2> HIDE DEF w
  <2>6. QED BY <2>4, <2>5, <1>1, <1>4 DEF BadHeader
<1>5. CASE Len(s) > p /\ low >= Inline + Len(Widths)
  <2>1. ~(low < Inline) /\ ~(low < Inline + Len(Widths)) /\ ~(Len(s) <= p)
    <3>1. low \in 0 .. (LowRange - 1)
      BY <1>1, <1>5, ElementOfSeq, FirstByteOf
    <3> HIDE DEF low
    <3>2. QED BY <3>1, <1>1, <1>5, Sizes
  <2>2. CborReadHeaderBuf(s, p) = BadHeader(1)
    BY <2>1, <1>5 DEF CborReadHeaderBuf
  <2>3. QED BY <2>2, <1>1, <1>5 DEF BadHeader
<1>6. QED
  <2>1. ASSUME Len(s) > p PROVE low \in Nat /\ Inline \in Nat /\ Len(Widths) \in Nat
    BY <2>1, <1>1, Sizes, ElementOfSeq, FirstByteOf
  <2> HIDE DEF low
  <2>2. QED BY <2>1, <1>1, <1>2, <1>3, <1>4, <1>5

-----------------------------------------------------------------------------

\* Pieces of a string of bytes.
LEMMA SliceType ==
  ASSUME NEW s \in Seq(Byte), NEW m \in Nat, NEW n \in Nat, m <= n, n <= Len(s)
  PROVE  SubSeq(s, m + 1, n) \in Seq(Byte) /\ Len(SubSeq(s, m + 1, n)) = n - m
<1>1. Len(s) \in Nat /\ \A i \in 1 .. Len(s) : s[i] \in Byte
  BY LenProperties, ElementOfSeq
<1>2. \A i \in (m + 1) .. n : s[i] \in Byte
  BY <1>1
<1>3. /\ SubSeq(s, m + 1, n) \in Seq(Byte)
      /\ Len(SubSeq(s, m + 1, n)) = IF m + 1 <= n THEN n - (m + 1) + 1 ELSE 0
  BY <1>2, SubSeqProperties, m + 1 \in Int, n \in Int
<1>4. QED BY <1>3

LEMMA SliceConcat ==
  ASSUME NEW s \in Seq(Byte), NEW m \in Nat, NEW k \in Nat, NEW n \in Nat,
         m <= k, k <= n, n <= Len(s)
  PROVE  SubSeq(s, m + 1, k) \o SubSeq(s, k + 1, n) = SubSeq(s, m + 1, n)
<1>1. Len(s) \in Nat
  BY LenProperties
<1>2. m + 1 \in 1 .. Len(s) + 1 /\ k \in (m + 1) - 1 .. Len(s) /\ n \in k .. Len(s)
  BY <1>1
<1>3. QED BY <1>2, ConcatAdjacentSubSeq

LEMMA Intervals ==
  ASSUME NEW a \in Nat, NEW b \in Nat, NEW c \in Nat, a <= b, b <= c
  PROVE  b \in 0 .. c /\ a \in 0 .. b /\ b - a \in 0 .. (b - a)
OBVIOUS

-----------------------------------------------------------------------------

\* What items may yield from position p of n on, with links of L.
Yields(L, p, n) == [ok : BOOLEAN, end : p .. n, links : Seq(L)]

\* A head is good only if it ends further on, and none ends behind n.
IsHead(L, p, n, head) ==
  /\ head.ok \in BOOLEAN
  /\ head.end \in p .. n
  /\ head.links \in Seq(L)
  /\ head.ok => head.end > p /\ head.nested \in Nat

IsHeads(L, n, heads) ==
  /\ DOMAIN heads = 0 .. n
  /\ \A p \in 0 .. n : IsHead(L, p, n, heads[p])

\* items is what the recursion says, from position m on.
Solves(L, n, heads, items, m) ==
  \A p \in m .. n : \A k \in Nat :
    /\ items[p][k] = ItemsFrom(heads, items, p, k)
    /\ items[p][k] \in Yields(L, p, n)

LEMMA BehindType ==
  ASSUME NEW L, NEW n \in Nat, NEW p \in Nat, NEW q \in Nat, p <= q,
         NEW links \in Seq(L), NEW item \in Yields(L, q, n)
  PROVE  /\ Behind(links, item) \in Yields(L, p, n)
         /\ Behind(links, item) \in Yields(L, q, n)
         /\ Behind(links, item).ok = item.ok
         /\ Behind(links, item).end = item.end
         /\ Behind(links, item).links = links \o item.links
<1>1. links \o item.links \in Seq(L)
  BY ConcatProperties DEF Yields
<1>2. item.ok \in BOOLEAN /\ item.end \in q .. n /\ item.end \in p .. n
  BY DEF Yields
<1>3. QED BY <1>1, <1>2 DEF Behind, Yields

LEMMA BehindAll ==
  ASSUME NEW L, NEW n \in Nat, NEW p \in Nat, NEW links \in Seq(L), NEW more \in Seq(L),
         NEW item \in Yields(L, p, n)
  PROVE  /\ Behind(<< >>, item) = item
         /\ Behind(links, Behind(more, item)) = Behind(links \o more, item)
<1>1. item.links \in Seq(L) /\ << >> \o item.links = item.links
  BY ConcatEmptySeq DEF Yields
<1>2. (links \o more) \o item.links = links \o (more \o item.links)
  <2>1. PICK rest \in Seq(L) : rest = item.links
    BY <1>1
  <2>2. (links \o more) \o rest = links \o (more \o rest)
    BY ConcatAssociative
  <2>3. QED BY <2>1, <2>2
<1>3. QED BY <1>1, <1>2 DEF Behind, Yields

\* One step of the recursion only looks further on, and stays within the stream.
LEMMA FromLater ==
  ASSUME NEW L, NEW n \in Nat, NEW heads, IsHeads(L, n, heads),
         NEW p \in 0 .. n, NEW k \in Nat, NEW items, NEW others,
         \A q \in (p + 1) .. n : \A j \in Nat :
           items[q][j] \in Yields(L, q, n) /\ others[q][j] = items[q][j]
  PROVE  /\ ItemsFrom(heads, items, p, k) \in Yields(L, p, n)
         /\ ItemsFrom(heads, others, p, k) = ItemsFrom(heads, items, p, k)
<1> DEFINE head == heads[p]
           item == Behind(head.links, items[head.end][head.nested])
<1>1. IsHead(L, p, n, head)
  BY DEF IsHeads
<1>2. CASE k = 0
  <2>1. << >> \in Seq(L)
    BY EmptySeq
  <2>2. Ends(p, << >>) \in Yields(L, p, n)
    BY <2>1 DEF Ends, Yields
  <2>3. QED BY <1>2, <2>2 DEF ItemsFrom
<1>3. CASE k # 0 /\ ~head.ok
  <2>1. head.end \in p .. n /\ head.links \in Seq(L)
    BY <1>1 DEF IsHead
  <2>2. Stops(head.end, head.links) \in Yields(L, p, n)
    BY <2>1 DEF Stops, Yields
  <2>3. QED BY <1>3, <2>2 DEF ItemsFrom
<1>4. CASE k # 0 /\ head.ok
  <2>1. head.end \in (p + 1) .. n /\ head.nested \in Nat /\ head.links \in Seq(L)
    BY <1>1, <1>4 DEF IsHead
  <2>2. /\ items[head.end][head.nested] \in Yields(L, head.end, n)
        /\ others[head.end][head.nested] = items[head.end][head.nested]
    BY <2>1
  <2>3. item \in Yields(L, head.end, n) /\ item \in Yields(L, p, n)
    <3>1. head.end \in Nat /\ p \in Nat /\ p <= head.end
      BY <2>1
    <3>2. QED BY <2>1, <2>2, <3>1, BehindType
  <2>4. CASE ~item.ok
    BY <1>4, <2>2, <2>3, <2>4 DEF ItemsFrom
  <2>5. CASE item.ok
    <3>1. item.end \in (p + 1) .. n /\ item.links \in Seq(L) /\ k - 1 \in Nat
      BY <1>4, <2>1, <2>3 DEF Yields
    <3>2. /\ items[item.end][k - 1] \in Yields(L, item.end, n)
          /\ others[item.end][k - 1] = items[item.end][k - 1]
      BY <3>1
    <3>3. Behind(item.links, items[item.end][k - 1]) \in Yields(L, p, n)
      <4>1. item.end \in Nat /\ p \in Nat /\ p <= item.end
        BY <3>1
      <4>2. QED BY <3>1, <3>2, <4>1, BehindType
    <3>4. /\ ItemsFrom(heads, items, p, k) = Behind(item.links, items[item.end][k - 1])
          /\ ItemsFrom(heads, others, p, k) = Behind(item.links, others[item.end][k - 1])
      BY <1>4, <2>2, <2>5 DEF ItemsFrom
    <3>5. QED BY <3>2, <3>3, <3>4
  <2>6. QED BY <2>4, <2>5
<1>5. QED BY <1>2, <1>3, <1>4

\* Downward induction.
LEMMA Downward ==
  ASSUME NEW n \in Nat, NEW S \in SUBSET (0 .. (n + 1)),
         n + 1 \in S, \A m \in 0 .. n : m + 1 \in S => m \in S
  PROVE  S = 0 .. (n + 1)
<1> SUFFICES ASSUME S # 0 .. (n + 1) PROVE FALSE
  OBVIOUS
<1> DEFINE T == { m \in 0 .. (n + 1) : (n + 1) - m \notin S }
<1>1. PICK x \in 0 .. (n + 1) : x \notin S
  OBVIOUS
<1>2. (n + 1) - x \in T
  <2>1. (n + 1) - x \in 0 .. (n + 1) /\ (n + 1) - ((n + 1) - x) = x
    BY <1>1
  <2>2. QED BY <2>1, <1>1
<1>3. PICK m \in T : \A k \in T : m <= k
  <2>1. T \subseteq Nat
    OBVIOUS
  <2> HIDE DEF T
  <2>2. T # {}
    BY <1>2
  <2>3. QED BY <2>1, <2>2, LeastElement, Zenon
<1>4. m \in 0 .. (n + 1) /\ (n + 1) - m \notin S
  BY <1>3
<1>5. m # 0
  BY <1>4
<1>6. m - 1 \in 0 .. (n + 1) /\ (n + 1) - (m - 1) = ((n + 1) - m) + 1 /\ (n + 1) - m \in 0 .. n
  BY <1>4, <1>5
<1>7. (n + 1) - (m - 1) \in S
  <2>1. m - 1 \notin T
    <3> HIDE DEF T
    <3>1. m - 1 \in T => m <= m - 1
      BY <1>3
    <3>2. QED BY <3>1, <1>4
  <2>2. QED BY <2>1, <1>6
<1>8. QED BY <1>4, <1>6, <1>7

\* The recursion has a solution, built from the end.
LEMMA Solvable ==
  ASSUME NEW L, NEW n \in Nat, NEW heads, IsHeads(L, n, heads)
  PROVE  \E items : /\ items = [p \in 0 .. n |-> [k \in Nat |-> ItemsFrom(heads, items, p, k)]]
                    /\ Solves(L, n, heads, items, 0)
<1> DEFINE S == { m \in 0 .. (n + 1) :
                    \E items : /\ items = [p \in 0 .. n |-> items[p]]
                               /\ \A p \in m .. n : items[p] = [k \in Nat |-> ItemsFrom(heads, items, p, k)]
                               /\ Solves(L, n, heads, items, m) }
<1>1. n + 1 \in S
  <2> DEFINE none == [p \in 0 .. n |-> 0]
  <2>1. none = [p \in 0 .. n |-> none[p]]
    OBVIOUS
  <2>2. (n + 1) .. n = {} /\ n + 1 \in 0 .. (n + 1)
    OBVIOUS
  <2>3. QED BY <2>1, <2>2 DEF Solves
<1>2. ASSUME NEW m \in 0 .. n, m + 1 \in S
      PROVE  m \in S
  <2>1. PICK items : /\ items = [p \in 0 .. n |-> items[p]]
                     /\ \A p \in (m + 1) .. n : items[p] = [k \in Nat |-> ItemsFrom(heads, items, p, k)]
                     /\ Solves(L, n, heads, items, m + 1)
    BY <1>2
  <2> DEFINE more == [p \in 0 .. n |-> IF p = m THEN [k \in Nat |-> ItemsFrom(heads, items, m, k)]
                                                ELSE items[p]]
  <2>2. /\ more = [p \in 0 .. n |-> more[p]]
        /\ more[m] = [k \in Nat |-> ItemsFrom(heads, items, m, k)]
        /\ \A p \in (m + 1) .. n : p \in 0 .. n /\ more[p] = items[p]
    OBVIOUS
  <2> HIDE DEF more
  <2>3. \A q \in (m + 1) .. n : \A j \in Nat :
          items[q][j] \in Yields(L, q, n) /\ more[q][j] = items[q][j]
    BY <2>1, <2>2 DEF Solves
  <2>4. \A p \in m .. n : \A k \in Nat :
          /\ ItemsFrom(heads, items, p, k) \in Yields(L, p, n)
          /\ ItemsFrom(heads, more, p, k) = ItemsFrom(heads, items, p, k)
    <3> SUFFICES ASSUME NEW p \in m .. n, NEW k \in Nat
                 PROVE  /\ ItemsFrom(heads, items, p, k) \in Yields(L, p, n)
                        /\ ItemsFrom(heads, more, p, k) = ItemsFrom(heads, items, p, k)
      OBVIOUS
    <3>1. p \in 0 .. n /\ \A q \in (p + 1) .. n : q \in (m + 1) .. n
      OBVIOUS
    <3>2. QED BY <2>3, <3>1, FromLater
  <2>5. \A p \in m .. n : more[p] = [k \in Nat |-> ItemsFrom(heads, more, p, k)]
    <3> SUFFICES ASSUME NEW p \in m .. n PROVE more[p] = [k \in Nat |-> ItemsFrom(heads, more, p, k)]
      OBVIOUS
    <3>1. [k \in Nat |-> ItemsFrom(heads, more, p, k)] = [k \in Nat |-> ItemsFrom(heads, items, p, k)]
      BY <2>4
    <3>2. p = m \/ p \in (m + 1) .. n
      OBVIOUS
    <3>3. QED BY <3>1, <3>2, <2>1, <2>2
  <2>6. Solves(L, n, heads, more, m)
    <3> SUFFICES ASSUME NEW p \in m .. n, NEW k \in Nat
                 PROVE  /\ more[p][k] = ItemsFrom(heads, more, p, k)
                        /\ more[p][k] \in Yields(L, p, n)
      BY DEF Solves
    <3>1. more[p][k] = ItemsFrom(heads, more, p, k)
      BY <2>5
    <3>2. QED BY <3>1, <2>4
  <2>7. m \in 0 .. (n + 1)
    OBVIOUS
  <2>8. QED BY <2>2, <2>5, <2>6, <2>7, Zenon
<1>3. S = 0 .. (n + 1)
  <2>1. S \in SUBSET (0 .. (n + 1))
    OBVIOUS
  <2> HIDE DEF S
  <2>2. QED BY <1>1, <1>2, <2>1, Downward
<1>4. PICK items : /\ items = [p \in 0 .. n |-> items[p]]
                   /\ \A p \in 0 .. n : items[p] = [k \in Nat |-> ItemsFrom(heads, items, p, k)]
                   /\ Solves(L, n, heads, items, 0)
  <2>1. 0 \in S
    BY <1>3
  <2>2. QED BY <2>1
<1>5. items = [p \in 0 .. n |-> [k \in Nat |-> ItemsFrom(heads, items, p, k)]]
  BY <1>4
<1>6. QED BY <1>4, <1>5

LEMMA Recursion ==
  ASSUME NEW L, NEW n \in Nat, NEW heads, IsHeads(L, n, heads)
  PROVE  Solves(L, n, heads, ItemsIn(heads), 0)
<1> DEFINE F == ItemsIn(heads)
<1>1. DOMAIN heads = 0 .. n
  BY DEF IsHeads
<1>2. \E items : items = [p \in 0 .. n |-> [k \in Nat |-> ItemsFrom(heads, items, p, k)]]
  BY Solvable
<1>3. F = [p \in 0 .. n |-> [k \in Nat |-> ItemsFrom(heads, F, p, k)]]
  BY <1>1, <1>2, Zenon DEF ItemsIn
<1> HIDE DEF F
<1>4. ASSUME NEW p \in 0 .. n, NEW k \in Nat PROVE F[p][k] = ItemsFrom(heads, F, p, k)
  <2>1. F[p] = [j \in Nat |-> ItemsFrom(heads, F, p, j)]
    BY <1>3, Zenon
  <2>2. QED BY <2>1, Zenon
<1> DEFINE S == { m \in 0 .. (n + 1) : \A p \in m .. n : \A k \in Nat : F[p][k] \in Yields(L, p, n) }
<1>5. n + 1 \in S
  OBVIOUS
<1>6. ASSUME NEW m \in 0 .. n, m + 1 \in S PROVE m \in S
  <2>1. \A q \in (m + 1) .. n : \A j \in Nat : F[q][j] \in Yields(L, q, n)
    BY <1>6
  <2>2. \A k \in Nat : F[m][k] \in Yields(L, m, n)
    <3> SUFFICES ASSUME NEW k \in Nat PROVE F[m][k] \in Yields(L, m, n)
      OBVIOUS
    <3>1. ItemsFrom(heads, F, m, k) \in Yields(L, m, n)
      BY <2>1, FromLater
    <3>2. QED BY <3>1, <1>4
  <2>3. \A p \in m .. n : p = m \/ p \in (m + 1) .. n
    OBVIOUS
  <2>4. \A p \in m .. n : \A k \in Nat : F[p][k] \in Yields(L, p, n)
    BY <2>1, <2>2, <2>3
  <2>5. m \in 0 .. (n + 1)
    OBVIOUS
  <2>6. QED BY <2>4, <2>5
<1>7. 0 \in S
  <2>1. S \in SUBSET (0 .. (n + 1))
    OBVIOUS
  <2> HIDE DEF S
  <2>2. S = 0 .. (n + 1)
    BY <1>5, <1>6, <2>1, Downward
  <2>3. QED BY <2>2
<1>8. QED BY <1>4, <1>7 DEF Solves, F

\* b more items after what a items have yielded.
Then(items, item, b) == IF item.ok THEN Behind(item.links, items[item.end][b]) ELSE item

Splits(items, n) == \A p \in 0 .. n : \A a, b \in Nat : items[p][a + b] = Then(items, items[p][a], b)

\* The items after a position need not be read in the groups that they nest in.
LEMMA InAnyGroups ==
  ASSUME NEW L, NEW n \in Nat, NEW heads, IsHeads(L, n, heads)
  PROVE  Splits(ItemsIn(heads), n)
<1> DEFINE F == ItemsIn(heads)
           S == { m \in 0 .. (n + 1) :
                    \A p \in m .. n : \A a, b \in Nat : F[p][a + b] = Then(F, F[p][a], b) }
<1>1. \A p \in 0 .. n : \A k \in Nat :
        F[p][k] = ItemsFrom(heads, F, p, k) /\ F[p][k] \in Yields(L, p, n)
  BY Recursion DEF Solves
<1> HIDE DEF F
<1>2. n + 1 \in S
  OBVIOUS
<1>3. ASSUME NEW m \in 0 .. n, m + 1 \in S PROVE m \in S
  <2>1. \A p \in (m + 1) .. n : \A a, b \in Nat : F[p][a + b] = Then(F, F[p][a], b)
    BY <1>3
  <2>2. ASSUME NEW a \in Nat, NEW b \in Nat
        PROVE  F[m][a + b] = Then(F, F[m][a], b)
    <3> DEFINE head == heads[m]
               item == Behind(head.links, F[head.end][head.nested])
    <3>1. IsHead(L, m, n, head)
      BY DEF IsHeads
    <3>2. F[m][a + b] = ItemsFrom(heads, F, m, a + b) /\ F[m][a] = ItemsFrom(heads, F, m, a)
      BY <1>1
    <3>3. CASE a = 0
      <4>1. F[m][a] = Ends(m, << >>) /\ F[m][a + b] = F[m][b]
        BY <3>2, <3>3 DEF ItemsFrom
      <4>2. F[m][b] \in Yields(L, m, n) /\ << >> \in Seq(L) /\ m \in Nat
        BY <1>1, EmptySeq
      <4>3. Behind(<< >>, F[m][b]) = F[m][b]
        BY <4>2, BehindAll
      <4>4. QED BY <4>1, <4>3 DEF Then, Ends
    <3>4. CASE a # 0 /\ ~head.ok
      <4>1. a + b # 0
        BY <3>4
      <4>2. QED BY <3>2, <3>4, <4>1 DEF ItemsFrom, Then, Stops
    <3>5. CASE a # 0 /\ head.ok
      <4>1. a + b # 0 /\ a - 1 \in Nat /\ (a + b) - 1 = (a - 1) + b
        BY <3>5
      <4>2. head.end \in (m + 1) .. n /\ head.nested \in Nat /\ head.links \in Seq(L)
        BY <3>1, <3>5 DEF IsHead
      <4>3. item \in Yields(L, head.end, n)
        <5>1. head.end \in Nat /\ head.end \in 0 .. n /\ head.end <= head.end
          BY <4>2
        <5>2. F[head.end][head.nested] \in Yields(L, head.end, n)
          BY <1>1, <4>2, <5>1
        <5>3. QED BY <4>2, <5>1, <5>2, BehindType
      <4>4. CASE ~item.ok
        BY <3>2, <3>5, <4>1, <4>4 DEF ItemsFrom, Then
      <4>5. CASE item.ok
        <5>1. item.end \in (m + 1) .. n /\ item.end \in 0 .. n /\ item.links \in Seq(L)
          BY <4>2, <4>3 DEF Yields
        <5>2. PICK rest : rest = F[item.end][a - 1] /\ rest \in Yields(L, item.end, n)
          BY <1>1, <4>1, <5>1
        <5>3. F[item.end][(a - 1) + b] = Then(F, rest, b)
          BY <2>1, <4>1, <5>1, <5>2
        <5>4. /\ F[m][a] = Behind(item.links, rest)
              /\ F[m][a + b] = Behind(item.links, Then(F, rest, b))
          BY <3>2, <3>5, <4>1, <4>5, <5>2, <5>3 DEF ItemsFrom
        <5>5. /\ Behind(item.links, rest).ok = rest.ok
              /\ Behind(item.links, rest).end = rest.end
              /\ Behind(item.links, rest).links = item.links \o rest.links
          BY DEF Behind
        <5>6. CASE ~rest.ok
          BY <5>4, <5>5, <5>6 DEF Then
        <5>7. CASE rest.ok
          <6>0. rest.end \in item.end .. n /\ rest.links \in Seq(L)
            BY <5>2 DEF Yields
          <6>1. rest.end \in 0 .. n /\ rest.links \in Seq(L)
            BY <5>1, <6>0
          <6>2. F[rest.end][b] \in Yields(L, rest.end, n) /\ rest.end \in Nat
            BY <1>1, <6>1
          <6>3. Behind(item.links, Behind(rest.links, F[rest.end][b]))
                  = Behind(item.links \o rest.links, F[rest.end][b])
            BY <5>1, <6>1, <6>2, BehindAll
          <6>4. QED BY <5>4, <5>5, <5>7, <6>3 DEF Then
        <5>8. QED BY <5>6, <5>7
      <4>6. QED BY <4>4, <4>5
    <3>6. QED BY <3>3, <3>4, <3>5
  <2>3. \A p \in m .. n : p = m \/ p \in (m + 1) .. n
    OBVIOUS
  <2>4. \A p \in m .. n : \A a, b \in Nat : F[p][a + b] = Then(F, F[p][a], b)
    BY <2>1, <2>2, <2>3
  <2>5. m \in 0 .. (n + 1)
    OBVIOUS
  <2>6. QED BY <2>4, <2>5
<1>4. 0 \in S
  <2>1. S \in SUBSET (0 .. (n + 1))
    OBVIOUS
  <2> HIDE DEF S
  <2>2. S = 0 .. (n + 1)
    BY <1>2, <1>3, <2>1, Downward
  <2>3. QED BY <2>2
<1>5. QED BY <1>4 DEF Splits, F

\* Items that are counted: after a head, those inside it are read like those that
\* follow it.
Counts(items, heads, n) ==
  \A p \in 0 .. n :
    /\ items[p][0] = Ends(p, << >>)
    /\ \A k \in Nat \ {0} :
         /\ ~heads[p].ok => items[p][k] = Stops(heads[p].end, heads[p].links)
         /\ heads[p].ok =>
              items[p][k] = Behind(heads[p].links, items[heads[p].end][heads[p].nested + (k - 1)])

\* A counter is as good as a stack (utils.go:165-171).
THEOREM CountsAsNested ==
  ASSUME NEW L, NEW n \in Nat, NEW heads, IsHeads(L, n, heads)
  PROVE  Counts(ItemsIn(heads), heads, n)
<1> SUFFICES ASSUME NEW p \in 0 .. n, NEW k \in Nat \ {0}
             PROVE  /\ ItemsIn(heads)[p][0] = Ends(p, << >>)
                    /\ ~heads[p].ok => ItemsIn(heads)[p][k] = Stops(heads[p].end, heads[p].links)
                    /\ heads[p].ok =>
                         ItemsIn(heads)[p][k]
                           = Behind(heads[p].links, ItemsIn(heads)[heads[p].end][heads[p].nested + (k - 1)])
  BY 1 \in Nat \ {0} DEF Counts
<1> DEFINE F == ItemsIn(heads)
           head == heads[p]
<1>1. \A q \in 0 .. n : \A j \in Nat :
        F[q][j] = ItemsFrom(heads, F, q, j) /\ F[q][j] \in Yields(L, q, n)
  BY Recursion DEF Solves
<1>2. Splits(F, n)
  BY InAnyGroups
<1> HIDE DEF F
<1>3. F[p][0] = Ends(p, << >>)
  BY <1>1 DEF ItemsFrom
<1>4. ASSUME ~head.ok PROVE F[p][k] = Stops(head.end, head.links)
  BY <1>1, <1>4 DEF ItemsFrom
<1>5. ASSUME head.ok PROVE F[p][k] = Behind(head.links, F[head.end][head.nested + (k - 1)])
  <2>1. /\ head.end \in 0 .. n /\ head.end \in Nat /\ head.nested \in Nat /\ head.links \in Seq(L)
        /\ k - 1 \in Nat
    BY <1>5 DEF IsHeads, IsHead
  <2>2. PICK inner : inner = F[head.end][head.nested] /\ inner \in Yields(L, head.end, n)
    BY <1>1, <2>1
  <2>3. F[head.end][head.nested + (k - 1)] = Then(F, inner, k - 1)
    BY <1>2, <2>1, <2>2 DEF Splits
  <2>4. /\ Behind(head.links, inner).ok = inner.ok
        /\ Behind(head.links, inner).end = inner.end
        /\ Behind(head.links, inner).links = head.links \o inner.links
    BY DEF Behind
  <2>5. F[p][k] = IF ~inner.ok THEN Behind(head.links, inner)
                  ELSE Behind(head.links \o inner.links, F[inner.end][k - 1])
    BY <1>1, <1>5, <2>2, <2>4 DEF ItemsFrom
  <2>6. CASE ~inner.ok
    BY <2>3, <2>5, <2>6 DEF Then
  <2>7. CASE inner.ok
    <3>1. inner.end \in 0 .. n /\ inner.links \in Seq(L)
      BY <2>1, <2>2 DEF Yields
    <3>2. F[inner.end][k - 1] \in Yields(L, inner.end, n) /\ inner.end \in Nat
      BY <1>1, <2>1, <3>1
    <3>3. Behind(head.links, Behind(inner.links, F[inner.end][k - 1]))
            = Behind(head.links \o inner.links, F[inner.end][k - 1])
      BY <2>1, <3>1, <3>2, BehindAll
    <3>4. QED BY <2>3, <2>5, <2>7, <3>3 DEF Then
  <2>8. QED BY <2>6, <2>7
<1>6. QED BY <1>3, <1>4, <1>5 DEF F

-----------------------------------------------------------------------------

\* What there is of a header is in the stream.
LEMMA HeaderHere ==
  ASSUME NEW s \in Seq(Byte), NEW p \in 0 .. Len(s)
  PROVE  LET hd == CborReadHeaderBuf(s, p) IN
         /\ p + hd.n \in p .. Len(s)
         /\ hd.ok => p + hd.n > p /\ hd.extra \in Nat
<1> DEFINE hd == CborReadHeaderBuf(s, p)
           n == hd.n
<1>1. Len(s) \in Nat /\ p \in Nat
  BY LenProperties
<1>2. CASE ~hd.ok
  <2>1. n \in 0 .. (Len(s) - p)
    BY <1>2, HeaderTakes
  <2> HIDE DEF n
  <2>2. p + n \in p .. Len(s)
    BY <2>1, <1>1
  <2>3. QED BY <2>2, <1>2 DEF n
<1>3. CASE hd.ok
  <2>1. n \in Nat \ {0} /\ p + n <= Len(s) /\ hd.extra \in Arguments
    BY <1>1, <1>3, WritesWhatIsRead
  <2>2. hd.extra \in Nat
    BY <2>1, Sizes, SizesAssumption DEF Arguments
  <2> HIDE DEF n
  <2>3. p + n \in p .. Len(s) /\ p + n > p
    BY <2>1, <1>1
  <2>4. QED BY <2>2, <2>3 DEF n
<1>4. QED BY <1>2, <1>3

\* What the scanners make of a header is what the grammar makes of it.
LEMMA ItemHeadIs ==
  ASSUME NEW s \in Seq(Byte), NEW p \in 0 .. Len(s)
  PROVE  LET hd    == CborReadHeaderBuf(s, p)
             q     == p + hd.n
             asked == Payload(hd.maj, hd.extra)
         IN
         /\ ~hd.ok => ItemHead(s, p) = BadHead(q)
         /\ hd.ok /\ q + asked <= Len(s) =>
              ItemHead(s, p) = GoodHead(q + asked, Nested(hd.maj, hd.extra), << >>)
         /\ hd.ok /\ ~(q + asked <= Len(s)) => ItemHead(s, p) = BadHead(Len(s))
<1> DEFINE hd == CborReadHeaderBuf(s, p)
           q == p + hd.n
           asked == Payload(hd.maj, hd.extra)
<1>1. CASE ~hd.ok
  BY <1>1 DEF ItemHead
<1>2. CASE hd.ok
  <2>1. q \in p .. Len(s) /\ hd.extra \in Nat /\ Len(s) \in Nat
    BY <1>2, HeaderHere, LenProperties
  <2>2. CASE IsString(hd.maj)
    <3>1. asked = hd.extra /\ Nested(hd.maj, hd.extra) = 0
      BY <2>2 DEF Payload, Nested, IsString, MajByteString, MajTextString, MajTag, MajArray, MajMap
    <3>2. ItemHead(s, p) = IF q + hd.extra <= Len(s) THEN GoodHead(q + hd.extra, 0, << >>) ELSE BadHead(Len(s))
      BY <1>2, <2>2 DEF ItemHead, IsString, MajByteString, MajTextString, MajTag, MajArray, MajMap
    <3>3. QED BY <3>1, <3>2, <1>2
  <2>3. CASE ~IsString(hd.maj)
    <3>1. asked = 0
      BY <2>3 DEF Payload
    <3>2. q + asked = q /\ q + asked <= Len(s)
      BY <3>1, <2>1
    <3>3. ItemHead(s, p) = GoodHead(q, Nested(hd.maj, hd.extra), << >>)
      BY <1>2, <2>3 DEF ItemHead, Nested, IsString, MajByteString, MajTextString, MajTag, MajArray, MajMap
    <3>4. QED BY <3>2, <3>3, <1>2
  <2>4. QED BY <2>2, <2>3
<1>3. QED BY <1>1, <1>2

LEMMA ItemHeadType ==
  ASSUME NEW s \in Seq(Byte), NEW p \in 0 .. Len(s), NEW L
  PROVE  IsHead(L, p, Len(s), ItemHead(s, p))
<1> DEFINE hd == CborReadHeaderBuf(s, p)
           q == p + hd.n
           asked == Payload(hd.maj, hd.extra)
<1>1. Len(s) \in Nat /\ p \in Nat /\ q \in p .. Len(s) /\ << >> \in Seq(L)
  BY HeaderHere, LenProperties, EmptySeq
<1>2. CASE ~hd.ok
  <2>1. ItemHead(s, p) = BadHead(q)
    BY <1>2, ItemHeadIs
  <2>2. QED BY <2>1, <1>1 DEF IsHead, BadHead
<1>3. CASE hd.ok /\ q + asked <= Len(s)
  <2>1. hd.extra \in Nat /\ q > p
    BY <1>3, HeaderHere
  <2>2. asked \in Nat /\ Nested(hd.maj, hd.extra) \in Nat
    BY <2>1 DEF Payload, Nested
  <2>3. q + asked \in p .. Len(s) /\ q + asked > p
    <3> HIDE DEF q, asked
    <3>1. QED BY <1>1, <1>3, <2>1, <2>2
  <2>4. ItemHead(s, p) = GoodHead(q + asked, Nested(hd.maj, hd.extra), << >>)
    BY <1>3, ItemHeadIs
  <2>5. QED BY <2>2, <2>3, <2>4, <1>1 DEF IsHead, GoodHead
<1>4. CASE hd.ok /\ ~(q + asked <= Len(s))
  <2>1. ItemHead(s, p) = BadHead(Len(s))
    BY <1>4, ItemHeadIs
  <2>2. Len(s) \in p .. Len(s)
    BY <1>1
  <2>3. QED BY <2>1, <2>2, <1>1 DEF IsHead, BadHead
<1>5. QED BY <1>2, <1>3, <1>4

-----------------------------------------------------------------------------

LEMMA Remainder ==
  ASSUME NEW m \in Nat \ {0}, NEW x \in Int
  PROVE  /\ x % m \in 0 .. (m - 1)
         /\ x \in 0 .. (m - 1) => x % m = x
         /\ x \in (-m) .. -1 => x % m = x + m
<1>1. x % m \in 0 .. (m - 1)
  OBVIOUS
<1>2. x \in 0 .. (m - 1) => x % m = x
  OBVIOUS
<1>3. x \in (-m) .. -1 => x % m = x + m
  OBVIOUS
<1>4. QED BY <1>1, <1>2, <1>3

\* Within the width nothing is lost; next to it the sign changes.  The provers do
\* not know what a power is: h is 2^(w - 1), and w at least 1.
LEMMA IntOfIs ==
  ASSUME NEW w, NEW h \in Nat \ {0}, Pow2(w) = 2 * h, Pow2(w - 1) = h, NEW x \in Int
  PROVE  /\ x \in (-h) .. (h - 1) => IntOf(x, w) = x
         /\ x = h => IntOf(x, w) = -h
         /\ x = -h - 1 => IntOf(x, w) = h - 1
         /\ IntOf(x, w) \in (-h) .. (h - 1)
<1> DEFINE low == x % (2 * h)
<1>1. IntOf(x, w) = IF low < h THEN low ELSE low - 2 * h
  BY DEF IntOf
<1>2. /\ low \in 0 .. (2 * h - 1)
      /\ x \in 0 .. (2 * h - 1) => low = x
      /\ x \in (-(2 * h)) .. -1 => low = x + 2 * h
  BY Remainder, 2 * h \in Nat \ {0}
<1> HIDE DEF low
<1>3. QED BY <1>1, <1>2

\* The template of an int field writes -v - 1 in the width of the field, where -v
\* overflows for the least integer (gen.go:424-433): it is right all the same.
LEMMA ComplementIs ==
  ASSUME NEW w, NEW h \in Nat \ {0}, Pow2(w) = 2 * h, Pow2(w - 1) = h, NEW v \in (-h) .. -1
  PROVE  Complement(v, w) = -1 - v
<1>1. CASE v = -h
  <2>1. IntOf(-v, w) = -h
    BY <1>1, IntOfIs, -v \in Int
  <2>2. IntOf(-h - 1, w) = h - 1
    BY IntOfIs, -h - 1 \in Int
  <2>3. QED BY <1>1, <2>1, <2>2 DEF Complement
<1>2. CASE v # -h
  <2>1. -v \in (-h) .. (h - 1) /\ -v - 1 \in (-h) .. (h - 1)
    BY <1>2
  <2>2. IntOf(-v, w) = -v
    BY <2>1, IntOfIs
  <2>3. IntOf(-v - 1, w) = -v - 1
    BY <2>1, IntOfIs
  <2>4. -v - 1 = -1 - v
    OBVIOUS
  <2>5. QED BY <2>2, <2>3, <2>4 DEF Complement
<1>3. QED BY <1>1, <1>2

\* What MarshalCBOR writes for an integer of w bits, the least one included, is
\* accepted by the decoder of a field of w bits and is that integer again
\* (gen.go:424-433, 842-856).
THEOREM IntegersComeBack ==
  ASSUME NEW w, NEW h \in Nat \ {0}, Pow2(w) = 2 * h, Pow2(w - 1) = h, NEW v \in Ints(w)
  PROVE  ReadsInt(WriteInt(v, w), w) /\ IntRead(WriteInt(v, w), w) = v
<1>1. v \in (-h) .. (h - 1)
  BY DEF Ints
<1>2. CASE v >= 0
  <2>1. WriteInt(v, w) = [maj |-> MajUnsignedInt, extra |-> v]
    BY <1>2 DEF WriteInt, WriteUint
  <2>2. IntOf(v, w) = v
    BY <1>1, IntOfIs
  <2>3. ~(IntOf(v, w) < 0)
    BY <2>2, <1>1, <1>2
  <2>4. QED BY <2>1, <2>2, <2>3 DEF ReadsInt, IntRead, Overflows
<1>3. CASE ~(v >= 0)
  <2>1. v \in (-h) .. -1
    BY <1>1, <1>3
  <2> DEFINE c == -1 - v
  <2>2. WriteInt(v, w) = [maj |-> MajNegativeInt, extra |-> c]
    BY <2>1, <1>3, ComplementIs DEF WriteInt
  <2>3. c \in 0 .. (h - 1) /\ c \in (-h) .. (h - 1) /\ -1 - c = v
    BY <2>1
  <2> HIDE DEF c
  <2>4. IntOf(c, w) = c
    BY <2>3, IntOfIs
  <2>5. ~(IntOf(c, w) < 0)
    BY <2>3, <2>4
  <2>6. MajNegativeInt # MajUnsignedInt
    BY DEF MajNegativeInt, MajUnsignedInt
  <2>7. IntRead(WriteInt(v, w), w) = -1 - IntOf(c, w)
    BY <2>2, <2>6 DEF IntRead
  <2>8. QED BY <2>2, <2>3, <2>4, <2>5, <2>7 DEF ReadsInt, Overflows
<1>4. QED BY <1>2, <1>3

\* The arguments that an int field takes for another integer than they stand for
\* are those of 2^(w - 1) or more whose low w bits are less: the test of the sign
\* (gen.go:842-852) refuses the others only.
THEOREM WhatOverflowMisses ==
  ASSUME NEW w, NEW h \in Nat \ {0}, Pow2(w) = 2 * h, Pow2(w - 1) = h,
         NEW maj \in {MajUnsignedInt, MajNegativeInt}, NEW extra \in Nat
  PROVE  LET hd == [maj |-> maj, extra |-> extra] IN
         /\ ReadsInt(hd, w) <=> extra % (2 * h) < h
         /\ IntRead(hd, w) = Meant(hd) <=> extra < h
<1> DEFINE hd == [maj |-> maj, extra |-> extra]
           low == extra % (2 * h)
           n == IntOf(extra, w)
<1>1. n = IF low < h THEN low ELSE low - 2 * h
  BY DEF IntOf
<1>2. low \in 0 .. (2 * h - 1)
  <2>1. extra \in Int /\ 2 * h \in Nat \ {0}
    OBVIOUS
  <2>2. QED BY <2>1, Remainder
<1>3. n \in (-h) .. (h - 1) /\ (extra < h => n = extra)
  <2>1. extra \in Int /\ (extra < h => extra \in (-h) .. (h - 1))
    OBVIOUS
  <2>2. QED BY <2>1, IntOfIs
<1>4. /\ ReadsInt(hd, w) <=> ~(n < 0)
      /\ IntRead(hd, w) = IF maj = MajUnsignedInt THEN n ELSE -1 - n
      /\ Meant(hd) = IF maj = MajUnsignedInt THEN extra ELSE -1 - extra
  BY DEF ReadsInt, Overflows, IntRead, Meant
<1> HIDE DEF hd, low, n
<1>5. ~(n < 0) <=> low < h
  BY <1>1, <1>2
<1>6. n = extra <=> extra < h
  BY <1>3
<1>7. -1 - n = -1 - extra <=> extra < h
  BY <1>3
<1>8. QED BY <1>4, <1>5, <1>6, <1>7 DEF hd, low
=============================================================================
