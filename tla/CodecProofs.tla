---------------------------- MODULE CodecProofs ----------------------------
(***************************************************************************)
(* For every wire format, every header and every struct type with fields   *)
(* of any of the kinds, in either representation: what is written is read  *)
(* back, and a part of it is not.                                          *)
(***************************************************************************)
EXTENDS HeaderCodec, StructTuple, StructMap, FieldCodecProofs

\* What the codec has sent and received.
HeaderIInv ==
  /\ wire \in Seq(Byte)
  /\ written # noHeader =>
       \E maj \in Majors, l \in Arguments :
         /\ written = Header(maj, l, Len(WriteMajorTypeHeader(maj, l)))
         /\ Len(WriteMajorTypeHeader(maj, l)) <= Len(wire)
         /\ SubSeq(wire, 1, Len(WriteMajorTypeHeader(maj, l))) = WriteMajorTypeHeader(maj, l)
  /\ answer # noHeader => wire # << >> /\ answer = CborReadHeaderBuf(wire, 0)

LEMMA NoHeaderIsNone ==
  /\ ~noHeader.ok
  /\ \A maj, l, n : Header(maj, l, n) # noHeader
BY DEF noHeader, Header

LEMMA HeaderStepHolds == HeaderIInv /\ [HeaderNext]_headerVars => HeaderIInv'
<1> SUFFICES ASSUME HeaderIInv, [HeaderNext]_headerVars PROVE HeaderIInv'
  OBVIOUS
<1>1. ASSUME NEW maj \in Majors, NEW l \in Arguments, NEW more \in Followers, WriteHeader(maj, l, more)
      PROVE  HeaderIInv'
  <2> DEFINE w == WriteMajorTypeHeader(maj, l)
  <2>1. w \in Seq(Byte) /\ Len(w) \in Nat \ {0} /\ more \in Seq(Byte)
    BY WriteType, WiresAssumption
  <2>2. written' = Header(maj, l, Len(w)) /\ wire' = w \o more /\ answer' = answer /\ wire = << >>
    BY <1>1 DEF WriteHeader
  <2> HIDE DEF w
  <2>3. /\ w \o more \in Seq(Byte) /\ Len(w \o more) = Len(w) + Len(more)
    BY <2>1, ConcatProperties, Zenon
  <2>4. Len(w) <= Len(wire') /\ wire' # << >>
    BY <2>1, <2>2, <2>3, LenProperties, EmptySeq
  <2>5. SubSeq(wire', 1, Len(w)) = w
    <3>1. 1 \in 1 .. Len(w) /\ Len(w) \in 1 .. Len(w)
      BY <2>1
    <3>2. SubSeq(w \o more, 1, Len(w)) = SubSeq(w, 1, Len(w))
      BY <2>1, <3>1, SubSeqOfConcat1
    <3>3. QED BY <2>1, <2>2, <3>2, SubSeqFull
  <2>6. answer' = noHeader
    BY <2>2 DEF HeaderIInv
  <2>7. wire' \in Seq(Byte)
    BY <2>2, <2>3
  <2>8. QED BY <2>2, <2>4, <2>5, <2>6, <2>7 DEF HeaderIInv, w
<1>2. ASSUME NEW bytes \in Wires, ReceiveBytes(bytes)
      PROVE  HeaderIInv'
  <2>1. written = noHeader \/ FALSE
    <3>1. ASSUME NEW maj \in Majors, NEW l \in Arguments, Len(WriteMajorTypeHeader(maj, l)) <= Len(wire)
          PROVE  FALSE
      <4>1. Len(wire) = 0
        BY <1>2, EmptySeq DEF ReceiveBytes
      <4>2. QED BY <3>1, <4>1, WriteType
    <3>2. QED BY <3>1 DEF HeaderIInv
  <2>2. wire' \in Seq(Byte) /\ written' = noHeader /\ answer' = noHeader
    BY <1>2, <2>1, WiresAssumption DEF ReceiveBytes, HeaderIInv
  <2>3. QED BY <2>2 DEF HeaderIInv
<1>3. CASE ReadHeader
  BY <1>3 DEF ReadHeader, HeaderIInv
<1>4. CASE UNCHANGED headerVars
  BY <1>4 DEF headerVars, HeaderIInv
<1>5. QED BY <1>1, <1>2, <1>3, <1>4 DEF HeaderNext

LEMMA HeaderInitHolds == HeaderInit => HeaderIInv
BY EmptySeq DEF HeaderInit, HeaderIInv

\* Whatever header is written and whatever follows it, the reader returns that
\* header and takes no more bytes than were written (utils.go:333-394, 402-449).
THEOREM AlwaysHeaderRoundTrip == HeaderSpec => []HeaderRoundTrip
<1>1. HeaderIInv => HeaderRoundTrip
  <2> SUFFICES ASSUME HeaderIInv, written.ok, answer # noHeader PROVE answer = written
    BY DEF HeaderRoundTrip
  <2>1. written # noHeader
    BY NoHeaderIsNone
  <2>2. PICK maj \in Majors, l \in Arguments :
          /\ written = Header(maj, l, Len(WriteMajorTypeHeader(maj, l)))
          /\ Len(WriteMajorTypeHeader(maj, l)) <= Len(wire)
          /\ SubSeq(wire, 1, Len(WriteMajorTypeHeader(maj, l))) = WriteMajorTypeHeader(maj, l)
    BY <2>1 DEF HeaderIInv
  <2> DEFINE n == Len(WriteMajorTypeHeader(maj, l))
  <2>3. n \in Nat
    BY WriteType
  <2>4. 0 + n <= Len(wire) /\ SubSeq(wire, 0 + 1, 0 + n) = WriteMajorTypeHeader(maj, l)
    <3>1. n <= Len(wire) /\ SubSeq(wire, 1, n) = WriteMajorTypeHeader(maj, l)
      BY <2>2
    <3> HIDE DEF n
    <3>2. 0 + n = n /\ 0 + 1 = 1
      BY <2>3
    <3>3. QED BY <3>1, <3>2
  <2>5. CborReadHeaderBuf(wire, 0) = Header(maj, l, n)
    BY <2>4, ReadsWhatIsWritten, 0 \in Nat DEF HeaderIInv
  <2>6. QED BY <2>2, <2>5 DEF HeaderIInv
<1>2. QED BY <1>1, HeaderInitHolds, HeaderStepHolds, PTL DEF HeaderSpec

\* Whatever bytes arrive, the ones taken for an accepted header are those the
\* writer would produce for it: no argument has two encodings (the "not
\* canonical" errors of utils.go:354-390).
THEOREM AlwaysHeaderOneEncoding == HeaderSpec => []HeaderOneEncoding
<1>1. HeaderIInv => HeaderOneEncoding
  <2> SUFFICES ASSUME HeaderIInv, answer.ok
               PROVE  SubSeq(wire, 1, answer.n) = WriteMajorTypeHeader(answer.maj, answer.extra)
    BY DEF HeaderOneEncoding
  <2>1. answer # noHeader
    BY NoHeaderIsNone
  <2>2. wire \in Seq(Byte) /\ answer = CborReadHeaderBuf(wire, 0)
    BY <2>1 DEF HeaderIInv
  <2>3. CborReadHeaderBuf(wire, 0).ok
    BY <2>2
  <2>4. /\ answer.n \in Nat
        /\ SubSeq(wire, 0 + 1, 0 + answer.n) = WriteMajorTypeHeader(answer.maj, answer.extra)
    BY <2>2, <2>3, WritesWhatIsRead, 0 \in Nat
  <2>5. 0 + answer.n = answer.n /\ 0 + 1 = 1
    BY <2>4
  <2>6. QED BY <2>4, <2>5
<1>2. QED BY <1>1, HeaderInitHolds, HeaderStepHolds, PTL DEF HeaderSpec

-----------------------------------------------------------------------------

\* The struct: what has been written of it, and what has been read.
Opening == WriteMajorTypeHeader(MajArray, Len(type))
Ws   == [j \in 1 .. Len(t) |-> WriteField(type[j], t[j])]
Outcome(ok) == [ok |-> ok, bytes |-> out]

Typed ==
  /\ Len(type) \in Arguments /\ type = [j \in 1 .. Len(type) |-> type[j]]
  /\ \A j \in 1 .. Len(type) : IsField(type[j]) /\ \A v \in Values(type[j]) : IsValue(type[j], v)

Marshals ==
  /\ Len(t) \in 0 .. Len(type) /\ t = [j \in 1 .. Len(t) |-> t[j]]
  /\ \A j \in 1 .. Len(t) : IsValue(type[j], t[j])

NilSent == out = << CborNull >> /\ t = << >>
AllSent == Len(t) = Len(type) /\ Chain(Outcome(TRUE), Opening, Ws, Len(t))
Broken  == Chain(Outcome(FALSE), Opening, Ws, Len(t))

Receives == state \in {"arrived", "unmarshal", "ok", "error"}

Sending ==
  /\ state = "new" => t = << >> /\ out = << >> /\ i = 0
  /\ state = "marshal" => i = Len(t) /\ Chain(Outcome(TRUE), Opening, Ws, Len(t))
  /\ state = "marshalled" => NilSent \/ AllSent
  /\ state = "refused" => Broken
  /\ Receives => input \in Seq(Byte) /\ (NilSent \/ AllSent \/ (Broken /\ input = out))

\* The input is a part of what was sent.
Cut == Len(input) < Len(out) /\ Agree(input, 0, out, 0, Len(input))

\* What has been read is what was written, the e-th field being the last of it.
AsSent(ok, e, at) ==
  /\ out \in Seq(Byte)
  /\ ChainTo(Outcome(ok), Opening, Ws, Len(t), e, at)
  /\ (ok /\ Len(t) = Len(type)) \/ (~ok /\ input = out)
  /\ i \in 0 .. e /\ pos = Len(Opening) + at[i]
  /\ \A j \in 1 .. i : Ws[j].ok /\ Readable(type[j], t[j]) /\ (Wide(type[j]) => u[j] = Same(type[j], t[j]))

Progress ==
  /\ i \in 0 .. Len(type) /\ (state = "ok" => i = Len(type))
  /\ pos \in Nat /\ pos <= Len(input) /\ bytesRead = pos
  /\ u = [j \in 1 .. Len(type) |-> u[j]] /\ \A j \in (i + 1) .. Len(type) : u[j] = Zero(type[j])
  /\ TupleArrived \/ Cut => \E ok \in BOOLEAN : \E e \in 0 .. Len(t) : \E at : AsSent(ok, e, at)

WideEnough == \A j \in 1 .. Len(type) : Wide(type[j])

TupleIInv ==
  /\ Typed
  /\ Marshals
  /\ Sending
  /\ state \in {"unmarshal", "ok"} => Progress
  /\ state = "error" /\ TupleArrived /\ WideEnough => ~Accepted

\* What the rest is proved from.
LEMMA TypeOfStruct ==
  ASSUME NEW fields \in Structs, type = emitCborUnmarshalStructTuple(fields)
  PROVE  Typed
<1>1. /\ fields \in Seq(Fields) /\ Len(fields) \in Arguments
      /\ \A f \in { type[j] : j \in DOMAIN fields } :
           IsField(f) /\ \A v \in Values(f) : IsValue(f, v)
  BY StructsAssumption
<1>2. DOMAIN fields = 1 .. Len(fields) /\ Len(fields) \in Nat
  BY <1>1, LenProperties
<1>3. DOMAIN type = 1 .. Len(fields) /\ type = [j \in 1 .. Len(fields) |-> type[j]]
  BY <1>2 DEF emitCborUnmarshalStructTuple
<1>4. Len(type) = Len(fields)
  BY <1>2, <1>3
<1>5. \A j \in 1 .. Len(type) : IsField(type[j]) /\ \A v \in Values(type[j]) : IsValue(type[j], v)
  BY <1>1, <1>2, <1>4
<1>6. QED BY <1>1, <1>3, <1>4, <1>5 DEF Typed

LEMMA ChainSame ==
  ASSUME NEW w, NEW head, NEW ws, NEW ws2, NEW n \in Nat, Chain(w, head, ws, n), \A j \in 1 .. n : ws2[j] = ws[j]
  PROVE  Chain(w, head, ws2, n)
<1>1. PICK e \in 0 .. n : \E at : ChainTo(w, head, ws, n, e, at)
  BY Zenon DEF Chain
<1>2. PICK at : ChainTo(w, head, ws, n, e, at)
  BY <1>1, Zenon
<1>3. \A j \in 1 .. e : ws2[j] = ws[j]
  OBVIOUS
<1>4. Laid(w.bytes, head, ws2, e, at)
  <2>1. Laid(w.bytes, head, ws, e, at)
    BY <1>2 DEF ChainTo
  <2>2. QED BY <1>3, <2>1 DEF Laid
<1>5. ChainTo(w, head, ws2, n, e, at)
  <2>1. e # 0 => e \in 1 .. e
    OBVIOUS
  <2>2. \A j \in 1 .. (e - 1) : j \in 1 .. e
    OBVIOUS
  <2>3. QED BY <1>2, <1>3, <1>4, <2>1, <2>2 DEF ChainTo
<1>6. QED BY <1>5 DEF Chain

\* The header of a struct, and that it is none of a nil pointer.
LEMMA HeadIs ==
  ASSUME Typed
  PROVE  Opening \in Seq(Byte) /\ Len(Opening) \in Nat \ {0} /\ MajArray \in Majors /\ Len(type) \in Nat
BY WriteType, CodecSizes DEF Typed, Opening

LEMMA HeadBegins ==
  ASSUME Typed, NEW ok, NEW n \in Nat, Chain(Outcome(ok), Opening, Ws, n)
  PROVE  out \in Seq(Byte) /\ Holds(out, 0, out) /\ Holds(out, 0, Opening)
<1>1. out \in Seq(Byte)
  BY DEF Chain, Outcome
<1>2. Holds(out, 0, out)
  BY <1>1, LenProperties DEF Holds
<1>3. \E e, at : Laid(out, Opening, Ws, e, at)
  BY DEF Chain, ChainTo, Outcome
<1>4. Holds(out, 0, Opening)
  BY <1>1, <1>2, <1>3 DEF Laid
<1>5. QED BY <1>1, <1>2, <1>4

LEMMA HeadRead ==
  ASSUME Typed, NEW s \in Seq(Byte), Holds(s, 0, Opening)
  PROVE  IsOfType(CborReadHeaderBuf(s, 0)) /\ CborReadHeaderBuf(s, 0).n = Len(Opening)
<1>1. CborReadHeaderBuf(s, 0) = Header(MajArray, Len(type), Len(Opening))
  BY HeadIs, HeaderComesBack DEF Opening, Typed
<1>2. QED BY <1>1 DEF IsOfType, Header

LEMMA NilIsNone ==
  ASSUME NEW s \in Seq(Byte), IsOfType(CborReadHeaderBuf(s, 0))
  PROVE  0 < Len(s) /\ s[1] # CborNull
<1>1. CborReadHeaderBuf(s, 0).ok /\ CborReadHeaderBuf(s, 0).maj # MajOther
  BY DEF IsOfType, MajArray, MajOther
<1>2. 0 \in Nat /\ 0 + 1 = 1
  OBVIOUS
<1>3. QED BY <1>1, <1>2, NotNull

LEMMA ArrivedHolds ==
  ASSUME input \in Seq(Byte), out \in Seq(Byte), TupleArrived
  PROVE  Holds(input, 0, out) /\ Len(out) <= Len(input)
<1>1. PICK p \in Nat, n \in Nat : p = 0 /\ n = Len(out)
  BY LenProperties
<1>2. Len(input) \in Nat /\ n <= Len(input) /\ SubSeq(input, p + 1, p + n) = out
  BY <1>1, LenProperties DEF TupleArrived, Begins
<1>3. p + n <= Len(input)
  BY <1>1, <1>2
<1>4. Holds(input, p, SubSeq(input, p + 1, p + n))
  BY <1>3, HeldSlice
<1>5. QED BY <1>1, <1>2, <1>4

-----------------------------------------------------------------------------

\* The next field that is read is the next that was written.
LEMMA NextField ==
  ASSUME Typed, Marshals, input \in Seq(Byte), NEW ok \in BOOLEAN, NEW e \in 0 .. Len(t), NEW at, AsSent(ok, e, at),
         i < Len(type), pos \in Nat, pos <= Len(input), TupleArrived \/ Cut,
         NEW r, r = ReadField(type[i + 1], input, pos, Zero(type[i + 1]))
  PROVE  /\ i + 1 \in 1 .. e
         /\ at[i] \in Nat /\ Len(Ws[i + 1].bytes) \in Nat /\ at[i + 1] = at[i] + Len(Ws[i + 1].bytes)
         /\ r.ok => /\ Ws[i + 1].ok /\ Readable(type[i + 1], t[i + 1]) /\ r.n = Len(Ws[i + 1].bytes)
                    /\ Wide(type[i + 1]) => r.v = Same(type[i + 1], t[i + 1])
         /\ TupleArrived /\ Ws[i + 1].ok /\ Readable(type[i + 1], t[i + 1]) /\ Wide(type[i + 1]) => r.ok
<1>0. Len(t) \in 0 .. Len(type) /\ Len(type) \in Nat /\ Len(t) \in Nat /\ Len(input) \in Nat /\ Len(out) \in Nat
  BY HeadIs, LenProperties DEF Marshals, AsSent
<1>1. /\ out \in Seq(Byte)
      /\ Laid(out, Opening, Ws, e, at)
      /\ \A j \in 1 .. (e - 1) : Ws[j].ok
      /\ ok => e = Len(t) /\ (e # 0 => Ws[e].ok)
      /\ ~ok => e # 0 /\ ~Ws[e].ok
      /\ (ok /\ Len(t) = Len(type)) \/ (~ok /\ input = out)
      /\ i \in 0 .. e /\ pos = Len(Opening) + at[i]
      /\ \A j \in 1 .. i : Ws[j].ok
  BY DEF AsSent, ChainTo, Outcome
<1>2. i + 1 \in 1 .. e
  <2>1. CASE ok
    BY <1>0, <1>1, <2>1
  <2>2. CASE ~ok
    <3>1. e # i
      <4>1. e \in 1 .. e /\ ~Ws[e].ok
        BY <1>1, <2>2
      <4>2. QED BY <1>1, <4>1
    <3>2. QED BY <1>1, <3>1
  <2>3. QED BY <2>1, <2>2
<1>3. PICK j \in 1 .. e : j = i + 1 /\ j - 1 = i /\ j \in 1 .. Len(t) /\ j \in 1 .. Len(type) /\ i \in 0 .. e /\ j \in 0 .. e
  BY <1>0, <1>1, <1>2
<1> DEFINE f == type[j]
           v == t[j]
           x == Ws[j]
<1>4. IsField(f) /\ IsValue(f, v) /\ x = WriteField(f, v)
  BY <1>3 DEF Typed, Marshals, Ws
<1>5. \A s \in Seq(Byte) : Back(f, v, s, pos)
  BY <1>4, FieldBack
<1>6. x.bytes \in Seq(Byte) /\ x.ok \in BOOLEAN /\ Len(x.bytes) \in Nat
  <2>1. Back(f, v, input, pos)
    BY <1>5
  <2>2. x.bytes \in Seq(Byte) /\ x.ok \in BOOLEAN
    BY <1>4, <2>1 DEF Back
  <2>3. QED BY <2>2, LenProperties
<1>7. at[i] \in Nat /\ at[j] \in Nat /\ at[j] = at[i] + Len(x.bytes) /\ Len(out) = Len(Opening) + at[e]
  BY <1>1, <1>3 DEF Laid
<1>8. ASSUME NEW s \in Seq(Byte), Holds(s, 0, out) PROVE Holds(s, pos, x.bytes)
  <2>1. PICK p \in Nat : p = 0
    OBVIOUS
  <2>2. Holds(s, (p + Len(Opening)) + at[j - 1], Ws[j].bytes)
    BY <1>1, <1>8, <2>1 DEF Laid
  <2>3. Len(Opening) \in Nat
    BY HeadIs
  <2>4. (p + Len(Opening)) + at[j - 1] = pos
    BY <1>1, <1>3, <1>7, <2>1, <2>3
  <2>5. QED BY <2>2, <2>4
<1>9. ok => x.ok
  BY <1>1, <1>3
<1>10. ~x.ok => pos + Len(x.bytes) = Len(input) /\ input = out
  <2>1. SUFFICES ASSUME ~x.ok PROVE pos + Len(x.bytes) = Len(input) /\ input = out
    OBVIOUS
  <2>2. ~ok /\ input = out
    BY <1>1, <1>9, <2>1
  <2>3. j = e
    BY <1>1, <1>3, <2>1
  <2>4. PICK a \in Nat, b \in Nat, c \in Nat : a = at[i] /\ b = Len(x.bytes) /\ c = Len(Opening)
    BY <1>6, <1>7, HeadIs
  <2>5. pos = c + a /\ Len(out) = c + (a + b)
    BY <1>1, <1>7, <2>3, <2>4
  <2>6. (c + a) + b = c + (a + b)
    OBVIOUS
  <2>7. QED BY <2>2, <2>4, <2>5, <2>6
<1>11. r = ReadField(f, input, pos, Zero(f))
  BY <1>3
<1>12. CASE TupleArrived
  <2>1. Holds(input, pos, x.bytes)
    BY <1>1, <1>8, <1>12, ArrivedHolds
  <2>2. Back(f, v, input, pos)
    BY <1>5
  <2>3. x.ok \/ pos + Len(x.bytes) = Len(input)
    BY <1>6, <1>10
  <2>4. r.ok => x.ok /\ Readable(f, v) /\ r.n = Len(x.bytes) /\ (Wide(f) => r.v = Same(f, v))
    BY <1>4, <1>11, <2>1, <2>2, <2>3 DEF Back
  <2>5. x.ok /\ Readable(f, v) /\ Wide(f) => r.ok
    BY <1>4, <1>11, <2>1, <2>2 DEF Back
  <2>6. QED BY <1>2, <1>3, <1>6, <1>7, <2>4, <2>5
<1>13. CASE Cut /\ ~TupleArrived
  <2>1. ok /\ x.ok
    BY <1>0, <1>1, <1>9, <1>13 DEF Cut
  <2>2. pos <= Len(out)
    BY <1>0, <1>13 DEF Cut
  <2> DEFINE r2 == ReadField(f, out, pos, Zero(f))
  <2>3. Local(r, input, pos, r2, out, pos)
    <3>1. f.kind \in Kinds /\ f.w \in Nat /\ (f.kind = "bytes" => Len(Zero(f)) \in Nat)
      BY <1>4 DEF IsField, Fields, Zero
    <3>2. QED BY <1>1, <1>11, <2>2, <3>1, FieldLocal
  <2>4. r.ok => r2 = r
    <3>1. SUFFICES ASSUME r.ok PROVE r2 = r
      OBVIOUS
    <3>2. r.n \in Nat /\ pos + r.n <= Len(input)
      BY <2>3, <3>1 DEF Local, Takes
    <3>3. PICK m \in Nat : m = Len(input) - pos
      BY <1>0
    <3>4. Agree(input, pos, out, pos, m)
      <4>1. PICK l \in Nat, p \in Nat : l = Len(input) /\ p = 0
        BY <1>0
      <4>2. Agree(input, p, out, p, l)
        BY <1>13, <4>1 DEF Cut
      <4>3. pos \in 0 .. l
        BY <4>1
      <4>4. Agree(input, p + pos, out, p + pos, l - pos)
        BY <1>1, <4>2, <4>3, AgreeLater
      <4>5. p + pos = pos /\ l - pos = m
        BY <3>3, <4>1
      <4>6. QED BY <4>4, <4>5
    <3>5. r.n <= m
      BY <1>0, <3>2, <3>3
    <3> HIDE DEF r2
    <3>6. QED BY <2>3, <3>1, <3>4, <3>5 DEF Local, SameWithin
  <2>5. Holds(out, pos, x.bytes)
    <3>1. Holds(out, 0, out)
      BY <1>0 DEF Holds
    <3>2. QED BY <1>1, <1>8, <3>1
  <2>6. Back(f, v, out, pos)
    BY <1>1, <1>5
  <2>7. r2.ok => Readable(f, v) /\ r2.n = Len(x.bytes) /\ (Wide(f) => r2.v = Same(f, v))
    BY <1>4, <2>1, <2>5, <2>6 DEF Back
  <2> HIDE DEF r2
  <2>8. r.ok => Readable(f, v) /\ r.n = Len(x.bytes) /\ (Wide(f) => r.v = Same(f, v))
    BY <2>4, <2>7
  <2>9. QED BY <1>2, <1>3, <1>6, <1>7, <1>13, <2>1, <2>8
<1>14. QED BY <1>12, <1>13

-----------------------------------------------------------------------------

\* The first state, and the steps of MarshalCBOR.
LEMMA Kept ==
  ASSUME UNCHANGED <<type, t>>, Typed, Marshals
  PROVE  Typed' /\ Marshals' /\ Opening' = Opening /\ Ws' = Ws /\ WideEnough' = WideEnough
<1>1. Typed'
  BY DEF Typed
<1>2. Marshals'
  BY DEF Marshals
<1>3. Opening' = Opening /\ Ws' = Ws
  BY DEF Opening, Ws
<1>4. WideEnough' = WideEnough
  BY DEF WideEnough
<1>5. QED BY <1>1, <1>2, <1>3, <1>4

LEMMA InitHolds == TupleInit => TupleIInv
<1> SUFFICES ASSUME TupleInit PROVE TupleIInv
  OBVIOUS
<1>1. Typed
  <2>1. PICK fields \in Structs : type = emitCborUnmarshalStructTuple(fields)
    BY DEF TupleInit
  <2>2. QED BY <2>1, TypeOfStruct
<1>2. Marshals
  <2>1. t = << >> /\ Len(t) = 0 /\ t = [j \in 1 .. Len(t) |-> t[j]] /\ 1 .. Len(t) = {}
    BY DEF TupleInit
  <2>2. Len(type) \in Nat
    BY <1>1, HeadIs
  <2>3. QED BY <2>1, <2>2 DEF Marshals
<1>3. Sending
  BY DEF TupleInit, Sending, Receives
<1>4. QED BY <1>1, <1>2, <1>3 DEF TupleInit, TupleIInv

LEMMA NilHolds ==
  ASSUME TupleIInv, MarshalTupleNil
  PROVE  TupleIInv'
<1>1. Typed' /\ Marshals'
  BY Kept DEF TupleIInv, MarshalTupleNil
<1>2. Sending'
  BY DEF TupleIInv, MarshalTupleNil, Sending, Receives, NilSent
<1>3. QED BY <1>1, <1>2 DEF MarshalTupleNil, TupleIInv

LEMMA MarshalHeaderHolds ==
  ASSUME TupleIInv, MarshalTupleHeader
  PROVE  TupleIInv'
<1>1. Typed' /\ Marshals' /\ Opening' = Opening
  BY Kept DEF TupleIInv, MarshalTupleHeader
<1>2. i' = 0 /\ Len(t') = 0
  BY DEF TupleIInv, Sending, MarshalTupleHeader
<1>3. Chain(Outcome(TRUE)', Opening, Ws', 0)
  <2>1. Outcome(TRUE)'.ok = TRUE /\ Outcome(TRUE)'.bytes = Opening
    BY DEF Outcome, MarshalTupleHeader, Opening
  <2>2. Opening \in Seq(Byte)
    BY HeadIs DEF TupleIInv
  <2>3. QED BY <2>1, <2>2, ChainNone
<1>4. Sending'
  BY <1>1, <1>2, <1>3 DEF MarshalTupleHeader, Sending, Receives
<1>5. QED BY <1>1, <1>4 DEF MarshalTupleHeader, TupleIInv

LEMMA MarshalFieldHolds ==
  ASSUME TupleIInv, MarshalTupleField
  PROVE  TupleIInv'
<1> DEFINE n == Len(t)
<1>1. /\ Typed /\ Marshals /\ i = n /\ n \in Nat /\ n + 1 \in 1 .. Len(type) /\ Len(type) \in Nat
      /\ Chain(Outcome(TRUE), Opening, Ws, n)
  <2>1. Typed /\ Marshals /\ i = n /\ Chain(Outcome(TRUE), Opening, Ws, n)
    BY DEF TupleIInv, Sending, MarshalTupleField
  <2>2. n \in 0 .. Len(type) /\ Len(type) \in Nat /\ n < Len(type)
    BY <2>1, HeadIs DEF Marshals, MarshalTupleField
  <2> HIDE DEF n
  <2>3. n \in Nat /\ n + 1 \in 1 .. Len(type)
    BY <2>2
  <2>4. QED BY <2>1, <2>2, <2>3
<1>2. PICK v \in Values(type[n + 1]) : t' = Append(t, v) /\ Put(WriteField(type[n + 1], v))
  BY <1>1 DEF MarshalTupleField
<1> DEFINE f == type[n + 1]
           w == WriteField(f, v)
<1>3. IsField(f) /\ IsValue(f, v)
  BY <1>1, <1>2 DEF Typed
<1>4. /\ t' = [j \in 1 .. (n + 1) |-> IF j = n + 1 THEN v ELSE t[j]]
      /\ Len(t') = n + 1 /\ t'[n + 1] = v /\ \A j \in 1 .. n : t'[j] = t[j]
  <2>1. t = [j \in 1 .. n |-> t[j]]
    BY <1>1 DEF Marshals
  <2>2. t' = [j \in 1 .. (n + 1) |-> IF j = n + 1 THEN v ELSE t[j]]
    BY <1>1, <1>2, <2>1, AppendTo
  <2>3. DOMAIN t' = 1 .. (n + 1) /\ n + 1 \in 1 .. (n + 1) /\ \A j \in 1 .. n : j \in 1 .. (n + 1) /\ j # n + 1
    BY <1>1, <2>2
  <2>4. Len(t') = n + 1
    BY <1>1, <2>3, <2>2
  <2>5. QED BY <2>2, <2>3, <2>4
<1>5. type' = type /\ i' = n + 1
  BY <1>1 DEF MarshalTupleField
<1>6. w.bytes \in Seq(Byte) /\ w.ok \in BOOLEAN
  <2>1. PICK p \in Nat, s \in Seq(Byte) : Back(f, v, s, p)
    <3>1. << >> \in Seq(Byte) /\ 0 \in Nat
      OBVIOUS
    <3>2. Back(f, v, << >>, 0)
      BY <1>3, <3>1, FieldBack
    <3>3. QED BY <3>1, <3>2
  <2>2. QED BY <2>1 DEF Back
<1>7. Ws'[n + 1] = w /\ \A j \in 1 .. n : Ws'[j] = Ws[j]
  <2>1. Ws' = [j \in 1 .. (n + 1) |-> WriteField(type[j], t'[j])]
    BY <1>4, <1>5 DEF Ws
  <2>2. Ws = [j \in 1 .. n |-> WriteField(type[j], t[j])]
    BY DEF Ws
  <2>3. QED BY <1>1, <1>4, <2>1, <2>2
<1>8. Opening' = Opening
  BY <1>5 DEF Opening
<1>9. PICK ok \in BOOLEAN : ok = w.ok
  BY <1>6
<1>10. Chain(Outcome(ok)', Opening', Ws', n + 1)
  <2>1. Chain(Outcome(TRUE), Opening, Ws', n)
    BY <1>1, <1>7, ChainSame
  <2>2. Ws'[n + 1].bytes \in Seq(Byte) /\ Ws'[n + 1].ok \in BOOLEAN
    BY <1>6, <1>7
  <2>3. Outcome(ok)' = AndThen(Outcome(TRUE), Ws'[n + 1])
    BY <1>2, <1>7, <1>9 DEF Outcome, AndThen, Put
  <2>4. Len(Opening) \in Nat
    BY <1>1, HeadIs
  <2>5. Chain(Outcome(ok)', Opening, Ws', n + 1)
    BY <1>1, <2>1, <2>2, <2>3, <2>4, ChainMore, Zenon
  <2>6. QED BY <1>8, <2>5
<1>11. state' = IF ok THEN "marshal" ELSE "refused"
  BY <1>2, <1>9 DEF Put, MarshalTupleField
<1>12. Sending'
  <2>1. CASE ok
    <3>1. state' = "marshal" /\ Chain(Outcome(TRUE)', Opening', Ws', n + 1)
      BY <1>10, <1>11, <2>1
    <3>2. QED BY <1>4, <1>5, <3>1 DEF Sending, Receives
  <2>2. CASE ~ok
    <3>1. state' = "refused" /\ Chain(Outcome(FALSE)', Opening', Ws', n + 1)
      BY <1>10, <1>11, <2>2
    <3>2. QED BY <1>4, <3>1 DEF Sending, Receives, Broken
  <2>3. QED BY <2>1, <2>2
<1>13. Typed'
  BY <1>1, <1>5 DEF Typed
<1>14. Marshals'
  <2>1. Len(t') \in 0 .. Len(type') /\ t' = [j \in 1 .. Len(t') |-> t'[j]]
    BY <1>1, <1>4, <1>5
  <2>2. ASSUME NEW j \in 1 .. Len(t') PROVE IsValue(type'[j], t'[j])
    <3>1. CASE j = n + 1
      BY <1>3, <1>4, <1>5, <3>1
    <3>2. CASE j # n + 1
      <4>1. j \in 1 .. n
        BY <1>1, <1>4, <2>2, <3>2
      <4>2. QED BY <1>1, <1>4, <1>5, <4>1 DEF Marshals
    <3>3. QED BY <3>1, <3>2
  <2>3. QED BY <2>1, <2>2 DEF Marshals
<1>15. QED BY <1>11, <1>12, <1>13, <1>14 DEF TupleIInv

LEMMA MarshalEndHolds ==
  ASSUME TupleIInv, MarshalTupleEnd
  PROVE  TupleIInv'
<1>1. Typed' /\ Marshals' /\ Opening' = Opening /\ Ws' = Ws
  BY Kept DEF TupleIInv, MarshalTupleEnd
<1>2. AllSent
  BY DEF TupleIInv, Sending, MarshalTupleEnd, AllSent
<1>3. AllSent'
  BY <1>1, <1>2 DEF AllSent, Outcome, MarshalTupleEnd
<1>4. Sending'
  BY <1>3 DEF MarshalTupleEnd, Sending, Receives
<1>5. QED BY <1>1, <1>4 DEF MarshalTupleEnd, TupleIInv

LEMMA ArriveHolds ==
  ASSUME TupleIInv, ArriveTuple
  PROVE  TupleIInv'
<1>1. Typed' /\ Marshals' /\ Opening' = Opening /\ Ws' = Ws
  BY Kept DEF TupleIInv, ArriveTuple
<1>2. NilSent \/ AllSent \/ (Broken /\ input' = out)
  <2>1. CASE state = "marshalled"
    BY <2>1 DEF TupleIInv, Sending
  <2>2. CASE state = "refused"
    BY <2>2 DEF TupleIInv, Sending, ArriveTuple
  <2>3. QED BY <2>1, <2>2 DEF ArriveTuple
<1>3. NilSent' = NilSent /\ AllSent' = AllSent /\ Broken' = Broken
  BY <1>1 DEF NilSent, AllSent, Broken, Outcome, ArriveTuple
<1>4. NilSent' \/ AllSent' \/ (Broken' /\ input' = out')
  BY <1>2, <1>3 DEF ArriveTuple
<1>5. Sending'
  BY <1>4 DEF ArriveTuple, Sending, Receives
<1>6. QED BY <1>1, <1>5 DEF ArriveTuple, TupleIInv

-----------------------------------------------------------------------------

\* Something was sent, and not a nil pointer.
LEMMA SentIs ==
  ASSUME TupleIInv, Receives
  PROVE  /\ input \in Seq(Byte) /\ out \in Seq(Byte)
         /\ NilSent \/ \E ok \in BOOLEAN : /\ Chain(Outcome(ok), Opening, Ws, Len(t))
                                           /\ (ok /\ Len(t) = Len(type)) \/ (~ok /\ input = out)
<1>1. input \in Seq(Byte) /\ (NilSent \/ AllSent \/ (Broken /\ input = out)) /\ Typed /\ Len(t) \in Nat
  <2>1. input \in Seq(Byte) /\ (NilSent \/ AllSent \/ (Broken /\ input = out)) /\ Typed /\ Marshals
    BY DEF TupleIInv, Sending
  <2>2. QED BY <2>1, HeadIs DEF Marshals
<1>2. CASE NilSent
  <2>1. out \in Seq(Byte)
    BY <1>2, NullHeld DEF NilSent
  <2>2. QED BY <1>1, <1>2, <2>1
<1>3. CASE AllSent
  <2>1. Chain(Outcome(TRUE), Opening, Ws, Len(t)) /\ Len(t) = Len(type)
    BY <1>3 DEF AllSent
  <2>2. out \in Seq(Byte)
    BY <1>1, <2>1, HeadBegins
  <2>3. QED BY <1>1, <2>1, <2>2
<1>4. CASE Broken /\ input = out
  <2>1. Chain(Outcome(FALSE), Opening, Ws, Len(t))
    BY <1>4 DEF Broken
  <2>2. out \in Seq(Byte)
    BY <1>1, <2>1, HeadBegins
  <2>3. QED BY <1>1, <1>4, <2>1, <2>2
<1>5. QED BY <1>1, <1>2, <1>3, <1>4

LEMMA CutAgrees ==
  ASSUME Cut, input \in Seq(Byte), out \in Seq(Byte)
  PROVE  \E p \in Nat, n \in Nat : p = 0 /\ n = Len(input) /\ Agree(input, p, out, p, n)
<1>1. PICK p \in Nat, n \in Nat : p = 0 /\ n = Len(input)
  BY LenProperties
<1>2. QED BY <1>1 DEF Cut

\* The header of the struct is read if it arrived, and if it is read it was sent.
LEMMA HeadOfSent ==
  ASSUME TupleIInv, Receives, TupleArrived \/ Cut, NEW hd, hd = CborReadHeaderBuf(input, 0)
  PROVE  /\ TupleArrived => IsOfType(hd) \/ NilSent
         /\ IsOfType(hd) => ~NilSent /\ hd.n = Len(Opening)
<1>1. input \in Seq(Byte) /\ out \in Seq(Byte) /\ Typed
  BY SentIs DEF TupleIInv
<1>2. ~NilSent => Holds(out, 0, Opening)
  <2>1. SUFFICES ASSUME ~NilSent PROVE Holds(out, 0, Opening)
    OBVIOUS
  <2>2. PICK ok \in BOOLEAN : Chain(Outcome(ok), Opening, Ws, Len(t))
    BY <2>1, SentIs
  <2>3. Len(t) \in Nat
    BY HeadIs DEF TupleIInv, Marshals
  <2>4. QED BY <1>1, <2>2, <2>3, HeadBegins
<1>3. ~NilSent /\ TupleArrived => IsOfType(hd) /\ hd.n = Len(Opening)
  <2>1. SUFFICES ASSUME ~NilSent, TupleArrived PROVE IsOfType(hd) /\ hd.n = Len(Opening)
    OBVIOUS
  <2>2. Holds(input, 0, out) /\ Len(out) <= Len(input)
    BY <1>1, <2>1, ArrivedHolds
  <2>3. Holds(out, 0, Opening)
    BY <1>2, <2>1
  <2>4. Holds(input, 0, Opening)
    <3>1. PICK m \in Nat, n \in Nat, l \in Nat : m = Len(Opening) /\ n = Len(out) /\ l = Len(input)
      BY <1>1, HeadIs, LenProperties
    <3>2. m <= n /\ n <= l /\ \A c \in 1 .. m : out[0 + c] = Opening[c]
      BY <2>2, <2>3, <3>1 DEF Holds
    <3>3. \A c \in 1 .. n : input[0 + c] = out[c]
      BY <2>2, <3>1 DEF Holds
    <3>4. \A c \in 1 .. m : c \in 1 .. n /\ 0 + c = c
      BY <3>2
    <3>5. \A c \in 1 .. m : input[0 + c] = Opening[c]
      BY <3>2, <3>3, <3>4
    <3>6. 0 + m <= l
      BY <3>2
    <3>7. QED BY <3>1, <3>5, <3>6 DEF Holds
  <2>5. QED BY <1>1, <2>4, HeadRead
<1>4. NilSent => ~IsOfType(hd)
  <2>1. SUFFICES ASSUME NilSent, IsOfType(hd) PROVE FALSE
    OBVIOUS
  <2>2. 0 < Len(input) /\ input[1] # CborNull
    BY <1>1, <2>1, NilIsNone
  <2>3. Len(out) = 1 /\ out[1] = CborNull
    BY <2>1, NullHeld DEF NilSent
  <2>4. Len(input) \in Nat
    BY <1>1, LenProperties
  <2>5. ~Cut
    BY <2>2, <2>3, <2>4 DEF Cut
  <2>6. Holds(input, 0, out)
    BY <1>1, <2>5, ArrivedHolds
  <2>7. 1 \in 1 .. Len(out) /\ 0 + 1 = 1
    BY <2>3
  <2>8. input[1] = out[1]
    BY <2>6, <2>7 DEF Holds
  <2>9. QED BY <2>2, <2>3, <2>8
<1>5. ~NilSent /\ Cut /\ IsOfType(hd) => hd.n = Len(Opening)
  <2>1. SUFFICES ASSUME ~NilSent, Cut, IsOfType(hd) PROVE hd.n = Len(Opening)
    OBVIOUS
  <2>2. PICK p \in Nat, n \in Nat : p = 0 /\ n = Len(input) /\ Agree(input, p, out, p, n)
    BY <1>1, <2>1, CutAgrees
  <2>3. CborReadHeaderBuf(input, p).ok /\ CborReadHeaderBuf(input, p) = hd
    BY <2>1, <2>2 DEF IsOfType
  <2>4. hd.n \in Nat /\ p + hd.n <= Len(input)
    BY <1>1, <2>3, HeaderRead
  <2>5. CborReadHeaderBuf(input, p).n <= n
    BY <2>2, <2>3, <2>4
  <2>6. CborReadHeaderBuf(out, p) = hd
    BY <1>1, <2>2, <2>3, <2>5, HeaderAgrees
  <2>7. QED BY <1>1, <1>2, <2>1, <2>2, <2>6, HeadRead
<1>6. QED BY <1>3, <1>4, <1>5

LEMMA UnmarshalHeaderHolds ==
  ASSUME TupleIInv, UnmarshalTupleHeader
  PROVE  TupleIInv'
<1>1. Typed' /\ Marshals' /\ Opening' = Opening /\ Ws' = Ws /\ WideEnough' = WideEnough
  BY Kept DEF TupleIInv, UnmarshalTupleHeader
<1>2. Receives /\ input \in Seq(Byte) /\ out \in Seq(Byte) /\ Typed
  <2>1. Receives
    BY DEF Receives, UnmarshalTupleHeader
  <2>2. QED BY <2>1, SentIs DEF TupleIInv
<1> DEFINE hd == CborReadHeaderBuf(input, 0)
<1>3. /\ u' = [j \in DOMAIN type |-> Zero(type[j])] /\ i' = 0
      /\ pos' = (IF hd.ok THEN hd.n ELSE 0) /\ bytesRead' = (IF hd.ok THEN hd.n ELSE 0)
      /\ state' = (IF IsOfType(hd) THEN "unmarshal" ELSE "error")
      /\ type' = type /\ t' = t /\ out' = out /\ input' = input
  BY DEF UnmarshalTupleHeader, BeginTuple
<1>4. hd.ok => hd.n \in Nat /\ hd.n <= Len(input)
  <2>1. 0 \in Nat
    OBVIOUS
  <2>2. hd.ok => hd.n \in Nat /\ 0 + hd.n <= Len(input)
    BY <1>2, <2>1, HeaderRead
  <2>3. QED BY <2>2
<1>5. /\ TupleArrived \/ Cut => /\ TupleArrived => IsOfType(hd) \/ NilSent
                                /\ IsOfType(hd) => ~NilSent /\ hd.n = Len(Opening)
  BY <1>2, HeadOfSent
<1> HIDE DEF hd
<1>6. Sending'
  <2>1. NilSent' = NilSent /\ AllSent' = AllSent /\ Broken' = Broken
    BY <1>1, <1>3 DEF NilSent, AllSent, Broken, Outcome
  <2>2. NilSent \/ AllSent \/ (Broken /\ input = out)
    BY <1>2 DEF TupleIInv, Sending
  <2>3. state' \notin {"new", "marshal", "marshalled", "refused"}
    BY <1>3
  <2>4. QED BY <1>2, <1>3, <2>1, <2>2, <2>3 DEF Sending
<1>7. TupleArrived' = TupleArrived /\ Cut' = Cut
  BY <1>3 DEF TupleArrived, Cut
<1>8. ASSUME state' \in {"unmarshal", "ok"} PROVE Progress'
  <2>1. IsOfType(hd) /\ state' = "unmarshal"
    BY <1>3, <1>8
  <2>2. pos' = hd.n /\ bytesRead' = hd.n /\ hd.n \in Nat /\ hd.n <= Len(input)
    BY <1>3, <1>4, <2>1 DEF IsOfType
  <2>3. DOMAIN type = 1 .. Len(type) /\ Len(type) \in Nat
    BY <1>2, HeadIs DEF Typed
  <2>4. u' = [j \in 1 .. Len(type) |-> u'[j]] /\ \A j \in (0 + 1) .. Len(type) : u'[j] = Zero(type[j])
    BY <1>3, <2>3
  <2>5. ASSUME TupleArrived \/ Cut PROVE \E ok \in BOOLEAN : \E e \in 0 .. Len(t) : \E at : AsSent(ok, e, at)'
    <3>1. ~NilSent /\ hd.n = Len(Opening)
      BY <1>5, <2>1, <2>5
    <3>2. PICK ok \in BOOLEAN : /\ Chain(Outcome(ok), Opening, Ws, Len(t))
                                /\ (ok /\ Len(t) = Len(type)) \/ (~ok /\ input = out)
      BY <1>2, <3>1, SentIs
    <3>3. PICK e \in 0 .. Len(t) : \E at : ChainTo(Outcome(ok), Opening, Ws, Len(t), e, at)
      BY <3>2 DEF Chain
    <3>4. PICK at : ChainTo(Outcome(ok), Opening, Ws, Len(t), e, at)
      BY <3>3
    <3>5. at[0] = 0 /\ Len(Opening) + 0 = Len(Opening) /\ 0 \in 0 .. e
      <4>1. Len(t) \in Nat
        BY HeadIs DEF TupleIInv, Marshals
      <4>2. QED BY <1>2, <3>4, <4>1, HeadIs DEF ChainTo, Laid
    <3>6. ChainTo(Outcome(ok)', Opening', Ws', Len(t'), e, at)
      BY <1>1, <1>3, <3>4 DEF Outcome
    <3>7. i' \in 0 .. e /\ pos' = Len(Opening') + at[i'] /\ 1 .. i' = {}
      BY <1>1, <1>3, <2>2, <3>1, <3>5
    <3>8. AsSent(ok, e, at)'
      BY <1>2, <1>3, <3>2, <3>6, <3>7 DEF AsSent
    <3>9. QED BY <3>8
  <2>6. QED BY <1>3, <1>7, <2>1, <2>2, <2>3, <2>4, <2>5 DEF Progress
<1>9. ASSUME state' = "error", TupleArrived', WideEnough' PROVE ~Accepted'
  <2>1. NilSent
    BY <1>3, <1>5, <1>7, <1>9
  <2>2. QED BY <1>3, <2>1 DEF NilSent, Accepted
<1>10. QED BY <1>1, <1>6, <1>8, <1>9 DEF TupleIInv

-----------------------------------------------------------------------------

\* The steps of UnmarshalCBOR.
LEMMA UnmarshalFieldHolds ==
  ASSUME TupleIInv, UnmarshalTupleField
  PROVE  TupleIInv'
<1>1. Typed' /\ Marshals' /\ Opening' = Opening /\ Ws' = Ws /\ WideEnough' = WideEnough
  BY Kept DEF TupleIInv, UnmarshalTupleField
<1>2. Receives /\ input \in Seq(Byte) /\ out \in Seq(Byte) /\ Typed /\ Marshals /\ Progress
  <2>1. Receives
    BY DEF Receives, UnmarshalTupleField
  <2>2. QED BY <2>1, SentIs DEF TupleIInv, UnmarshalTupleField
<1>3. /\ i \in 0 .. Len(type) /\ i < Len(type) /\ Len(type) \in Nat /\ pos \in Nat /\ pos <= Len(input) /\ bytesRead = pos
      /\ u = [j \in 1 .. Len(type) |-> u[j]] /\ \A j \in (i + 1) .. Len(type) : u[j] = Zero(type[j])
      /\ TupleArrived \/ Cut => \E ok \in BOOLEAN : \E e \in 0 .. Len(t) : \E at : AsSent(ok, e, at)
  BY <1>2, HeadIs DEF Progress, UnmarshalTupleField
<1>4. PICK r : r = ReadField(type[i + 1], input, pos, Zero(type[i + 1]))
  OBVIOUS
<1>5. i + 1 \in 1 .. Len(type) /\ i \in Nat /\ u[i + 1] = Zero(type[i + 1])
  <2>1. i + 1 \in 1 .. Len(type) /\ i \in Nat /\ i + 1 \in (i + 1) .. Len(type)
    BY <1>3
  <2>2. QED BY <1>3, <2>1
<1>6. /\ bytesRead' = bytesRead + r.n
      /\ \/ /\ r.ok
            /\ u' = [u EXCEPT ![i + 1] = r.v]
            /\ pos' = pos + r.n
            /\ i' = i + 1
            /\ UNCHANGED state
         \/ /\ ~r.ok
            /\ state' = "error"
            /\ UNCHANGED <<u, pos, i>>
      /\ type' = type /\ t' = t /\ out' = out /\ input' = input /\ state = "unmarshal"
  BY <1>4, <1>5 DEF UnmarshalTupleField, AssignField
<1>7. r.ok => r.n \in Nat /\ pos + r.n <= Len(input)
  <2> DEFINE f == type[i + 1]
  <2>1. f.kind \in Kinds /\ f.w \in Nat /\ (f.kind = "bytes" => Len(Zero(f)) \in Nat)
    <3>1. IsField(f)
      BY <1>2, <1>5 DEF Typed
    <3>2. QED BY <3>1 DEF IsField, Fields, Zero
  <2>2. Local(r, input, pos, r, input, pos)
    BY <1>2, <1>3, <1>4, <2>1, FieldLocal
  <2>3. QED BY <2>2 DEF Local, Takes
<1>8. Sending'
  <2>1. NilSent' = NilSent /\ AllSent' = AllSent /\ Broken' = Broken
    BY <1>1, <1>6 DEF NilSent, AllSent, Broken, Outcome
  <2>2. NilSent \/ AllSent \/ (Broken /\ input = out)
    BY <1>2 DEF TupleIInv, Sending
  <2>3. state' \notin {"new", "marshal", "marshalled", "refused"}
    BY <1>6
  <2>4. QED BY <1>2, <1>6, <2>1, <2>2, <2>3 DEF Sending
<1>9. TupleArrived' = TupleArrived /\ Cut' = Cut
  BY <1>6 DEF TupleArrived, Cut
<1>10. ASSUME state' \in {"unmarshal", "ok"} PROVE Progress'
  <2>1. r.ok /\ u' = [u EXCEPT ![i + 1] = r.v] /\ pos' = pos + r.n /\ i' = i + 1 /\ state' = "unmarshal"
    BY <1>6, <1>10
  <2>2. /\ u' = [j \in 1 .. Len(type) |-> u'[j]] /\ u'[i + 1] = r.v
        /\ \A j \in 1 .. Len(type) : j # i + 1 => u'[j] = u[j]
    BY <1>3, <1>5, <2>1
  <2>3. i' \in 0 .. Len(type) /\ \A j \in (i' + 1) .. Len(type) : u'[j] = Zero(type[j])
    <3>1. i' \in 0 .. Len(type) /\ \A j \in (i' + 1) .. Len(type) : j \in (i + 1) .. Len(type) /\ j \in 1 .. Len(type) /\ j # i + 1
      BY <1>3, <1>5, <2>1
    <3>2. QED BY <1>3, <2>2, <3>1
  <2>4. pos' \in Nat /\ pos' <= Len(input) /\ bytesRead' = pos'
    BY <1>3, <1>6, <1>7, <2>1
  <2>5. ASSUME TupleArrived \/ Cut PROVE \E ok \in BOOLEAN : \E e \in 0 .. Len(t) : \E at : AsSent(ok, e, at)'
    <3>1. PICK ok \in BOOLEAN : \E e \in 0 .. Len(t) : \E at : AsSent(ok, e, at)
      BY <1>3, <2>5
    <3>2. PICK e \in 0 .. Len(t) : \E at : AsSent(ok, e, at)
      BY <3>1
    <3>3. PICK at : AsSent(ok, e, at)
      BY <3>2
    <3>4. /\ i + 1 \in 1 .. e
          /\ at[i] \in Nat /\ Len(Ws[i + 1].bytes) \in Nat /\ at[i + 1] = at[i] + Len(Ws[i + 1].bytes)
          /\ r.ok => /\ Ws[i + 1].ok /\ Readable(type[i + 1], t[i + 1]) /\ r.n = Len(Ws[i + 1].bytes)
                     /\ Wide(type[i + 1]) => r.v = Same(type[i + 1], t[i + 1])
      BY <1>2, <1>3, <1>4, <2>5, <3>3, NextField
    <3>5. /\ out \in Seq(Byte)
          /\ ChainTo(Outcome(ok), Opening, Ws, Len(t), e, at)
          /\ (ok /\ Len(t) = Len(type)) \/ (~ok /\ input = out)
          /\ pos = Len(Opening) + at[i]
          /\ \A j \in 1 .. i : Ws[j].ok /\ Readable(type[j], t[j]) /\ (Wide(type[j]) => u[j] = Same(type[j], t[j]))
      BY <3>3 DEF AsSent
    <3>6. pos' = Len(Opening) + at[i']
      <4>1. PICK a \in Nat, b \in Nat, c \in Nat : a = at[i] /\ b = Len(Ws[i + 1].bytes) /\ c = Len(Opening)
        BY <1>2, <3>4, HeadIs
      <4>2. pos' = (c + a) + b /\ at[i'] = a + b
        BY <2>1, <3>4, <3>5, <4>1
      <4>3. (c + a) + b = c + (a + b)
        OBVIOUS
      <4>4. QED BY <4>1, <4>2, <4>3
    <3>7. ASSUME NEW j \in 1 .. i'
          PROVE  Ws[j].ok /\ Readable(type[j], t[j]) /\ (Wide(type[j]) => u'[j] = Same(type[j], t[j]))
      <4>1. CASE j = i + 1
        BY <2>1, <2>2, <3>4, <4>1
      <4>2. CASE j # i + 1
        <5>1. j \in 1 .. i /\ j \in 1 .. Len(type)
          BY <1>3, <1>5, <2>1, <3>7, <4>2
        <5>2. u'[j] = u[j]
          BY <2>2, <4>2, <5>1
        <5>3. QED BY <3>5, <5>1, <5>2
      <4>3. QED BY <4>1, <4>2
    <3>8. ChainTo(Outcome(ok)', Opening', Ws', Len(t'), e, at)
      BY <1>1, <1>6, <3>5 DEF Outcome
    <3>9. i' \in 0 .. e
      BY <1>5, <2>1, <3>4
    <3>10. AsSent(ok, e, at)'
      BY <1>1, <1>6, <3>5, <3>6, <3>7, <3>8, <3>9 DEF AsSent
    <3>11. QED BY <3>10
  <2>6. QED BY <1>6, <1>9, <2>1, <2>2, <2>3, <2>4, <2>5 DEF Progress
<1>11. ASSUME state' = "error", TupleArrived', WideEnough', Accepted' PROVE FALSE
  <2>1. ~r.ok
    BY <1>6, <1>11
  <2>2. TupleArrived /\ WideEnough /\ Accepted
    BY <1>1, <1>6, <1>9, <1>11 DEF Accepted, TupleRefusal
  <2>3. PICK ok \in BOOLEAN : \E e \in 0 .. Len(t) : \E at : AsSent(ok, e, at)
    BY <1>3, <2>2
  <2>4. PICK e \in 0 .. Len(t) : \E at : AsSent(ok, e, at)
    BY <2>3
  <2>5. PICK at : AsSent(ok, e, at)
    BY <2>4
  <2>6. /\ i + 1 \in 1 .. e
        /\ TupleArrived /\ Ws[i + 1].ok /\ Readable(type[i + 1], t[i + 1]) /\ Wide(type[i + 1]) => r.ok
    BY <1>2, <1>3, <1>4, <2>2, <2>5, NextField
  <2>7. Readable(type[i + 1], t[i + 1]) /\ Wide(type[i + 1])
    <3>1. DOMAIN type = 1 .. Len(type)
      BY <1>2 DEF Typed
    <3>2. QED BY <1>5, <2>2, <3>1 DEF Accepted, WideEnough
  <2>8. Ws[i + 1].ok
    <3>1. i + 1 \in 1 .. Len(t)
      BY <1>2, <2>6 DEF Marshals
    <3>2. DOMAIN t = 1 .. Len(t)
      BY <1>2 DEF Marshals
    <3>3. WriteField(type[i + 1], t[i + 1]).ok
      BY <2>2, <3>1, <3>2 DEF Accepted, TupleRefusal
    <3>4. QED BY <3>1, <3>3 DEF Ws
  <2>9. QED BY <2>1, <2>2, <2>6, <2>7, <2>8
<1>12. QED BY <1>1, <1>8, <1>10, <1>11 DEF TupleIInv

LEMMA UnmarshalEndHolds ==
  ASSUME TupleIInv, UnmarshalTupleEnd
  PROVE  TupleIInv'
<1>1. Typed' /\ Marshals' /\ Opening' = Opening /\ Ws' = Ws
  BY Kept DEF TupleIInv, UnmarshalTupleEnd
<1>2. type' = type /\ t' = t /\ out' = out /\ input' = input /\ pos' = pos /\ u' = u /\ bytesRead' = bytesRead /\ i' = i
  BY DEF UnmarshalTupleEnd
<1>3. Sending'
  <2>1. NilSent' = NilSent /\ AllSent' = AllSent /\ Broken' = Broken
    BY <1>1, <1>2 DEF NilSent, AllSent, Broken, Outcome
  <2>2. QED BY <1>2, <2>1 DEF TupleIInv, Sending, Receives, UnmarshalTupleEnd
<1>4. Progress'
  <2>1. Progress /\ i = Len(type)
    BY DEF TupleIInv, UnmarshalTupleEnd
  <2>2. TupleArrived' = TupleArrived /\ Cut' = Cut
    BY <1>2 DEF TupleArrived, Cut
  <2>3. \A ok, e, at : AsSent(ok, e, at) => AsSent(ok, e, at)'
    BY <1>1, <1>2 DEF AsSent, Outcome
  <2>4. QED BY <1>2, <2>1, <2>2, <2>3, Zenon DEF Progress
<1>5. QED BY <1>1, <1>3, <1>4 DEF TupleIInv, UnmarshalTupleEnd

-----------------------------------------------------------------------------

LEMMA StepHolds == TupleIInv /\ [TupleNext]_tupleVars => TupleIInv'
<1> SUFFICES ASSUME TupleIInv, [TupleNext]_tupleVars PROVE TupleIInv'
  OBVIOUS
<1>1. CASE MarshalTupleNil
  BY <1>1, NilHolds
<1>2. CASE MarshalTupleHeader
  BY <1>2, MarshalHeaderHolds
<1>3. CASE MarshalTupleField
  BY <1>3, MarshalFieldHolds
<1>4. CASE MarshalTupleEnd
  BY <1>4, MarshalEndHolds
<1>5. CASE ArriveTuple
  BY <1>5, ArriveHolds
<1>6. CASE UnmarshalTupleHeader
  BY <1>6, UnmarshalHeaderHolds
<1>7. CASE UnmarshalTupleField
  BY <1>7, UnmarshalFieldHolds
<1>8. CASE UnmarshalTupleEnd
  BY <1>8, UnmarshalEndHolds
<1>9. CASE UNCHANGED tupleVars
  <2>1. type' = type /\ t' = t /\ out' = out /\ input' = input /\ pos' = pos /\ u' = u /\ bytesRead' = bytesRead
        /\ i' = i /\ state' = state
    BY <1>9 DEF tupleVars
  <2>2. Typed' /\ Marshals' /\ Opening' = Opening /\ Ws' = Ws /\ WideEnough' = WideEnough
    BY <2>1, Kept DEF TupleIInv
  <2>3. Sending'
    <3>1. NilSent' = NilSent /\ AllSent' = AllSent /\ Broken' = Broken
      BY <2>1, <2>2 DEF NilSent, AllSent, Broken, Outcome
    <3>2. Chain(Outcome(TRUE), Opening, Ws, Len(t))' = Chain(Outcome(TRUE), Opening, Ws, Len(t))
      BY <2>1, <2>2 DEF Outcome
    <3>3. QED BY <2>1, <3>1, <3>2 DEF TupleIInv, Sending, Receives
  <2>4. TupleArrived' = TupleArrived /\ Cut' = Cut /\ Accepted' = Accepted
    BY <2>1 DEF TupleArrived, Cut, Accepted, TupleRefusal
  <2>5. \A ok, e, at : AsSent(ok, e, at) => AsSent(ok, e, at)'
    BY <2>1, <2>2 DEF AsSent, Outcome
  <2>6. Progress => Progress'
    BY <2>1, <2>4, <2>5, Zenon DEF Progress
  <2>7. QED BY <2>1, <2>2, <2>3, <2>4, <2>6 DEF TupleIInv
<1>10. QED BY <1>1, <1>2, <1>3, <1>4, <1>5, <1>6, <1>7, <1>8, <1>9 DEF TupleNext

LEMMA Always == TupleSpec => []TupleIInv
<1>1. QED BY InitHolds, StepHolds, PTL DEF TupleSpec

\* When all is read, all was written, without error, and nothing a decoder does not
\* take.
LEMMA AllRead ==
  ASSUME TupleIInv, state = "ok", TupleArrived \/ Cut
  PROVE  /\ Accepted /\ pos = Len(out) /\ bytesRead = Len(out) /\ Len(out) <= Len(input)
         /\ WideEnough => \A j \in 1 .. Len(type) : u[j] = Same(type[j], t[j])
<1>1. Typed /\ Marshals /\ Progress /\ Receives
  BY DEF TupleIInv, Receives
<1>2. i = Len(type) /\ bytesRead = pos /\ pos <= Len(input)
  BY <1>1 DEF Progress
<1>3. PICK ok \in BOOLEAN : \E e \in 0 .. Len(t) : \E at : AsSent(ok, e, at)
  BY <1>1 DEF Progress
<1>4. PICK e \in 0 .. Len(t) : \E at : AsSent(ok, e, at)
  BY <1>3
<1>5. PICK at : AsSent(ok, e, at)
  BY <1>4
<1>6. /\ out \in Seq(Byte)
      /\ Laid(out, Opening, Ws, e, at)
      /\ i \in 0 .. e /\ pos = Len(Opening) + at[i]
      /\ \A j \in 1 .. i : Ws[j].ok /\ Readable(type[j], t[j]) /\ (Wide(type[j]) => u[j] = Same(type[j], t[j]))
  BY <1>5 DEF AsSent, ChainTo, Outcome
<1>7. e = Len(type) /\ Len(t) = Len(type) /\ i = e
  <2>1. Len(t) \in 0 .. Len(type) /\ Len(type) \in Nat
    BY <1>1, HeadIs DEF Marshals
  <2>2. QED BY <1>2, <1>6, <2>1
<1>8. pos = Len(out)
  BY <1>6, <1>7 DEF Laid
<1>9. DOMAIN t = 1 .. Len(type) /\ DOMAIN type = 1 .. Len(type) /\ \A j \in 1 .. Len(type) : Ws[j] = WriteField(type[j], t[j])
  BY <1>1, <1>7 DEF Marshals, Typed, Ws
<1>10. ~TupleRefusal /\ \A j \in DOMAIN type : Readable(type[j], t[j])
  BY <1>6, <1>7, <1>9 DEF TupleRefusal
<1>11. out # << CborNull >>
  <2>1. 0 \in Nat /\ Holds(out, 0, out)
    <3>1. Len(out) \in Nat
      BY <1>6, LenProperties
    <3>2. QED BY <3>1 DEF Holds
  <2>2. Holds(out, 0, Opening)
    BY <1>6, <2>1 DEF Laid
  <2>3. out[1] # CborNull
    BY <1>1, <1>6, <2>2, HeadRead, NilIsNone
  <2>4. QED BY <2>3
<1>12. QED BY <1>2, <1>6, <1>7, <1>8, <1>10, <1>11 DEF Accepted, WideEnough

\* In any struct type, with fields of any widths, but that the generator emits no
\* decoder for less bits than a field has (gen.go:840): what is marshalled unmarshals
\* to the same struct, or was refused half-way and never unmarshals.
THEOREM AlwaysRoundTrip == TupleSpec => [](WideEnough => RoundTrip)
<1>1. TupleIInv => (WideEnough => RoundTrip)
  <2> SUFFICES ASSUME TupleIInv, WideEnough, TupleArrived, state \in {"unmarshal", "ok", "error"}
               PROVE  IF Accepted
                      THEN /\ state # "error"
                           /\ state = "ok" =>
                                /\ \A j \in 1 .. Len(type) : u[j] = Same(type[j], t[j])
                                /\ pos = Len(out)
                                /\ bytesRead = Len(out)
                      ELSE state # "ok"
    BY DEF RoundTrip
  <2>1. state = "error" => ~Accepted
    BY DEF TupleIInv
  <2>2. QED BY <2>1, AllRead
<1>2. QED BY <1>1, Always, PTL

\* And what is cut short anywhere does not unmarshal, however wide the fields are.
THEOREM AlwaysTupleNoneOfAPart == TupleSpec => []TupleNoneOfAPart
<1>1. TupleIInv => TupleNoneOfAPart
  <2> SUFFICES ASSUME TupleIInv, state = "ok", NEW k \in 0 .. (Len(out) - 1), input = SubSeq(out, 1, k) PROVE FALSE
    BY DEF TupleNoneOfAPart
  <2>1. Receives
    BY DEF Receives
  <2>2. out \in Seq(Byte) /\ Len(out) \in Nat /\ k \in Nat /\ k < Len(out)
    BY <2>1, SentIs, LenProperties
  <2>3. PICK p \in Nat : p = 0 /\ p + k = k /\ p + k <= Len(out)
    BY <2>2
  <2>4. input = SubSeq(out, p + 1, p + k)
    BY <2>3
  <2>5. Len(input) = k /\ \A c \in 1 .. k : input[c] = out[p + c]
    BY <2>2, <2>3, <2>4, SliceOf
  <2>6. Cut
    BY <2>2, <2>3, <2>5 DEF Cut, Agree
  <2>7. Len(out) <= Len(input)
    BY <2>6, AllRead
  <2>8. QED BY <2>2, <2>5, <2>7
<1>2. QED BY <1>1, Always, PTL

\* One more of them.
LEMMA AllMore ==
  ASSUME NEW head, NEW ws, NEW n \in Nat, Len(ws) = n, NEW more, Len(more) = n + 1, \A j \in 1 .. n : more[j] = ws[j]
  PROVE  All(head, more) = AndThen(All(head, ws), more[n + 1])
<1>1. PICK put : IsAll(put, head, ws, n)
  BY AllIs, Zenon
<1>2. PICK put2 : IsAll(put2, head, more, n + 1)
  <2>1. n + 1 \in Nat
    OBVIOUS
  <2>2. QED BY <2>1, AllIs, Zenon
<1> DEFINE S == { j \in 0 .. n : put2[j] = put[j] }
<1>3. 0 \in S
  BY <1>1, <1>2 DEF IsAll
<1>4. ASSUME NEW j \in 0 .. (n - 1), j \in S PROVE j + 1 \in S
  <2>1. j + 1 \in 1 .. n /\ j + 1 \in 1 .. (n + 1) /\ (j + 1) - 1 = j /\ j + 1 \in 0 .. n
    OBVIOUS
  <2>2. put[j + 1] = AndThen(put[j], ws[j + 1]) /\ put2[j + 1] = AndThen(put2[j], more[j + 1])
    BY <1>1, <1>2, <2>1 DEF IsAll
  <2>3. put2[j] = put[j] /\ more[j + 1] = ws[j + 1]
    BY <1>4, <2>1
  <2>4. QED BY <2>1, <2>2, <2>3
<1>5. \A j \in 0 .. n : j \in S
  <2> HIDE DEF S
  <2>1. QED BY <1>3, <1>4, Upward
<1>6. put2[n] = put[n]
  <2>1. n \in 0 .. n
    OBVIOUS
  <2>2. QED BY <1>5, <2>1
<1>7. put2[n + 1] = AndThen(put2[n], more[n + 1])
  <2>1. n + 1 \in 1 .. (n + 1) /\ (n + 1) - 1 = n
    OBVIOUS
  <2>2. QED BY <1>2, <2>1 DEF IsAll
<1>8. QED BY <1>1, <1>2, <1>6, <1>7 DEF IsAll

\* The fields that have been read would be written as the bytes that have been taken.
Rewritten == [j \in 1 .. i |-> WriteField(type[j], u[j])]
AllExact  == \A j \in DOMAIN type : Exact(type[j])
OneRead   == AllExact => All(Opening, Rewritten) = Wrote(SubSeq(input, 1, pos))

\* At the header of the struct.
LEMMA HeaderOnce ==
  ASSUME TupleIInv, UnmarshalTupleHeader, state' = "unmarshal"
  PROVE  OneRead'
<1> DEFINE hd == CborReadHeaderBuf(input, 0)
<1>1. /\ i' = 0 /\ pos' = (IF hd.ok THEN hd.n ELSE 0) /\ IsOfType(hd)
      /\ type' = type /\ input' = input /\ input \in Seq(Byte)
  <2>1. /\ i' = 0 /\ pos' = (IF hd.ok THEN hd.n ELSE 0)
        /\ state' = (IF IsOfType(hd) THEN "unmarshal" ELSE "error")
        /\ type' = type /\ input' = input
    BY DEF UnmarshalTupleHeader, BeginTuple
  <2>2. Receives
    BY DEF Receives, UnmarshalTupleHeader
  <2> HIDE DEF hd
  <2>3. QED BY <2>1, <2>2 DEF TupleIInv, Sending
<1>2. PICK p \in Nat : p = 0
  OBVIOUS
<1>3. SubSeq(input, p + 1, p + hd.n) = Opening /\ hd.n \in Nat
  <2>1. CborReadHeaderBuf(input, p).ok /\ hd = CborReadHeaderBuf(input, p) /\ hd.maj = MajArray /\ hd.extra = Len(type)
    BY <1>1, <1>2 DEF IsOfType
  <2> HIDE DEF hd
  <2>2. SubSeq(input, p + 1, p + hd.n) = WriteMajorTypeHeader(hd.maj, hd.extra) /\ hd.n \in Nat
    BY <1>1, <2>1, HeaderRead
  <2>3. QED BY <2>1, <2>2 DEF Opening
<1>4. pos' = hd.n
  BY <1>1 DEF IsOfType
<1> HIDE DEF hd
<1>5. SubSeq(input', 1, pos') = Opening
  <2>1. p + 1 = 1 /\ p + hd.n = hd.n
    BY <1>2, <1>3
  <2>2. QED BY <1>1, <1>3, <1>4, <2>1
<1>6. Opening' = Opening
  BY <1>1 DEF Opening
<1>7. All(Opening, Rewritten') = Wrote(Opening)
  <2> PICK ws : ws = Rewritten'
    OBVIOUS
  <2> PICK n \in Nat : n = 0 /\ Len(ws) = n
    <3>1. Rewritten' = << >>
      BY <1>1 DEF Rewritten
    <3>2. QED BY <3>1
  <2>1. PICK put : IsAll(put, Opening, ws, n)
    BY AllIs, Zenon
  <2>2. QED BY <2>1 DEF IsAll
<1>8. QED BY <1>5, <1>6, <1>7 DEF OneRead

\* And at each field.
LEMMA FieldOnce ==
  ASSUME TupleIInv, UnmarshalTupleField, OneRead, state' = "unmarshal"
  PROVE  OneRead'
<1>1. input \in Seq(Byte) /\ Typed /\ Progress
  <2>1. Receives
    BY DEF Receives, UnmarshalTupleField
  <2>2. QED BY <2>1 DEF TupleIInv, Sending, UnmarshalTupleField
<1>2. /\ i \in 0 .. Len(type) /\ i < Len(type) /\ Len(type) \in Nat /\ pos \in Nat /\ pos <= Len(input)
      /\ u = [j \in 1 .. Len(type) |-> u[j]] /\ \A j \in (i + 1) .. Len(type) : u[j] = Zero(type[j])
  BY <1>1, HeadIs DEF Progress, UnmarshalTupleField
<1>3. PICK r : r = ReadField(type[i + 1], input, pos, Zero(type[i + 1]))
  OBVIOUS
<1>4. i + 1 \in 1 .. Len(type) /\ i \in Nat /\ u[i + 1] = Zero(type[i + 1])
  <2>1. i + 1 \in 1 .. Len(type) /\ i \in Nat /\ i + 1 \in (i + 1) .. Len(type)
    BY <1>2
  <2>2. QED BY <1>2, <2>1
<1>5. /\ r.ok /\ u' = [u EXCEPT ![i + 1] = r.v] /\ pos' = pos + r.n /\ i' = i + 1
      /\ type' = type /\ input' = input
  BY <1>3, <1>4 DEF UnmarshalTupleField, AssignField
<1> SUFFICES ASSUME AllExact PROVE All(Opening', Rewritten') = Wrote(SubSeq(input', 1, pos'))
  <2>1. AllExact' = AllExact
    BY <1>5 DEF AllExact
  <2>2. QED BY <2>1 DEF OneRead
<1> DEFINE f == type[i + 1]
           w == WriteField(f, r.v)
<1>6. Again(w, input, pos, r)
  <2>1. IsField(f) /\ Exact(f)
    BY <1>1, <1>4 DEF AllExact, Typed
  <2> HIDE DEF f
  <2>2. r = ReadField(f, input, pos, Zero(f))
    BY <1>3 DEF f
  <2>3. QED BY <1>1, <1>2, <2>1, <2>2, FieldAgain
<1>7. Len(Rewritten) = i /\ Len(Rewritten') = i + 1 /\ Rewritten'[i + 1] = w
      /\ \A j \in 1 .. i : Rewritten'[j] = Rewritten[j]
  <2>1. Rewritten = [j \in 1 .. i |-> WriteField(type[j], u[j])]
    BY DEF Rewritten
  <2>2. Rewritten' = [j \in 1 .. (i + 1) |-> WriteField(type[j], u'[j])]
    BY <1>5 DEF Rewritten
  <2>3. u'[i + 1] = r.v /\ \A j \in 1 .. i : u'[j] = u[j]
    BY <1>2, <1>4, <1>5
  <2>4. i + 1 \in 1 .. (i + 1) /\ \A j \in 1 .. i : j \in 1 .. (i + 1)
    BY <1>4
  <2>5. Len(Rewritten) = i /\ Len(Rewritten') = i + 1
    BY <1>4, <2>1, <2>2
  <2>6. QED BY <2>1, <2>2, <2>3, <2>4, <2>5
<1>8. Opening' = Opening
  BY <1>5 DEF Opening
<1> HIDE DEF w
<1>9. All(Opening, Rewritten') = AndThen(All(Opening, Rewritten), w)
  <2> PICK ws, more : ws = Rewritten /\ more = Rewritten'
    OBVIOUS
  <2> PICK n \in Nat : n = i
    BY <1>4
  <2>1. Len(ws) = n /\ Len(more) = n + 1 /\ \A j \in 1 .. n : more[j] = ws[j]
    BY <1>7
  <2>2. All(Opening, more) = AndThen(All(Opening, ws), more[n + 1])
    BY <2>1, AllMore
  <2>3. QED BY <1>7, <2>2
<1>10. r.n \in Nat /\ pos + r.n <= Len(input) /\ w = Wrote(SubSeq(input, pos + 1, pos + r.n))
  BY <1>5, <1>6 DEF Again
<1>11. SubSeq(input, 1, pos) \o SubSeq(input, pos + 1, pos + r.n) = SubSeq(input, 1, pos + r.n)
  <2> PICK p \in Nat, m \in Nat, n \in Nat : p = 0 /\ m = pos /\ n = r.n
    BY <1>2, <1>10
  <2>1. (p + m) + n <= Len(input) /\ p + 1 = 1 /\ p + m = m /\ p + (m + n) = m + n
    BY <1>10
  <2>2. InTwo(input, p, m, n)
    BY <1>1, <2>1, SliceJoin, Zenon
  <2>3. QED BY <2>1, <2>2 DEF InTwo
<1>12. All(Opening, Rewritten) = Wrote(SubSeq(input, 1, pos))
  BY DEF OneRead
<1>13. All(Opening, Rewritten') = Wrote(SubSeq(input, 1, pos) \o SubSeq(input, pos + 1, pos + r.n))
  BY <1>9, <1>10, <1>12 DEF AndThen, Wrote
<1>14. QED BY <1>5, <1>8, <1>11, <1>13

\* The invariant with it.
OnceInv == TupleIInv /\ (state \in {"unmarshal", "ok"} => OneRead)

LEMMA OnceHolds == OnceInv /\ [TupleNext]_tupleVars => OnceInv'
<1> SUFFICES ASSUME OnceInv, [TupleNext]_tupleVars PROVE OnceInv'
  OBVIOUS
<1>1. TupleIInv /\ TupleIInv'
  BY StepHolds DEF OnceInv
<1> SUFFICES ASSUME state' \in {"unmarshal", "ok"} PROVE OneRead'
  BY <1>1 DEF OnceInv
<1>2. CASE UnmarshalTupleHeader
  <2>1. state' = "unmarshal"
    BY <1>2 DEF UnmarshalTupleHeader, BeginTuple
  <2>2. QED BY <1>1, <1>2, <2>1, HeaderOnce
<1>3. CASE UnmarshalTupleField
  <2>1. state' = "unmarshal" /\ state = "unmarshal"
    BY <1>3 DEF UnmarshalTupleField, AssignField
  <2>2. QED BY <1>1, <1>3, <2>1, FieldOnce DEF OnceInv
<1>4. CASE UnmarshalTupleEnd \/ UNCHANGED tupleVars
  <2>1. /\ type' = type /\ input' = input /\ pos' = pos /\ u' = u /\ i' = i
        /\ state \in {"unmarshal", "ok"}
    BY <1>4 DEF UnmarshalTupleEnd, tupleVars
  <2>2. OneRead' = OneRead
    BY <2>1 DEF OneRead, AllExact, Opening, Rewritten
  <2>3. QED BY <2>1, <2>2 DEF OnceInv
<1>5. CASE MarshalTupleNil \/ MarshalTupleHeader \/ MarshalTupleField \/ MarshalTupleEnd \/ ArriveTuple
  BY <1>5 DEF MarshalTupleNil, MarshalTupleHeader, MarshalTupleField, Put, MarshalTupleEnd, ArriveTuple
<1>6. QED BY <1>2, <1>3, <1>4, <1>5 DEF TupleNext

\* Any struct type of exact fields has one encoding of each value: what unmarshals
\* without error, whoever sent it, marshals to the bytes that were read.
THEOREM AlwaysOneEncoding == TupleSpec => []OneEncoding
<1>1. TupleInit => OnceInv
  BY InitHolds DEF OnceInv, TupleInit
<1>2. TupleSpec => []OnceInv
  BY <1>1, OnceHolds, PTL DEF TupleSpec
<1>3. OnceInv => OneEncoding
  <2> SUFFICES ASSUME OnceInv, state = "ok", AllExact PROVE Remarshalled = Wrote(SubSeq(input, 1, bytesRead))
    BY DEF OneEncoding, AllExact
  <2>1. Typed /\ i = Len(type) /\ bytesRead = pos
    BY DEF OnceInv, TupleIInv, Progress
  <2>2. All(Opening, Rewritten) = Wrote(SubSeq(input, 1, pos))
    BY DEF OnceInv, OneRead
  <2>3. Rewritten = [j \in DOMAIN type |-> WriteField(type[j], u[j])]
    BY <2>1 DEF Rewritten, Typed
  <2>4. QED BY <2>1, <2>2, <2>3 DEF Remarshalled, Opening
<1>4. QED BY <1>2, <1>3, PTL

-----------------------------------------------------------------------------

\* A field as the types of the map representation declare them.
IsMapField(f) == IsField(f) /\ f.read = f.w /\ \A v \in Values(f) : IsValue(f, v)

\* Both types, the one that is marshalled in the order of its names.
MapTyped ==
  /\ Len(sent) \in Arguments /\ sent = [j \in 1 .. Len(sent) |-> sent[j]]
  /\ Len(into) \in Nat /\ into = [j \in 1 .. Len(into) |-> into[j]]
  /\ \A j \in 1 .. Len(sent) : IsMapField(sent[j])
  /\ \A j \in 1 .. Len(into) : IsMapField(into[j])
  /\ \A j, k \in 1 .. Len(sent) : sent[j].key = sent[k].key => j = k
  /\ \A j, k \in 1 .. Len(into) : into[j].key = into[k].key => j = k
  /\ \A j \in 1 .. Len(sent), k \in 1 .. Len(into) : sent[j].key = into[k].key => sent[j] = into[k]
  /\ \A j, k \in 1 .. Len(sent) : j < k => KeyLess(sent[j].name, sent[k].name)

LEMMA SortedOrder ==
  ASSUME NEW D, D \subseteq Seq(Byte), IsFiniteSet(D)
  PROVE  \E n \in Nat :
           /\ n = Cardinality(D) /\ Sorted(D) \in [1 .. n -> D] /\ Len(Sorted(D)) = n
           /\ \A c, j \in 1 .. n : c < j => KeyLess(Sorted(D)[c], Sorted(D)[j])
<1> DEFINE n == Cardinality(D)
           ks == Sorted(D)
<1>1. n \in Nat
  BY FS_CardinalityType
<1>2. \E x \in [1 .. n -> D] : \A c, j \in DOMAIN x : c < j => KeyLess(x[c], x[j])
  BY SortedExists, Zenon DEF InKeyOrder
<1>3. ks \in [1 .. n -> D] /\ \A c, j \in DOMAIN ks : c < j => KeyLess(ks[c], ks[j])
  BY <1>2, Zenon DEF Sorted
<1>4. Len(ks) = n
  <2> HIDE DEF ks, n
  <2>1. ks \in Seq(D)
    BY <1>1, <1>3
  <2>2. QED BY <1>1, <1>3, <2>1, LenProperties
<1> HIDE DEF ks, n
<1>5. DOMAIN ks = 1 .. n
  BY <1>3
<1>6. QED BY <1>1, <1>3, <1>4, <1>5 DEF ks, n

\* The fields are those of the type, in the order of their names.
LEMMA EncodersAre ==
  ASSUME NEW fields, IsStructType(fields), Len(fields) \in Arguments
  PROVE  LET es == WriteMapEncodersToFile(fields) IN
         /\ Len(es) \in Arguments /\ es = [j \in 1 .. Len(es) |-> es[j]]
         /\ \A j \in 1 .. Len(es) : \E k \in DOMAIN fields : es[j] = fields[k]
         /\ \A j, k \in 1 .. Len(es) : j < k => KeyLess(es[j].name, es[k].name)
         /\ \A j, k \in 1 .. Len(es) : es[j].key = es[k].key => j = k
<1> DEFINE all == { fields[j] : j \in DOMAIN fields }
           D   == { f.name : f \in all }
           ks  == Sorted(D)
           es  == WriteMapEncodersToFile(fields)
<1>0. /\ fields \in Seq(Fields) /\ Len(fields) \in Nat /\ DOMAIN fields = 1 .. Len(fields)
      /\ \A j \in DOMAIN fields : fields[j].name \in Seq(Byte)
      /\ \A j, k \in DOMAIN fields : fields[j].name = fields[k].name \/ fields[j].key = fields[k].key => j = k
  <2>1. /\ fields \in Seq(Fields)
        /\ \A j \in DOMAIN fields : fields[j] \in Fields
        /\ \A j, k \in DOMAIN fields : fields[j].name = fields[k].name \/ fields[j].key = fields[k].key => j = k
    BY DEF IsStructType, IsField
  <2>2. \A f \in Fields : f.name \in Seq(Byte)
    BY DEF Fields
  <2>3. Len(fields) \in Nat /\ DOMAIN fields = 1 .. Len(fields)
    BY <2>1, LenProperties
  <2>4. QED BY <2>1, <2>2, <2>3
<1>1. D \subseteq Seq(Byte)
  BY <1>0
<1>2. IsFiniteSet(D) /\ Cardinality(D) <= Len(fields)
  <2> DEFINE I == 1 .. Len(fields)
             g == [j \in I |-> fields[j].name]
  <2>1. IsFiniteSet(I) /\ Cardinality(I) = Len(fields)
    <3>1. PICK n \in Nat : n = Len(fields)
      BY <1>0
    <3>3. Cardinality(1 .. n) = n /\ IsFiniteSet(1 .. n)
      <4>1. 1 \in Int /\ n \in Int
        OBVIOUS
      <4>2. Cardinality(1 .. n) = IF 1 > n THEN 0 ELSE n - 1 + 1
        BY <4>1, FS_Interval
      <4>3. IsFiniteSet(1 .. n)
        BY <4>1, FS_Interval
      <4>4. QED BY <4>2, <4>3
    <3>4. QED BY <3>1, <3>3, Zenon
  <2>2. g \in Surjection(I, D)
    <3>1. g \in [I -> D]
      BY <1>0
    <3>2. \A x \in D : \E j \in I : g[j] = x
      BY <1>0
    <3> HIDE DEF g, D, I
    <3>3. QED BY <3>1, <3>2 DEF Surjection
  <2> HIDE DEF g, D, I
  <2>3. QED BY <2>1, <2>2, FS_Surjection
<1>3. PICK n \in Nat : /\ n = Cardinality(D) /\ ks \in [1 .. n -> D] /\ Len(ks) = n
                       /\ \A c, j \in 1 .. n : c < j => KeyLess(ks[c], ks[j])
  <2> HIDE DEF D
  <2>1. QED BY <1>1, <1>2, SortedOrder
<1>4. es = [j \in 1 .. n |-> CHOOSE f \in all : f.name = ks[j]]
  BY <1>3 DEF WriteMapEncodersToFile
<1>5. ASSUME NEW j \in 1 .. n PROVE \E k \in DOMAIN fields : es[j] = fields[k] /\ es[j].name = ks[j]
  <2>1. ks[j] \in D
    BY <1>3
  <2>2. \E f \in all : f.name = ks[j]
    BY <2>1
  <2>3. es[j] \in all /\ es[j].name = ks[j]
    <3> HIDE DEF all, ks, es
    <3>1. QED BY <1>4, <2>2
  <2>4. QED BY <2>3
<1> HIDE DEF D, all, ks, es
<1>6. Len(es) = n /\ es = [j \in 1 .. n |-> es[j]]
  <2>1. DOMAIN es = 1 .. n
    BY <1>4
  <2>2. es = [j \in 1 .. n |-> es[j]]
    BY <1>4
  <2>3. QED BY <2>1, <2>2
<1>7. n \in Arguments
  BY <1>0, <1>2, <1>3, CodecSizes
<1>8. \A j, k \in 1 .. n : j < k => KeyLess(es[j].name, es[k].name)
  BY <1>3, <1>5
<1>9. ASSUME NEW j \in 1 .. n, NEW k \in 1 .. n, es[j].key = es[k].key PROVE j = k
  <2>1. es[j].name = es[k].name
    BY <1>0, <1>5, <1>9
  <2>2. es[j].name \in Seq(Byte)
    BY <1>0, <1>5
  <2>3. ~KeyLess(es[j].name, es[j].name)
    BY <2>2, KeyOrder
  <2>4. ~(j < k) /\ ~(k < j)
    BY <1>8, <2>1, <2>3
  <2>5. QED BY <2>4
<1>10. QED BY <1>5, <1>6, <1>7, <1>8, <1>9 DEF es

LEMMA TypesOfMap == MapInit => MapTyped
<1> SUFFICES ASSUME MapInit PROVE MapTyped
  OBVIOUS
<1>1. PICK pair \in Pairs : sent = WriteMapEncodersToFile(pair.sent) /\ into = pair.into
  BY DEF MapInit
<1> DEFINE fields == pair.sent
<1>2. /\ IsStructType(fields) /\ IsStructType(into) /\ Len(fields) \in Arguments
      /\ \A j \in DOMAIN fields, k \in DOMAIN into : fields[j].key = into[k].key => fields[j] = into[k]
  BY <1>1, PairsAssumption
<1> HIDE DEF fields
<1>3. /\ Len(sent) \in Arguments /\ sent = [j \in 1 .. Len(sent) |-> sent[j]]
      /\ \A j \in 1 .. Len(sent) : \E k \in DOMAIN fields : sent[j] = fields[k]
      /\ \A j, k \in 1 .. Len(sent) : j < k => KeyLess(sent[j].name, sent[k].name)
      /\ \A j, k \in 1 .. Len(sent) : sent[j].key = sent[k].key => j = k
  BY <1>1, <1>2, EncodersAre DEF fields
<1>4. \A fs : IsStructType(fs) => \A j \in DOMAIN fs : IsMapField(fs[j])
  BY DEF IsStructType, IsMapField
<1>5. /\ Len(into) \in Nat /\ DOMAIN into = 1 .. Len(into) /\ into = [j \in 1 .. Len(into) |-> into[j]]
      /\ \A j, k \in 1 .. Len(into) : into[j].key = into[k].key => j = k
  <2>1. into \in Seq(Fields) /\ \A j, k \in DOMAIN into : into[j].key = into[k].key => j = k
    BY <1>2 DEF IsStructType
  <2>2. QED BY <2>1, LenProperties
<1>6. \A j \in 1 .. Len(into) : IsMapField(into[j])
  BY <1>2, <1>4, <1>5
<1>7. \A j \in 1 .. Len(sent) : IsMapField(sent[j])
  BY <1>2, <1>3, <1>4
<1>8. \A j \in 1 .. Len(sent), k \in 1 .. Len(into) : sent[j].key = into[k].key => sent[j] = into[k]
  BY <1>2, <1>3, <1>5
<1>9. QED BY <1>3, <1>5, <1>6, <1>7, <1>8 DEF MapTyped

-----------------------------------------------------------------------------

\* What has been written.
MapHead(k) == WriteMajorTypeHeader(MajMap, k)
MapWs == [j \in 1 .. Len(t) |-> Entry(sent[j], t[j])]
MapSent(ok) == All(MapHead(Len(sent)), MapWs) = [ok |-> ok, bytes |-> out]

MapMarshals ==
  /\ Len(t) \in 0 .. Len(sent) /\ t = [j \in 1 .. Len(t) |-> t[j]]
  /\ \A j \in 1 .. Len(t) : t[j] \in Values(sent[j])

MapNilSent == out = << CborNull >> /\ t = << >>
MapAllSent == Len(t) = Len(sent) /\ MapSent(TRUE)

MapReceives == state \in {"arrived", "unmarshal", "ok", "error", "panic"}

\* What has arrived of what was written without error, and what of the rest.
WholeArrives ==
  /\ MapAllSent /\ Carries(entries) /\ input \in Seq(Byte)
  /\ Begins(input, Message(entries)) \/ Begins(Message(entries), input)
AsWritten == input = out /\ entries = << >> /\ (MapNilSent \/ MapSent(FALSE))

MapSending ==
  /\ state = "new" => t = << >>
  /\ state = "marshal" => MapSent(TRUE)
  /\ state = "marshalled" => MapNilSent \/ MapAllSent
  /\ state = "refused" => MapSent(FALSE)
  /\ state \in {"new", "marshal", "marshalled", "refused"} => entries = << >>
  /\ MapReceives => AsWritten \/ WholeArrives

LEMMA MapFieldKey ==
  ASSUME NEW f, IsMapField(f)
  PROVE  f.key \in Seq(Byte) /\ f.name \in Seq(Byte) /\ f.kind \in Kinds /\ f.w \in Nat /\ Wide(f)
<1>1. f \in Fields /\ (f.kind \in Numbered => f.w \in 1 .. Word) /\ f.read = f.w
  BY DEF IsMapField, IsField
<1>2. f.key \in Seq(Byte) /\ f.name \in Seq(Byte) /\ f.kind \in Kinds /\ f.w \in Nat
  BY <1>1 DEF Fields
<1>3. f.kind \in SizedInts => f.w \in 1 .. Word
  BY <1>1 DEF Numbered, SizedInts
<1>4. Word \in Nat
  BY Powers
<1>5. f.w \in f.w .. Word \/ ~(f.kind \in SizedInts)
  BY <1>3, <1>4
<1>6. QED BY <1>1, <1>2, <1>5 DEF Wide

\* What is written of an entry is bytes.
LEMMA StringType ==
  ASSUME NEW k \in Seq(Byte)
  PROVE  WriteString(k).bytes \in Seq(Byte) /\ WriteString(k).ok \in BOOLEAN
<1>1. << >> \in Seq(Byte) /\ 0 \in Nat
  OBVIOUS
<1>2. Comes(WriteString(k), TRUE, << >>, 0, ReadString(<< >>, 0), k)
  BY <1>1, StringComes
<1>3. QED BY <1>2 DEF Comes

LEMMA ValueType ==
  ASSUME NEW f, IsMapField(f), NEW v, IsValue(f, v)
  PROVE  WriteField(f, v).bytes \in Seq(Byte) /\ WriteField(f, v).ok \in BOOLEAN
<1>1. << >> \in Seq(Byte) /\ 0 \in Nat
  OBVIOUS
<1>2. Back(f, v, << >>, 0)
  BY <1>1, FieldBack DEF IsMapField
<1>3. QED BY <1>2 DEF Back

LEMMA AndThenIs ==
  ASSUME NEW r, NEW w, NEW x, x = AndThen(r, w)
  PROVE  /\ r.ok => x.ok = w.ok /\ x.bytes = r.bytes \o w.bytes
         /\ ~r.ok => x = r
<1>1. CASE r.ok
  <2>1. x.ok = w.ok /\ x.bytes = r.bytes \o w.bytes
    BY <1>1 DEF AndThen
  <2>2. QED BY <1>1, <2>1
<1>2. CASE ~r.ok
  BY <1>2 DEF AndThen
<1>3. QED BY <1>1, <1>2

LEMMA EntryType ==
  ASSUME NEW f, IsMapField(f), NEW v, IsValue(f, v)
  PROVE  LET k == WriteString(f.key)
             w == WriteField(f, v)
         IN  /\ Entry(f, v).bytes \in Seq(Byte) /\ Entry(f, v).ok \in BOOLEAN
             /\ Entry(f, v).ok <=> k.ok /\ w.ok
             /\ k.ok => Entry(f, v).bytes = k.bytes \o w.bytes
             /\ ~k.ok => Entry(f, v).bytes = k.bytes
<1> DEFINE k == WriteString(f.key)
           w == WriteField(f, v)
<1>1. k.bytes \in Seq(Byte) /\ k.ok \in BOOLEAN
  BY MapFieldKey, StringType
<1>2. w.bytes \in Seq(Byte) /\ w.ok \in BOOLEAN
  BY ValueType
<1>3. Entry(f, v) = AndThen(k, w)
  BY DEF Entry
<1> HIDE DEF k, w
<1>4. k.bytes \o w.bytes \in Seq(Byte)
  BY <1>1, <1>2, ConcatProperties
<1> DEFINE x == Entry(f, v)
<1>5. k.ok => x.ok = w.ok /\ x.bytes = k.bytes \o w.bytes
  BY <1>3, AndThenIs, Zenon
<1>6. ~k.ok => x = k
  BY <1>3, AndThenIs, Zenon
<1> HIDE DEF x
<1>7. x.bytes \in Seq(Byte) /\ x.ok \in BOOLEAN
  <2>1. CASE k.ok
    BY <1>2, <1>4, <1>5, <2>1
  <2>2. CASE ~k.ok
    BY <1>1, <1>6, <2>2
  <2>3. QED BY <2>1, <2>2
<1>8. x.ok <=> k.ok /\ w.ok
  BY <1>5, <1>6
<1>9. ~k.ok => x.bytes = k.bytes
  BY <1>6
<1>10. QED BY <1>5, <1>7, <1>8, <1>9 DEF k, w, x

\* All is written without error when each is.
LEMMA AllOk ==
  ASSUME NEW head \in Seq(Byte), NEW ws, NEW n \in Nat, Len(ws) = n,
         \A j \in 1 .. n : ws[j].bytes \in Seq(Byte) /\ ws[j].ok \in BOOLEAN,
         NEW w, w = All(head, ws)
  PROVE  /\ w.bytes \in Seq(Byte) /\ w.ok \in BOOLEAN
         /\ w.ok <=> \A j \in 1 .. n : ws[j].ok
         /\ Holds(w.bytes, 0, head)
<1>1. Chain(w, head, ws, n)
  BY AllChain, Zenon
<1>2. PICK e \in 0 .. n : \E at : ChainTo(w, head, ws, n, e, at)
  BY <1>1, Zenon DEF Chain
<1>3. PICK at : ChainTo(w, head, ws, n, e, at)
  BY <1>2, Zenon
<1>4. w.bytes \in Seq(Byte) /\ w.ok \in BOOLEAN
  BY <1>1 DEF Chain
<1>5. /\ \A j \in 1 .. (e - 1) : ws[j].ok
      /\ w.ok => e = n /\ (e # 0 => ws[e].ok)
      /\ ~w.ok => e # 0 /\ ~ws[e].ok
  BY <1>3 DEF ChainTo
<1>6. w.ok => \A j \in 1 .. n : ws[j].ok
  <2>1. SUFFICES ASSUME w.ok, NEW j \in 1 .. n PROVE ws[j].ok
    OBVIOUS
  <2>2. e = n /\ (j \in 1 .. (e - 1) \/ j = e)
    BY <1>5, <2>1
  <2>3. QED BY <1>5, <2>1, <2>2
<1>7. ~w.ok => e \in 1 .. n /\ ~ws[e].ok
  BY <1>5
<1>8. Holds(w.bytes, 0, head)
  <2>1. PICK p \in Nat : p = 0
    OBVIOUS
  <2>2. Holds(w.bytes, p, w.bytes)
    BY <1>4, <2>1, LenProperties DEF Holds
  <2>3. Holds(w.bytes, p, head)
    BY <1>3, <1>4, <2>2 DEF ChainTo, Laid
  <2>4. QED BY <2>1, <2>3
<1>9. QED BY <1>4, <1>6, <1>7, <1>8

-----------------------------------------------------------------------------

MapSends == MapTyped /\ MapMarshals /\ MapSending

LEMMA MapKept ==
  ASSUME UNCHANGED <<sent, into, t>>, MapTyped, MapMarshals
  PROVE  MapTyped' /\ MapMarshals' /\ MapWs' = MapWs
<1>1. MapTyped'
  BY DEF MapTyped
<1>2. MapMarshals'
  BY DEF MapMarshals
<1>3. MapWs' = MapWs
  BY DEF MapWs
<1>4. QED BY <1>1, <1>2, <1>3

LEMMA MapHeadIs ==
  ASSUME NEW n \in Arguments
  PROVE  MapHead(n) \in Seq(Byte) /\ Len(MapHead(n)) \in Nat \ {0} /\ MajMap \in Majors /\ n \in Nat
BY WriteType, CodecSizes DEF MapHead

LEMMA MapInitHolds == MapInit => MapSends
<1> SUFFICES ASSUME MapInit PROVE MapSends
  OBVIOUS
<1>1. MapTyped
  BY TypesOfMap
<1>2. MapMarshals
  <2>1. t = << >> /\ Len(t) = 0 /\ t = [j \in 1 .. Len(t) |-> t[j]] /\ 1 .. Len(t) = {}
    BY DEF MapInit
  <2>2. Len(sent) \in Nat
    BY <1>1, MapHeadIs DEF MapTyped
  <2>3. QED BY <2>1, <2>2 DEF MapMarshals
<1>3. MapSending
  BY DEF MapInit, MapSending, MapReceives
<1>4. QED BY <1>1, <1>2, <1>3 DEF MapSends

LEMMA MapNilHolds ==
  ASSUME MapSends, MarshalMapNil
  PROVE  MapSends'
<1>1. MapTyped' /\ MapMarshals'
  BY MapKept DEF MapSends, MarshalMapNil
<1>2. MapSending'
  BY DEF MapSends, MarshalMapNil, MapSending, MapReceives, MapNilSent
<1>3. QED BY <1>1, <1>2 DEF MapSends

LEMMA MapHeaderHolds ==
  ASSUME MapSends, MarshalMapHeader
  PROVE  MapSends'
<1>1. MapTyped' /\ MapMarshals' /\ MapWs' = MapWs
  BY MapKept DEF MapSends, MarshalMapHeader
<1>2. t' = << >> /\ sent' = sent /\ out' = MapHead(Len(sent)) /\ state' = "marshal" /\ state = "new" /\ entries' = entries
  BY DEF MapSends, MapSending, MarshalMapHeader, MapHead
<1>3. MapSent(TRUE)'
  <2>1. Len(MapWs') = 0
    <3>1. MapWs' = << >>
      BY <1>2 DEF MapWs
    <3>2. QED BY <3>1
  <2>2. PICK n \in Nat : n = 0
    OBVIOUS
  <2>3. PICK put : IsAll(put, MapHead(Len(sent)), MapWs', n)
    BY <2>1, <2>2, AllIs
  <2>4. All(MapHead(Len(sent)), MapWs') = Wrote(MapHead(Len(sent)))
    BY <2>2, <2>3 DEF IsAll
  <2>5. All(MapHead(Len(sent)), MapWs)' = All(MapHead(Len(sent)), MapWs')
    BY <1>2 DEF All, MapHead, AndThen, WriteMajorTypeHeader, Width, Fits, Limit
  <2>6. QED BY <1>2, <2>4, <2>5 DEF MapSent, Wrote
<1>4. MapSending'
  BY <1>2, <1>3 DEF MapSends, MapSending, MapReceives
<1>5. QED BY <1>1, <1>4 DEF MapSends

LEMMA MapFieldHolds ==
  ASSUME MapSends, MarshalMapField
  PROVE  MapSends'
<1> DEFINE n == Len(t)
<1>1. /\ MapTyped /\ MapMarshals /\ n \in Nat /\ n + 1 \in 1 .. Len(sent) /\ Len(sent) \in Nat
      /\ MapSent(TRUE) /\ entries = << >> /\ Len(sent) \in Arguments
  <2>1. MapTyped /\ MapMarshals /\ MapSent(TRUE) /\ entries = << >>
    BY DEF MapSends, MapSending, MarshalMapField
  <2>2. n \in 0 .. Len(sent) /\ Len(sent) \in Nat /\ n < Len(sent) /\ Len(sent) \in Arguments
    BY <2>1, MapHeadIs DEF MapMarshals, MarshalMapField, MapTyped
  <2> HIDE DEF n
  <2>3. n \in Nat /\ n + 1 \in 1 .. Len(sent)
    BY <2>2
  <2>4. QED BY <2>1, <2>2, <2>3
<1>2. PICK v \in Values(sent[n + 1]) : t' = Append(t, v) /\ Put(Entry(sent[n + 1], v))
  BY <1>1 DEF MarshalMapField
<1> DEFINE f == sent[n + 1]
           w == Entry(f, v)
<1>3. IsMapField(f) /\ IsValue(f, v)
  BY <1>1, <1>2 DEF MapTyped, IsMapField
<1>4. /\ t' = [j \in 1 .. (n + 1) |-> IF j = n + 1 THEN v ELSE t[j]]
      /\ Len(t') = n + 1 /\ t'[n + 1] = v /\ \A j \in 1 .. n : t'[j] = t[j]
  <2>1. t = [j \in 1 .. n |-> t[j]]
    BY <1>1 DEF MapMarshals
  <2>2. t' = [j \in 1 .. (n + 1) |-> IF j = n + 1 THEN v ELSE t[j]]
    BY <1>1, <1>2, <2>1, AppendTo
  <2>3. DOMAIN t' = 1 .. (n + 1) /\ n + 1 \in 1 .. (n + 1) /\ \A j \in 1 .. n : j \in 1 .. (n + 1) /\ j # n + 1
    BY <1>1, <2>2
  <2>4. Len(t') = n + 1
    BY <1>1, <2>3, <2>2
  <2>5. QED BY <2>2, <2>3, <2>4
<1>5. sent' = sent /\ into' = into /\ entries' = entries
  BY DEF MarshalMapField
<1>6. w.bytes \in Seq(Byte) /\ w.ok \in BOOLEAN
  BY <1>3, EntryType
<1>7. MapWs'[n + 1] = w /\ (\A j \in 1 .. n : MapWs'[j] = MapWs[j]) /\ Len(MapWs') = n + 1 /\ Len(MapWs) = n
  <2>1. MapWs' = [j \in 1 .. (n + 1) |-> Entry(sent[j], t'[j])]
    BY <1>4, <1>5 DEF MapWs
  <2>2. MapWs = [j \in 1 .. n |-> Entry(sent[j], t[j])]
    BY DEF MapWs
  <2>3. n + 1 \in Nat
    BY <1>1
  <2>4. Len(MapWs') = n + 1 /\ Len(MapWs) = n
    BY <1>1, <2>1, <2>2, <2>3
  <2>5. QED BY <1>1, <1>4, <2>1, <2>2, <2>4
<1>9. PICK ok \in BOOLEAN : ok = w.ok
  BY <1>6
<1>10. MapSent(ok)'
  <2>1. All(MapHead(Len(sent)), MapWs') = AndThen(All(MapHead(Len(sent)), MapWs), MapWs'[n + 1])
    <3>1. PICK more, ws, head : more = MapWs' /\ ws = MapWs /\ head = MapHead(Len(sent))
      OBVIOUS
    <3>2. Len(ws) = n /\ Len(more) = n + 1 /\ \A j \in 1 .. n : more[j] = ws[j]
      BY <1>7, <3>1
    <3>3. All(head, more) = AndThen(All(head, ws), more[n + 1])
      <4> HIDE DEF n
      <4>1. QED BY <1>1, <3>2, AllMore
    <3>4. QED BY <3>1, <3>3
  <2>2. All(MapHead(Len(sent)), MapWs) = [ok |-> TRUE, bytes |-> out]
    BY <1>1 DEF MapSent
  <2>3. AndThen([ok |-> TRUE, bytes |-> out], w) = [ok |-> w.ok, bytes |-> out \o w.bytes]
    BY DEF AndThen
  <2>4. All(MapHead(Len(sent)), MapWs') = [ok |-> ok, bytes |-> out']
    BY <1>2, <1>7, <1>9, <2>1, <2>2, <2>3 DEF Put
  <2>5. MapSent(ok)' <=> All(MapHead(Len(sent)), MapWs') = [ok |-> ok, bytes |-> out']
    BY <1>5 DEF MapSent
  <2>6. QED BY <2>4, <2>5
<1>11. state' = IF ok THEN "marshal" ELSE "refused"
  BY <1>2, <1>9 DEF Put, MarshalMapField
<1>12. MapSending'
  <2>1. CASE ok
    <3>1. state' = "marshal" /\ MapSent(TRUE)'
      BY <1>10, <1>11, <2>1
    <3>2. QED BY <1>1, <1>5, <3>1 DEF MapSending, MapReceives
  <2>2. CASE ~ok
    <3>1. state' = "refused" /\ MapSent(FALSE)'
      BY <1>10, <1>11, <2>2
    <3>2. QED BY <1>1, <1>5, <3>1 DEF MapSending, MapReceives
  <2>3. QED BY <2>1, <2>2
<1>13. MapTyped'
  BY <1>1, <1>5 DEF MapTyped
<1>14. MapMarshals'
  <2>1. Len(t') \in 0 .. Len(sent') /\ t' = [j \in 1 .. Len(t') |-> t'[j]]
    BY <1>1, <1>4, <1>5
  <2>2. ASSUME NEW j \in 1 .. Len(t') PROVE t'[j] \in Values(sent'[j])
    <3>1. CASE j = n + 1
      BY <1>2, <1>4, <1>5, <3>1
    <3>2. CASE j # n + 1
      <4>1. j \in 1 .. n
        BY <1>1, <1>4, <2>2, <3>2
      <4>2. QED BY <1>1, <1>4, <1>5, <4>1 DEF MapMarshals
    <3>3. QED BY <3>1, <3>2
  <2>3. QED BY <2>1, <2>2 DEF MapMarshals
<1>15. QED BY <1>12, <1>13, <1>14 DEF MapSends

LEMMA MapEndHolds ==
  ASSUME MapSends, MarshalMapEnd
  PROVE  MapSends'
<1>1. MapTyped' /\ MapMarshals' /\ MapWs' = MapWs
  BY MapKept DEF MapSends, MarshalMapEnd
<1>2. MapAllSent
  BY DEF MapSends, MapSending, MarshalMapEnd, MapAllSent
<1>3. MapAllSent'
  BY <1>1, <1>2 DEF MapAllSent, MapSent, MarshalMapEnd
<1>4. MapSending'
  BY <1>3 DEF MarshalMapEnd, MapSending, MapReceives, MapSends
<1>5. QED BY <1>1, <1>4 DEF MapSends

\* What was sent and has arrived stays.
LEMMA MapFrozen ==
  ASSUME UNCHANGED <<sent, t, out, entries, input, into>>
  PROVE  AsWritten' = AsWritten /\ WholeArrives' = WholeArrives
<1>1. MapWs' = MapWs
  BY DEF MapWs
<1>2. MapSent(TRUE)' = MapSent(TRUE) /\ MapSent(FALSE)' = MapSent(FALSE)
  BY <1>1 DEF MapSent
<1>3. Carries(entries)' = Carries(entries)
  BY DEF Carries
<1>4. Message(entries)' = Message(entries)
  BY DEF Message
<1>5. (Begins(input, Message(entries)) \/ Begins(Message(entries), input))' = (Begins(input, Message(entries)) \/ Begins(Message(entries), input))
  BY <1>4 DEF Begins
<1>6. WholeArrives' = WholeArrives
  BY <1>2, <1>3, <1>5 DEF WholeArrives, MapAllSent
<1>7. AsWritten' = AsWritten
  BY <1>2 DEF AsWritten, MapNilSent
<1>8. QED BY <1>6, <1>7

\* A map does not begin like a null.
LEMMA MapIsNotNull ==
  ASSUME NEW s \in Seq(Byte), NEW n \in Arguments, Holds(s, 0, MapHead(n))
  PROVE  0 < Len(s) /\ s[1] # CborNull
<1>1. PICK p \in Nat : p = 0 /\ p + 1 = 1
  OBVIOUS
<1>2. CborReadHeaderBuf(s, p) = Header(MajMap, n, Len(MapHead(n)))
  BY <1>1, MapHeadIs, HeaderComesBack DEF MapHead
<1>3. CborReadHeaderBuf(s, p).ok /\ CborReadHeaderBuf(s, p).maj # MajOther
  BY <1>2 DEF Header, MajMap, MajOther
<1>4. QED BY <1>1, <1>3, NotNull

\* What was written.
LEMMA SentHolds ==
  ASSUME MapTyped, MapMarshals, NEW ok \in BOOLEAN, MapSent(ok)
  PROVE  /\ out \in Seq(Byte) /\ Holds(out, 0, MapHead(Len(sent))) /\ out # << CborNull >>
         /\ ok <=> ~MapRefusal
<1>0. Len(t) \in Nat /\ Len(t) \in 0 .. Len(sent) /\ Len(sent) \in Arguments /\ DOMAIN t = 1 .. Len(t)
  <2>1. Len(sent) \in Arguments /\ Len(sent) \in Nat
    BY MapHeadIs DEF MapTyped
  <2>2. Len(t) \in 0 .. Len(sent) /\ t = [j \in 1 .. Len(t) |-> t[j]]
    BY DEF MapMarshals
  <2>3. DOMAIN t = 1 .. Len(t)
    BY <2>2
  <2>4. QED BY <2>1, <2>2, <2>3
<1>1. ASSUME NEW j \in 1 .. Len(t)
      PROVE  MapWs[j] = Entry(sent[j], t[j]) /\ MapWs[j].bytes \in Seq(Byte) /\ MapWs[j].ok \in BOOLEAN
  <2>1. IsMapField(sent[j]) /\ IsValue(sent[j], t[j])
    BY <1>0 DEF MapTyped, MapMarshals, IsMapField
  <2>2. MapWs[j] = Entry(sent[j], t[j])
    BY DEF MapWs
  <2>3. QED BY <2>1, <2>2, EntryType
<1>2. PICK w : w = All(MapHead(Len(sent)), MapWs) /\ w = [ok |-> ok, bytes |-> out]
  BY DEF MapSent
<1>3. w.ok = ok /\ w.bytes = out
  BY <1>2
<1>4. MapHead(Len(sent)) \in Seq(Byte) /\ Len(MapWs) = Len(t)
  <2>1. Len(MapWs) = Len(t)
    BY <1>0 DEF MapWs
  <2>2. QED BY <1>0, <2>1, MapHeadIs
<1>5. /\ w.bytes \in Seq(Byte)
      /\ w.ok <=> \A j \in 1 .. Len(t) : MapWs[j].ok
      /\ Holds(w.bytes, 0, MapHead(Len(sent)))
  BY <1>0, <1>1, <1>2, <1>4, AllOk
<1>6. out # << CborNull >>
  <2>1. out[1] # CborNull
    BY <1>0, <1>3, <1>5, MapIsNotNull
  <2>2. QED BY <2>1
<1>7. MapRefusal <=> \E j \in 1 .. Len(t) : ~MapWs[j].ok
  BY <1>0, <1>1 DEF MapRefusal
<1>8. QED BY <1>3, <1>5, <1>6, <1>7

LEMMA MapArriveHolds ==
  ASSUME MapSends, ArriveMap
  PROVE  MapSends'
<1>1. MapTyped' /\ MapMarshals' /\ MapWs' = MapWs
  BY MapKept DEF MapSends, ArriveMap
<1>2. MapSent(TRUE)' = MapSent(TRUE) /\ MapSent(FALSE)' = MapSent(FALSE)
  BY <1>1 DEF MapSent, ArriveMap
<1>3. entries = << >> /\ UNCHANGED <<sent, t, out, into>> /\ state' = "arrived" /\ state \in {"marshalled", "refused"}
  BY DEF MapSends, MapSending, ArriveMap
<1>4. AsWritten' \/ WholeArrives'
  <2>1. CASE state = "refused"
    <3>1. MapSent(FALSE) /\ input' = out /\ entries' = entries
      BY <2>1 DEF MapSends, MapSending, ArriveMap
    <3>2. QED BY <1>2, <1>3, <3>1 DEF AsWritten
  <2>2. CASE state = "marshalled" /\ out = << CborNull >>
    <3>1. MapNilSent \/ MapAllSent
      BY <2>2 DEF MapSends, MapSending
    <3>2. ~MapSent(TRUE)
      <4>1. TRUE \in BOOLEAN
        OBVIOUS
      <4>2. MapSent(TRUE) => out # << CborNull >>
        BY <4>1, SentHolds DEF MapSends
      <4>3. QED BY <2>2, <4>2
    <3>3. MapNilSent
      BY <3>1, <3>2 DEF MapAllSent
    <3>4. input' = out /\ entries' = entries
      BY <2>2 DEF ArriveMap
    <3>5. QED BY <1>3, <3>3, <3>4 DEF AsWritten, MapNilSent
  <2>3. CASE state = "marshalled" /\ out # << CborNull >>
    <3>1. MapAllSent
      BY <2>3 DEF MapSends, MapSending, MapNilSent
    <3>2. PICK m \in MapArrivals(sent, t) :
            /\ Carries(m.entries) /\ m.bytes \in Seq(Byte)
            /\ Begins(m.bytes, Message(m.entries)) \/ Begins(Message(m.entries), m.bytes)
            /\ input' = m.bytes /\ entries' = m.entries
      BY <2>3 DEF ArriveMap
    <3>3. MapAllSent'
      BY <1>2, <1>3, <3>1 DEF MapAllSent
    <3>4. Carries(entries)'
      BY <1>3, <3>2 DEF Carries
    <3>5. Message(entries)' = Message(m.entries)
      BY <3>2 DEF Message
    <3>6. (Begins(input, Message(entries)) \/ Begins(Message(entries), input))'
      BY <3>2, <3>5 DEF Begins
    <3>7. QED BY <3>2, <3>3, <3>4, <3>6 DEF WholeArrives
  <2>4. QED BY <1>3, <2>1, <2>2, <2>3
<1>5. MapSending'
  BY <1>3, <1>4 DEF MapSending, MapReceives
<1>6. QED BY <1>1, <1>5 DEF MapSends

LEMMA MapRestHolds ==
  ASSUME MapSends, UNCHANGED <<sent, t, out, entries, input, into>>, MapReceives, MapReceives'
  PROVE  MapSends'
<1>1. MapTyped' /\ MapMarshals'
  BY MapKept DEF MapSends
<1>2. AsWritten' = AsWritten /\ WholeArrives' = WholeArrives
  BY MapFrozen
<1>3. MapSending'
  BY <1>2 DEF MapSends, MapSending, MapReceives
<1>4. QED BY <1>1, <1>3 DEF MapSends

\* A step of UnmarshalCBOR.
Unmarshals == UnmarshalMapHeader \/ BadName \/ Known \/ Unknown \/ UnknownPanics \/ UnmarshalMapEnd

LEMMA UnmarshalsKeeps ==
  ASSUME Unmarshals
  PROVE  UNCHANGED <<sent, t, out, entries, input, into>> /\ MapReceives /\ MapReceives'
<1>1. CASE UnmarshalMapHeader
  BY <1>1 DEF UnmarshalMapHeader, BeginMap, MapReceives
<1>2. CASE BadName
  BY <1>2 DEF BadName, MapReceives
<1>3. CASE Known
  BY <1>3 DEF Known, AssignEntry, MapReceives
<1>4. CASE Unknown
  BY <1>4 DEF Unknown, MapReceives
<1>5. CASE UnknownPanics
  BY <1>5 DEF UnknownPanics, MapReceives
<1>6. CASE UnmarshalMapEnd
  BY <1>6 DEF UnmarshalMapEnd, MapReceives
<1>7. QED BY <1>1, <1>2, <1>3, <1>4, <1>5, <1>6 DEF Unmarshals

LEMMA MapSendsStep == MapSends /\ [MapNext]_mapVars => MapSends'
<1> SUFFICES ASSUME MapSends, [MapNext]_mapVars PROVE MapSends'
  OBVIOUS
<1>1. CASE MarshalMapNil
  BY <1>1, MapNilHolds
<1>2. CASE MarshalMapHeader
  BY <1>2, MapHeaderHolds
<1>3. CASE MarshalMapField
  BY <1>3, MapFieldHolds
<1>4. CASE MarshalMapEnd
  BY <1>4, MapEndHolds
<1>5. CASE ArriveMap
  BY <1>5, MapArriveHolds
<1>6. CASE Unmarshals
  BY <1>6, UnmarshalsKeeps, MapRestHolds
<1>7. CASE UNCHANGED mapVars
  <2>1. MapTyped' /\ MapMarshals' /\ MapWs' = MapWs
    BY <1>7, MapKept DEF MapSends, mapVars
  <2>2. AsWritten' = AsWritten /\ WholeArrives' = WholeArrives
    BY <1>7, MapFrozen DEF mapVars
  <2>3. MapSent(TRUE)' = MapSent(TRUE) /\ MapSent(FALSE)' = MapSent(FALSE)
    BY <1>7, <2>1 DEF MapSent, mapVars
  <2>4. MapSending'
    BY <1>7, <2>2, <2>3 DEF MapSends, MapSending, MapReceives, MapNilSent, MapAllSent, mapVars
  <2>5. QED BY <2>1, <2>4 DEF MapSends
<1>8. QED BY <1>1, <1>2, <1>3, <1>4, <1>5, <1>6, <1>7 DEF MapNext, Unmarshals

-----------------------------------------------------------------------------

\* Two byte strings whose first difference is at j.
LEMMA DiffersAt ==
  ASSUME NEW a \in Seq(Byte), NEW b \in Seq(Byte), NEW j \in Nat, j \in 1 .. Len(a), j \in 1 .. Len(b),
         \A c \in 1 .. (j - 1) : a[c] = b[c], a[j] < b[j]
  PROVE  Lexicographic(a, b)
<1>1. Len(a) \in Nat /\ Len(b) \in Nat
  BY LenProperties
<1>2. SubSeq(a, 1, j - 1) = SubSeq(b, 1, j - 1)
  <2>1. SubSeq(a, 1, j - 1) = [c \in 1 .. (j - 1) |-> a[c]] /\ SubSeq(b, 1, j - 1) = [c \in 1 .. (j - 1) |-> b[c]]
    <3>1. \A c \in Nat : (1 + c) - 1 = c
      OBVIOUS
    <3>2. QED BY <1>1, <3>1, SubSeqProperties
  <2>2. QED BY <2>1
<1>3. j - 1 <= Len(a)
  BY <1>1
<1>4. QED BY <1>2, <1>3 DEF Lexicographic

LEMMA DiffersInFront ==
  ASSUME NEW a \in Seq(Byte), NEW b \in Seq(Byte), NEW j \in Nat, j \in 1 .. Len(a), j \in 1 .. Len(b),
         \A c \in 1 .. (j - 1) : a[c] = b[c], a[j] < b[j], NEW x \in Seq(Byte), NEW y \in Seq(Byte)
  PROVE  Lexicographic(a \o x, b \o y)
<1>1. Len(a) \in Nat /\ Len(b) \in Nat /\ Len(x) \in Nat /\ Len(y) \in Nat
  BY LenProperties
<1>2. /\ a \o x \in Seq(Byte) /\ Len(a \o x) = Len(a) + Len(x) /\ \A c \in 1 .. Len(a) : (a \o x)[c] = a[c]
      /\ b \o y \in Seq(Byte) /\ Len(b \o y) = Len(b) + Len(y) /\ \A c \in 1 .. Len(b) : (b \o y)[c] = b[c]
  BY <1>1, ConcatProperties
<1>3. j \in 1 .. Len(a \o x) /\ j \in 1 .. Len(b \o y) /\ (a \o x)[j] < (b \o y)[j]
  BY <1>1, <1>2
<1>4. \A c \in 1 .. (j - 1) : (a \o x)[c] = (b \o y)[c]
  <2>1. \A c \in 1 .. (j - 1) : c \in 1 .. Len(a) /\ c \in 1 .. Len(b)
    BY <1>1
  <2>2. QED BY <1>2, <2>1
<1>5. QED BY <1>2, <1>3, <1>4, DiffersAt

LEMMA DiffersBehind ==
  ASSUME NEW h \in Seq(Byte), NEW a \in Seq(Byte), NEW b \in Seq(Byte), NEW j \in Nat, j \in 1 .. Len(a), j \in 1 .. Len(b),
         \A c \in 1 .. (j - 1) : a[c] = b[c], a[j] < b[j]
  PROVE  Lexicographic(h \o a, h \o b)
<1>1. PICK n \in Nat : n = Len(h)
  BY LenProperties
<1>2. Len(a) \in Nat /\ Len(b) \in Nat
  BY LenProperties
<1>3. /\ h \o a \in Seq(Byte) /\ Len(h \o a) = n + Len(a)
      /\ \A c \in 1 .. Len(h \o a) : (h \o a)[c] = IF c <= n THEN h[c] ELSE a[c - n]
      /\ h \o b \in Seq(Byte) /\ Len(h \o b) = n + Len(b)
      /\ \A c \in 1 .. Len(h \o b) : (h \o b)[c] = IF c <= n THEN h[c] ELSE b[c - n]
  BY <1>1, ConcatProperties
<1>4. n + j \in Nat /\ n + j \in 1 .. Len(h \o a) /\ n + j \in 1 .. Len(h \o b) /\ (n + j) - n = j /\ ~(n + j <= n)
  BY <1>2, <1>3
<1>5. (h \o a)[n + j] = a[j] /\ (h \o b)[n + j] = b[j]
  BY <1>3, <1>4
<1>6. ASSUME NEW c \in 1 .. ((n + j) - 1) PROVE (h \o a)[c] = (h \o b)[c]
  <2>1. c \in 1 .. Len(h \o a) /\ c \in 1 .. Len(h \o b) /\ (~(c <= n) => c - n \in 1 .. (j - 1))
    BY <1>2, <1>3
  <2>2. QED BY <1>3, <2>1
<1>7. QED BY <1>3, <1>4, <1>5, <1>6, DiffersAt

\* The header of the lesser length is the lesser.
LEMMA HeadersInOrder ==
  ASSUME NEW maj \in Majors, NEW m \in 0 .. MaxLength, NEW n \in 0 .. MaxLength, m < n
  PROVE  LET a == WriteMajorTypeHeader(maj, m)
             b == WriteMajorTypeHeader(maj, n)
         IN  \E j \in Nat : /\ j \in 1 .. Len(a) /\ j \in 1 .. Len(b)
                            /\ (\A c \in 1 .. (j - 1) : a[c] = b[c]) /\ a[j] < b[j]
<1> DEFINE a == WriteMajorTypeHeader(maj, m)
           b == WriteMajorTypeHeader(maj, n)
           x == Width(m)
           y == Width(n)
<1>1. m \in Arguments /\ n \in Arguments /\ m \in Nat /\ n \in Nat /\ MaxLength \in Nat
  <2>1. MaxLength \in Arguments /\ MaxLength \in Nat
    BY CodecSizes
  <2>2. m \in Nat /\ n \in Nat /\ m <= MaxLength /\ n <= MaxLength
    BY <2>1
  <2>3. QED BY <2>1, <2>2, CodecSizes
<1>2. /\ x \in 0 .. Len(Widths) /\ Fits(m, x) /\ \A j \in 0 .. (x - 1) : ~Fits(m, j)
      /\ y \in 0 .. Len(Widths) /\ Fits(n, y) /\ Len(Widths) \in Nat
  BY <1>1, WidthProperties, Sizes
<1>3. a \in Seq(Byte) /\ b \in Seq(Byte) /\ Len(a) \in Nat \ {0} /\ Len(b) \in Nat \ {0}
  BY <1>1, WriteType
<1>4. Fits(m, y)
  <2>1. Limit(y) \in Nat
    BY <1>2, SizesAssumption
  <2>2. QED BY <1>1, <1>2, <2>1 DEF Fits
<1>5. x <= y
  BY <1>2, <1>4
<1>6. maj \in Nat /\ LowRange \in Nat /\ Inline \in Nat /\ maj * LowRange \in Nat
  BY Sizes DEF Majors
<1>7. CASE y = 0
  <2>1. x = 0
    BY <1>2, <1>5, <1>7
  <2>2. a = << FirstByte(maj, m) >> /\ b = << FirstByte(maj, n) >>
    BY <1>7, <2>1 DEF WriteMajorTypeHeader
  <2>3. FirstByte(maj, m) < FirstByte(maj, n)
    BY <1>1, <1>6 DEF FirstByte
  <2>4. a[1] < b[1] /\ 1 \in 1 .. Len(a) /\ 1 \in 1 .. Len(b) /\ 1 .. (1 - 1) = {}
    BY <2>2, <2>3
  <2>5. QED BY <2>4
<1>8. CASE y # 0 /\ x = 0
  <2>1. a = << FirstByte(maj, m) >>
    BY <1>8 DEF WriteMajorTypeHeader
  <2>2. b = << FirstByte(maj, Inline + y - 1) >> \o BigEndian(n, Widths[y]) /\ BigEndian(n, Widths[y]) \in Seq(Byte)
    BY <1>1, <1>2, <1>8, WriteWide, BigEndianProperties
  <2>3. m < Inline
    BY <1>2, <1>8 DEF Fits, Limit
  <2>4. FirstByte(maj, m) < FirstByte(maj, Inline + y - 1)
    BY <1>1, <1>2, <1>6, <1>8, <2>3 DEF FirstByte
  <2>5. a[1] = FirstByte(maj, m) /\ b[1] = FirstByte(maj, Inline + y - 1)
    BY <2>1, <2>2
  <2>6. a[1] < b[1] /\ 1 \in 1 .. Len(a) /\ 1 \in 1 .. Len(b) /\ 1 .. (1 - 1) = {}
    BY <1>3, <2>4, <2>5
  <2>7. QED BY <2>6
<1>9. CASE x # 0 /\ x < y
  <2>1. a = << FirstByte(maj, Inline + x - 1) >> \o BigEndian(m, Widths[x]) /\ BigEndian(m, Widths[x]) \in Seq(Byte)
    BY <1>1, <1>2, <1>9, WriteWide, BigEndianProperties
  <2>2. b = << FirstByte(maj, Inline + y - 1) >> \o BigEndian(n, Widths[y]) /\ BigEndian(n, Widths[y]) \in Seq(Byte)
    BY <1>1, <1>2, <1>9, WriteWide, BigEndianProperties
  <2>4. FirstByte(maj, Inline + x - 1) < FirstByte(maj, Inline + y - 1)
    BY <1>1, <1>2, <1>6, <1>9 DEF FirstByte
  <2>5. a[1] = FirstByte(maj, Inline + x - 1) /\ b[1] = FirstByte(maj, Inline + y - 1)
    BY <2>1, <2>2
  <2>6. a[1] < b[1] /\ 1 \in 1 .. Len(a) /\ 1 \in 1 .. Len(b) /\ 1 .. (1 - 1) = {}
    BY <1>3, <2>4, <2>5
  <2>7. QED BY <2>6
<1>10. CASE x # 0 /\ x = y
  <2> DEFINE h == << FirstByte(maj, Inline + x - 1) >>
             k == BigEndian(m, Widths[x])
             l == BigEndian(n, Widths[x])
  <2>1. a = h \o k /\ k \in Seq(Byte) /\ Len(k) = Widths[x]
    BY <1>1, <1>2, <1>10, WriteWide, BigEndianProperties
  <2>2. b = h \o l /\ l \in Seq(Byte) /\ Len(l) = Widths[x]
    BY <1>1, <1>2, <1>10, WriteWide, BigEndianProperties
  <2>3. Lexicographic(k, l)
    <3>1. x \in 1 .. Len(Widths) /\ n < Limit(x)
      BY <1>2, <1>10 DEF Fits
    <3>2. QED BY <3>1, OrderAssumption
  <2>4. Widths[x] \in Nat
    BY <1>2, <1>10, Sizes
  <2> HIDE DEF k, l
  <2>5. PICK j \in 1 .. Len(l) : /\ SubSeq(k, 1, j - 1) = SubSeq(l, 1, j - 1)
                                 /\ j > Len(k) \/ k[j] < l[j]
    BY <2>3 DEF Lexicographic
  <2>6. j \in Nat /\ j \in 1 .. Len(k) /\ j \in 1 .. Len(l) /\ k[j] < l[j]
    BY <2>1, <2>2, <2>4, <2>5
  <2>7. \A c \in 1 .. (j - 1) : k[c] = l[c]
    BY <2>1, <2>2, <2>5, <2>6, BytesDiffer
  <2>8. Len(h) = 1 /\ h[1] = FirstByte(maj, Inline + x - 1)
    OBVIOUS
  <2> HIDE DEF h
  <2>9. h \in Seq(Byte)
    <3>1. Inline + x - 1 \in 0 .. (LowRange - 1)
      BY <1>2, <1>10, Sizes
    <3>2. QED BY <3>1, FirstByteType DEF h
  <2>10. /\ Len(a) = 1 + Len(k) /\ \A c \in 1 .. Len(a) : a[c] = IF c <= 1 THEN h[c] ELSE k[c - 1]
         /\ Len(b) = 1 + Len(l) /\ \A c \in 1 .. Len(b) : b[c] = IF c <= 1 THEN h[c] ELSE l[c - 1]
    <3>1. \A z \in Seq(Byte) : /\ Len(h \o z) = 1 + Len(z)
                               /\ \A c \in 1 .. (1 + Len(z)) : (h \o z)[c] = IF c <= 1 THEN h[c] ELSE z[c - 1]
      <4> SUFFICES ASSUME NEW z \in Seq(Byte)
                   PROVE  /\ Len(h \o z) = 1 + Len(z)
                          /\ \A c \in 1 .. (1 + Len(z)) : (h \o z)[c] = IF c <= 1 THEN h[c] ELSE z[c - 1]
        OBVIOUS
      <4>1. Len(h) = 1
        BY <2>8
      <4>2. /\ Len(h \o z) = Len(h) + Len(z)
            /\ \A c \in 1 .. Len(h) + Len(z) : (h \o z)[c] = IF c <= Len(h) THEN h[c] ELSE z[c - Len(h)]
        BY <2>9, ConcatProperties, Zenon
      <4>3. QED BY <4>1, <4>2
    <3>2. QED BY <2>1, <2>2, <3>1
  <2>11. j + 1 \in Nat /\ j + 1 \in 1 .. Len(a) /\ j + 1 \in 1 .. Len(b) /\ a[j + 1] = k[j] /\ b[j + 1] = l[j]
    <3>1. j + 1 \in 1 .. Len(a) /\ j + 1 \in 1 .. Len(b) /\ ~(j + 1 <= 1) /\ (j + 1) - 1 = j
      BY <2>1, <2>2, <2>4, <2>6, <2>10
    <3>2. QED BY <2>6, <2>10, <3>1
  <2>12. ASSUME NEW c \in 1 .. ((j + 1) - 1) PROVE a[c] = b[c]
    <3>1. c \in 1 .. Len(a) /\ c \in 1 .. Len(b) /\ (~(c <= 1) => c - 1 \in 1 .. (j - 1))
      BY <2>1, <2>2, <2>4, <2>6, <2>10
    <3>2. QED BY <2>7, <2>10, <3>1
  <2>13. QED BY <2>6, <2>11, <2>12
<1>11. x \in Nat /\ y \in Nat /\ (x < y \/ x = y)
  BY <1>2, <1>5
<1>12. QED BY <1>7, <1>8, <1>9, <1>10, <1>11

LEMMA StringsInOrder ==
  ASSUME NEW k \in Seq(Byte), NEW l \in Seq(Byte), WriteString(k).ok, WriteString(l).ok, KeyLess(k, l)
  PROVE  Lexicographic(WriteString(k).bytes, WriteString(l).bytes)
<1> DEFINE h(v) == WriteMajorTypeHeader(MajTextString, Len(v))
<1>0. Len(k) \in Nat /\ Len(l) \in Nat /\ MaxLength \in Nat
  BY LenProperties, CodecSizes
<1>1. ASSUME NEW v \in Seq(Byte), WriteString(v).ok
      PROVE  WriteString(v).bytes = h(v) \o v /\ h(v) \in Seq(Byte) /\ Len(v) \in 0 .. MaxLength
  <2>1. Len(v) <= MaxLength /\ WriteString(v).bytes = h(v) \o v
    <3>1. CASE Len(v) > MaxLength
      BY <1>1, <3>1 DEF WriteString, WriteSized, Refused
    <3>2. CASE ~(Len(v) > MaxLength)
      <4>1. Len(v) \in Nat
        BY LenProperties
      <4>2. WriteString(v) = Wrote(h(v) \o v)
        BY <3>2 DEF WriteString, WriteSized
      <4>3. QED BY <1>0, <3>2, <4>1, <4>2 DEF Wrote
    <3>3. QED BY <3>1, <3>2
  <2>2. Len(v) \in Nat /\ Len(v) \in Arguments
    BY <1>0, <2>1, LenProperties, CodecSizes
  <2>3. h(v) \in Seq(Byte)
    BY <2>2, WriteType, CodecSizes
  <2>4. QED BY <1>0, <2>1, <2>2, <2>3
<1>2. WriteString(k).bytes = h(k) \o k /\ h(k) \in Seq(Byte) /\ Len(k) \in 0 .. MaxLength
  BY <1>1
<1>3. WriteString(l).bytes = h(l) \o l /\ h(l) \in Seq(Byte) /\ Len(l) \in 0 .. MaxLength
  BY <1>1
<1>4. CASE Len(k) < Len(l)
  <2>1. PICK j \in Nat : /\ j \in 1 .. Len(h(k)) /\ j \in 1 .. Len(h(l))
                         /\ (\A c \in 1 .. (j - 1) : h(k)[c] = h(l)[c]) /\ h(k)[j] < h(l)[j]
    <3>1. MajTextString \in Majors
      BY CodecSizes
    <3>2. QED BY <1>2, <1>3, <1>4, <3>1, HeadersInOrder
  <2> HIDE DEF h
  <2>2. Lexicographic(h(k) \o k, h(l) \o l)
    BY <1>2, <1>3, <2>1, DiffersInFront
  <2>3. QED BY <1>2, <1>3, <2>2
<1>5. CASE Len(k) = Len(l)
  <2>1. PICK j \in 1 .. Len(l) : SubSeq(k, 1, j - 1) = SubSeq(l, 1, j - 1) /\ k[j] < l[j]
    BY <1>0, <1>5 DEF KeyLess
  <2>2. j \in Nat /\ j \in 1 .. Len(k)
    BY <1>0, <1>5
  <2>3. \A c \in 1 .. (j - 1) : k[c] = l[c]
    BY <1>5, <2>1, <2>2, BytesDiffer
  <2>4. h(k) = h(l)
    BY <1>5
  <2> HIDE DEF h
  <2>5. Lexicographic(h(k) \o k, h(k) \o l)
    BY <1>2, <2>1, <2>2, <2>3, DiffersBehind
  <2>6. QED BY <1>2, <1>3, <2>4, <2>5
<1>6. QED BY <1>4, <1>5 DEF KeyLess

LEMMA MapSendsAlways == MapSpec => []MapSends
BY MapInitHolds, MapSendsStep, PTL DEF MapSpec

\* The keys are sorted, when the key of each field is its name: the code goes by
\* the names (gen.go).
THEOREM AlwaysKeysSorted ==
  MapSpec => []((\A j \in DOMAIN sent : sent[j].key = sent[j].name) => KeysSorted)
<1> DEFINE Named == \A j \in DOMAIN sent : sent[j].key = sent[j].name
<1>1. MapSends => (Named => KeysSorted)
  <2> SUFFICES ASSUME MapSends, Named, state = "marshalled", out # << CborNull >>,
                      NEW j \in DOMAIN sent, NEW k \in DOMAIN sent, j < k
               PROVE  Lexicographic(WriteString(sent[j].key).bytes, WriteString(sent[k].key).bytes)
    BY DEF KeysSorted
  <2>1. MapTyped /\ MapMarshals /\ MapSent(TRUE) /\ Len(t) = Len(sent)
    BY DEF MapSends, MapSending, MapNilSent, MapAllSent
  <2>2. DOMAIN sent = 1 .. Len(sent) /\ DOMAIN t = 1 .. Len(t) /\ Len(sent) \in Nat
    <3>1. sent = [c \in 1 .. Len(sent) |-> sent[c]] /\ t = [c \in 1 .. Len(t) |-> t[c]] /\ Len(sent) \in Nat
      BY <2>1, MapHeadIs DEF MapTyped, MapMarshals
    <3>2. QED BY <3>1
  <2>3. ASSUME NEW c \in DOMAIN sent
        PROVE  IsMapField(sent[c]) /\ sent[c].key \in Seq(Byte) /\ WriteString(sent[c].key).ok
    <3>1. IsMapField(sent[c]) /\ IsValue(sent[c], t[c])
      BY <2>1, <2>2 DEF MapTyped, MapMarshals, IsMapField
    <3>2. ~MapRefusal
      BY <2>1, SentHolds
    <3>3. Entry(sent[c], t[c]).ok
      BY <2>1, <2>2, <3>2 DEF MapRefusal
    <3>4. QED BY <3>1, <3>3, EntryType, MapFieldKey
  <2>4. KeyLess(sent[j].key, sent[k].key)
    <3>1. KeyLess(sent[j].name, sent[k].name)
      BY <2>1, <2>2 DEF MapTyped
    <3>2. QED BY <3>1
  <2>5. QED BY <2>3, <2>4, StringsInOrder
<1>2. QED BY <1>1, MapSendsAlways, PTL

-----------------------------------------------------------------------------

\* A decoder that may leave the field as it was, and what it yields for a zero field.
Over(r, r0, old) ==
  /\ r.ok <=> r0.ok
  /\ r0.ok => r.n = r0.n /\ (r0.v = << >> => r.v = old) /\ (r0.v # << >> => r.v = r0.v)

LEMMA SomethingRead ==
  ASSUME NEW n \in Nat, NEW p \in 0 .. n, NEW k \in Nat \ {0}, NEW read,
         \A q \in 0 .. n : read[q].ok => read[q].n \in Nat /\ q + read[q].n <= n,
         Elements(p, k, read).ok
  PROVE  Elements(p, k, read).v # << >>
<1>1. k \in Nat
  OBVIOUS
<1>2. PICK at : Along(p, k, read, at)
  BY <1>1, ElementsRead
<1>3. Elements(p, k, read) = Good([j \in 1 .. k |-> read[p + at[j - 1]].v], at[k])
  BY <1>1, <1>2, ElementsAlong, Zenon
<1>4. Elements(p, k, read).v = [j \in 1 .. k |-> read[p + at[j - 1]].v]
  BY <1>3 DEF Good
<1>5. 1 \in DOMAIN Elements(p, k, read).v
  BY <1>4
<1>6. DOMAIN << >> = {}
  BY EmptySeq
<1>7. QED BY <1>5, <1>6

LEMMA SliceOver ==
  ASSUME NEW f, f.kind \in Slices, NEW s \in Seq(Byte), NEW p \in Nat, NEW old
  PROVE  Over(ReadSlice(f, s, p, old), ReadSlice(f, s, p, << >>), old)
<1> DEFINE read == [q \in 0 .. Len(s) |-> ReadElement(f, s, q)]
           hd == CborReadHeaderBuf(s, p)
           r  == ReadSlice(f, s, p, old)
           r0 == ReadSlice(f, s, p, << >>)
<1>1. CASE ~(hd.ok /\ hd.maj = MajArray /\ hd.extra <= MaxLength)
  <2>1. r = r0 /\ ~r.ok
    BY <1>1 DEF ReadSlice, ReadElements, Headed, After, Bad
  <2>2. QED BY <2>1 DEF Over
<1>2. CASE hd.ok /\ hd.maj = MajArray /\ hd.extra <= MaxLength /\ hd.extra = 0
  <2>1. r = Plus(hd.n, Good(old, 0)) /\ r0 = Plus(hd.n, Good(<< >>, 0))
    BY <1>2 DEF ReadSlice, ReadElements, Headed, After
  <2>2. r = Good(old, hd.n + 0) /\ r0 = Good(<< >>, hd.n + 0)
    <3> HIDE DEF hd, r, r0
    <3>1. QED BY <2>1 DEF Plus, Good
  <2>3. QED BY <2>2 DEF Over, Good
<1>3. CASE hd.ok /\ hd.maj = MajArray /\ hd.extra <= MaxLength /\ hd.extra # 0
  <2> DEFINE e == Elements(p + hd.n, hd.extra, read)
  <2>1. r = Plus(hd.n, e) /\ r0 = Plus(hd.n, e)
    BY <1>3 DEF ReadSlice, ReadElements, Headed, After
  <2>2. hd.n \in Nat /\ p + hd.n <= Len(s) /\ hd.extra \in Nat \ {0} /\ Len(s) \in Nat
    BY <1>3, HeaderRead, CodecSizes, LenProperties
  <2>3. e.ok => e.v # << >>
    <3>1. \A q \in 0 .. Len(s) : read[q].ok => read[q].n \in Nat /\ q + read[q].n <= Len(s)
      <4>1. SUFFICES ASSUME NEW q \in 0 .. Len(s), read[q].ok PROVE read[q].n \in Nat /\ q + read[q].n <= Len(s)
        OBVIOUS
      <4>2. q \in Nat /\ read[q] = ReadElement(f, s, q)
        BY <2>2
      <4>3. Local(ReadElement(f, s, q), s, q, ReadElement(f, s, q), s, q)
        BY <4>2, ElementLocal
      <4>4. QED BY <4>1, <4>2, <4>3 DEF Local, Takes
    <3>2. p + hd.n \in 0 .. Len(s)
      BY <2>2
    <3> HIDE DEF read, hd
    <3>3. QED BY <2>2, <3>1, <3>2, SomethingRead
  <2> HIDE DEF e, hd, r, r0
  <2>4. CASE ~e.ok
    <3>1. r = r0 /\ ~r.ok
      BY <2>1, <2>4 DEF Plus, Bad
    <3>2. QED BY <3>1 DEF Over, r, r0
  <2>5. CASE e.ok
    <3>1. r = r0 /\ r0.v = e.v /\ r0.v # << >>
      BY <2>1, <2>3, <2>5 DEF Plus, Good
    <3>2. QED BY <3>1 DEF Over, r, r0
  <2>6. QED BY <2>4, <2>5
<1>4. QED BY <1>1, <1>2, <1>3

LEMMA PointerOver ==
  ASSUME NEW kind, NEW s, NEW p, NEW old
  PROVE  Over(ReadPointer(kind, s, p, old), ReadPointer(kind, s, p, << >>), old)
<1> DEFINE r  == ReadPointer(kind, s, p, old)
           r0 == ReadPointer(kind, s, p, << >>)
           x  == ReadPointee(kind, s, PutBack(p))
<1>1. CASE p >= Len(s)
  <2>1. r = Bad(0) /\ r0 = Bad(0)
    BY <1>1 DEF ReadPointer
  <2>2. r = r0 /\ ~r.ok
    <3> HIDE DEF r, r0
    <3>1. QED BY <2>1 DEF Bad
  <2>3. QED BY <2>2 DEF Over
<1>2. CASE ~(p >= Len(s)) /\ s[p + 1] = CborNull
  <2>1. r = Good(old, 1) /\ r0 = Good(<< >>, 1)
    BY <1>2 DEF ReadPointer
  <2>2. QED BY <2>1 DEF Over, Good
<1>3. CASE ~(p >= Len(s)) /\ s[p + 1] # CborNull
  <2>1. r = r0 /\ r0 = IF x.ok THEN Good(<< x.v >>, x.n) ELSE x
    BY <1>3 DEF ReadPointer, Mapped
  <2> HIDE DEF x, r, r0
  <2>2. CASE ~x.ok
    <3>1. ~r0.ok
      BY <2>1, <2>2
    <3>2. QED BY <2>1, <3>1 DEF Over, r, r0
  <2>3. CASE x.ok
    <3>1. r0.v = << x.v >>
      BY <2>1, <2>3 DEF Good
    <3>2. << x.v >> # << >>
      OBVIOUS
    <3>3. QED BY <2>1, <3>1, <3>2 DEF Over, r, r0
  <2>4. QED BY <2>2, <2>3
<1>4. QED BY <1>1, <1>2, <1>3

\* A byte string that is empty is one if the field was.
LEMMA BytesOverComes ==
  ASSUME NEW s \in Seq(Byte), NEW p \in Nat, NEW v \in Seq(Byte), NEW old, v = << >> => old = << >>
  PROVE  Comes(WriteBytes(v), TRUE, s, p, ReadBytes(s, p, old), v)
<1> DEFINE hd == CborReadHeaderBuf(s, p)
           w  == WriteBytes(v)
           r  == ReadBytes(s, p, old)
           r0 == ReadBytes(s, p, << >>)
<1>1. Comes(w, TRUE, s, p, r0, v)
  BY BytesComes
<1>2. CASE old = << >>
  BY <1>1, <1>2
<1>3. CASE v # << >>
  <2>1. hd.ok => hd.extra \in Nat
    BY HeaderRead, CodecSizes
  <2>2. hd.extra # 0 \/ ~hd.ok => r = r0
    <3>1. CASE ~hd.ok
      BY <3>1 DEF ReadBytes, Headed, After
    <3>2. CASE hd.ok /\ hd.extra # 0
      <4>1. hd.extra > 0
        BY <2>1, <3>2
      <4>2. QED BY <3>2, <4>1 DEF ReadBytes, Headed, After
    <3>3. QED BY <3>1, <3>2
  <2>3. ~hd.ok => ~r.ok
    BY DEF ReadBytes, Headed, After, Bad
  <2>4. CASE Len(v) > ByteArrayMaxLen
    <3>1. w = Refused(<< >>)
      BY <2>4 DEF WriteBytes, WriteSized
    <3>2. Comes(Refused(<< >>), TRUE, s, p, r, v)
      BY <2>3, NoneComes
    <3>3. QED BY <3>1, <3>2
  <2>5. CASE ~(Len(v) > ByteArrayMaxLen)
    <3> DEFINE b == WriteMajorTypeHeader(MajByteString, Len(v)) \o v
    <3>1. w = Wrote(b)
      BY <2>5 DEF WriteBytes, WriteSized
    <3>2. Len(v) \in Arguments /\ MajByteString \in Majors
      <4>1. Len(v) \in Nat /\ ByteArrayMaxLen \in Arguments /\ ByteArrayMaxLen \in Nat
        BY LenProperties, CodecSizes
      <4>2. Len(v) <= ByteArrayMaxLen
        BY <2>5, <4>1
      <4>3. QED BY <4>1, <4>2, CodecSizes
    <3>3. Len(v) # 0
      BY <1>3, EmptySeq
    <3>4. Holds(s, p, b) => hd.ok /\ hd.extra = Len(v)
      BY <3>2, SizedBack
    <3>5. Holds(s, p, w.bytes) => r = r0
      <4>1. w.bytes = b
        BY <3>1 DEF Wrote
      <4>2. QED BY <2>2, <3>3, <3>4, <4>1
    <3> HIDE DEF w, r, r0
    <3>6. Comes(w, TRUE, s, p, r, v)
      BY <1>1, <3>5 DEF Comes
    <3>7. QED BY <3>6 DEF w, r
  <2>6. QED BY <2>4, <2>5
<1>4. QED BY <1>2, <1>3

\* What is in a field that was old after v has been read into it.
Now(f, v, old) == IF Assigns(f, v) THEN Same(f, v) ELSE old

BackOver(f, v, s, p, old) ==
  LET w == WriteField(f, v)
      r == ReadField(f, s, p, old)
  IN  /\ Holds(s, p, w.bytes) /\ r.ok /\ (w.ok \/ p + Len(w.bytes) = Len(s)) =>
           w.ok /\ Readable(f, v) /\ r.n = Len(w.bytes) /\ r.v = Now(f, v, old)
      /\ Holds(s, p, w.bytes) /\ w.ok /\ Readable(f, v) => r.ok

LEMMA ValueBack ==
  ASSUME NEW f, IsMapField(f), NEW v, IsValue(f, v), NEW s \in Seq(Byte), NEW p \in Nat,
         NEW old, f.kind = "bytes" /\ v = << >> => old = << >>
  PROVE  BackOver(f, v, s, p, old)
<1> DEFINE w  == WriteField(f, v)
           r  == ReadField(f, s, p, old)
           r0 == ReadField(f, s, p, Zero(f))
<1>1. IsField(f) /\ f.kind \in Kinds /\ Wide(f)
  BY MapFieldKey DEF IsMapField
<1>2. Back(f, v, s, p)
  BY <1>1, FieldBack
<1>3. /\ w.bytes \in Seq(Byte) /\ w.ok \in BOOLEAN
      /\ Holds(s, p, w.bytes) /\ r0.ok /\ (w.ok \/ p + Len(w.bytes) = Len(s)) =>
           w.ok /\ Readable(f, v) /\ r0.n = Len(w.bytes) /\ r0.v = Same(f, v)
      /\ Holds(s, p, w.bytes) /\ w.ok /\ Readable(f, v) => r0.ok
  BY <1>1, <1>2 DEF Back
<1>4. CASE f.kind \notin Slices \cup Nullable \cup {"bytes"}
  <2>1. r = r0
    BY <1>1, <1>4 DEF ReadField, Kinds, Slices, Nullable, Numbered
  <2>2. Now(f, v, old) = Same(f, v)
    BY <1>4 DEF Now, Assigns
  <2> HIDE DEF w, r, r0
  <2>3. QED BY <1>3, <2>1, <2>2 DEF BackOver, w, r
<1>5. CASE f.kind \in Slices \cup Nullable
  <2>1. Over(r, r0, old)
    <3>1. Zero(f) = << >>
      BY <1>5 DEF Zero, Slices, Nullable
    <3>2. CASE f.kind \in Slices
      <4>1. r = ReadSlice(f, s, p, old) /\ r0 = ReadSlice(f, s, p, << >>)
        BY <3>1, <3>2 DEF ReadField, Slices, Nullable
      <4>2. QED BY <3>2, <4>1, SliceOver
    <3>3. CASE f.kind \in Nullable
      <4>1. r = ReadPointer(f.kind, s, p, old) /\ r0 = ReadPointer(f.kind, s, p, << >>)
        BY <3>1, <3>3 DEF ReadField, Nullable, Slices
      <4>2. QED BY <4>1, PointerOver
    <3>4. QED BY <1>5, <3>2, <3>3
  <2>2. Same(f, v) = v
    BY <1>5 DEF Same, Slices, Nullable
  <2>3. Now(f, v, old) = IF v # << >> THEN v ELSE old
    <3>1. Assigns(f, v) <=> v # << >>
      BY <1>5 DEF Assigns
    <3>2. QED BY <2>2, <3>1 DEF Now
  <2> HIDE DEF w, r, r0
  <2>4. ASSUME r0.ok, r0.n = Len(w.bytes), r0.v = v PROVE r.n = Len(w.bytes) /\ r.v = Now(f, v, old)
    BY <2>1, <2>3, <2>4 DEF Over
  <2>5. r.ok <=> r0.ok
    BY <2>1 DEF Over
  <2>6. Holds(s, p, w.bytes) /\ r.ok /\ (w.ok \/ p + Len(w.bytes) = Len(s)) =>
          w.ok /\ Readable(f, v) /\ r.n = Len(w.bytes) /\ r.v = Now(f, v, old)
    BY <1>3, <2>2, <2>4, <2>5
  <2>7. Holds(s, p, w.bytes) /\ w.ok /\ Readable(f, v) => r.ok
    BY <1>3, <2>5
  <2>8. QED BY <2>6, <2>7 DEF BackOver, w, r
<1>6. CASE f.kind = "bytes"
  <2>1. v \in Seq(Byte)
    BY <1>6 DEF IsValue
  <2>2. w = WriteBytes(v) /\ r = ReadBytes(s, p, old)
    BY <1>6 DEF WriteField, ReadField, Slices, Nullable
  <2>3. Comes(w, TRUE, s, p, r, v)
    BY <1>6, <2>1, <2>2, BytesOverComes
  <2>4. Now(f, v, old) = v /\ Readable(f, v)
    BY <1>6 DEF Now, Assigns, Same, Readable, Slices, Nullable
  <2> HIDE DEF w, r, r0
  <2>5. Holds(s, p, w.bytes) /\ w.ok => r.ok /\ r.n = Len(w.bytes) /\ r.v = v
    BY <2>3 DEF Comes, Good
  <2>6. Holds(s, p, w.bytes) /\ ~w.ok /\ p + Len(w.bytes) = Len(s) => ~r.ok
    BY <2>3 DEF Comes
  <2>7. QED BY <2>4, <2>5, <2>6 DEF BackOver, w, r
<1>7. QED BY <1>4, <1>5, <1>6

-----------------------------------------------------------------------------

\* What a link's tag announces is a byte string that is a CID, or none that ends
\* in the stream.
LEMMA LinkHeadIs ==
  ASSUME NEW s \in Seq(Byte), NEW q \in 0 .. Len(s)
  PROVE  LET hd   == CborReadHeaderBuf(s, q)
             from == q + hd.n
             to   == from + hd.extra
             link == SubSeq(s, from + 1, to)
         IN
         /\ from \in q .. Len(s)
         /\ \/ /\ hd.ok /\ hd.maj = MajByteString /\ hd.extra \in 1 .. MaxLink
               /\ hd.extra \in Nat /\ from > q /\ from \in Nat /\ to \in from .. Len(s)
               /\ IsCid(Tail(link))
               /\ LinkHead(s, q) = GoodHead(to, 0, << link >>)
               /\ link \in Seq(Byte)
            \/ \E e \in q .. Len(s) : (LinkHead(s, q) = BadHead(e) \/ LinkHead(s, q) = PanicHead(e))
<1> DEFINE hd == CborReadHeaderBuf(s, q)
           from == q + hd.n
           to == from + hd.extra
           link == SubSeq(s, from + 1, to)
           accepted == hd.maj = MajByteString /\ hd.extra \in 1 .. MaxLink
<1>1. Len(s) \in Nat /\ q \in Nat /\ from \in q .. Len(s) /\ (hd.ok => from > q /\ hd.extra \in Nat)
  BY HeaderHere, LenProperties
<1>2. from \in Nat /\ Len(s) \in q .. Len(s)
  <2> HIDE DEF from
  <2>1. QED BY <1>1
<1>3. CASE ~(hd.ok /\ accepted)
  <2>1. LinkHead(s, q) = BadHead(from) \/ LinkHead(s, q) = PanicHead(from)
    <3> HIDE DEF from
    <3>1. QED BY <1>3 DEF LinkHead, from
  <2>2. QED BY <1>1, <2>1
<1>4. CASE hd.ok /\ accepted /\ to > Len(s)
  <2>1. LinkHead(s, q) = BadHead(Len(s))
    BY <1>4 DEF LinkHead
  <2>2. QED BY <1>1, <1>2, <2>1
<1>5. CASE hd.ok /\ accepted /\ ~(to > Len(s))
  <2>1. LinkHead(s, q) = IF IsCid(Tail(link)) THEN GoodHead(to, 0, << link >>) ELSE BadHead(to)
    BY <1>5 DEF LinkHead
  <2>2. to \in from .. Len(s) /\ to \in q .. Len(s) /\ to \in Nat /\ from <= to /\ to <= Len(s)
    <3>1. PICK a \in Nat, b \in Nat : a = from /\ b = hd.extra
      BY <1>1, <1>2, <1>5
    <3>2. a + b \in a .. Len(s) /\ a + b \in q .. Len(s) /\ a + b \in Nat /\ a <= a + b /\ a + b <= Len(s)
      BY <1>1, <1>5, <3>1
    <3>3. QED BY <3>1, <3>2
  <2>3. link \in Seq(Byte)
    BY <1>2, <2>2, SliceType
  <2>4. QED BY <1>1, <1>2, <1>5, <2>1, <2>2, <2>3
<1>6. QED BY <1>3, <1>4, <1>5

LEMMA LinkedHeadsType ==
  ASSUME NEW s \in Seq(Byte)
  PROVE  IsHeads(Seq(Byte), Len(s), LinkedHeads(s))
<1>1. DOMAIN LinkedHeads(s) = 0 .. Len(s)
  BY DEF LinkedHeads
<1>2. ASSUME NEW p \in 0 .. Len(s) PROVE IsHead(Seq(Byte), p, Len(s), LinkedHeads(s)[p])
  <2> DEFINE hd == CborReadHeaderBuf(s, p)
  <2>1. LinkedHeads(s)[p] = LinkedHead(s, p)
    BY DEF LinkedHeads
  <2>2. ASSUME hd.ok PROVE IsHead(Seq(Byte), p, Len(s), LinkHead(s, p + hd.n))
    <3>1. PICK q \in 0 .. Len(s) : q = p + hd.n /\ q > p
      <4>1. p + hd.n \in p .. Len(s) /\ p + hd.n > p /\ p \in Nat /\ Len(s) \in Nat
        BY <2>2, HeaderHere, LenProperties
      <4>2. PICK q \in p .. Len(s) : q = p + hd.n
        BY <4>1
      <4>3. q \in 0 .. Len(s) /\ q > p
        BY <4>1, <4>2
      <4>4. QED BY <4>2, <4>3
    <3> DEFINE here == CborReadHeaderBuf(s, q)
               from == q + here.n
               to == from + here.extra
               link == SubSeq(s, from + 1, to)
    <3>2. from \in q .. Len(s) /\ Len(s) \in Nat
      BY LinkHeadIs, LenProperties
    <3>3. CASE \E e \in q .. Len(s) : (LinkHead(s, q) = BadHead(e) \/ LinkHead(s, q) = PanicHead(e))
      <4>1. PICK e \in q .. Len(s) : (LinkHead(s, q) = BadHead(e) \/ LinkHead(s, q) = PanicHead(e))
        BY <3>3
      <4>2. e \in p .. Len(s)
        BY <3>1, <3>2
      <4>3. IsHead(Seq(Byte), p, Len(s), BadHead(e))
        BY <4>2, EmptySeq DEF IsHead, BadHead
      <4>4. IsHead(Seq(Byte), p, Len(s), PanicHead(e))
        <5>1. << << >> >> \in Seq(Seq(Byte))
          OBVIOUS
        <5>2. QED BY <4>2, <5>1 DEF IsHead, PanicHead
      <4> HIDE DEF hd
      <4>5. QED BY <3>1, <4>1, <4>3, <4>4
    <3>4. CASE ~(\E e \in q .. Len(s) : (LinkHead(s, q) = BadHead(e) \/ LinkHead(s, q) = PanicHead(e)))
      <4>1. /\ from > q /\ from \in Nat /\ to \in from .. Len(s)
            /\ LinkHead(s, q) = GoodHead(to, 0, << link >>) /\ link \in Seq(Byte)
        BY <3>4, LinkHeadIs
      <4> HIDE DEF from, link
      <4>2. PICK e \in from .. Len(s) : e = to
        BY <4>1
      <4>3. e \in p .. Len(s) /\ e > p
        BY <3>1, <3>2, <4>1
      <4>4. << link >> \in Seq(Seq(Byte))
        BY <4>1
      <4> HIDE DEF to
      <4>5. IsHead(Seq(Byte), p, Len(s), GoodHead(e, 0, << link >>))
        BY <4>3, <4>4 DEF IsHead, GoodHead
      <4> HIDE DEF hd
      <4>6. QED BY <3>1, <4>1, <4>2, <4>5
    <3>5. QED BY <3>3, <3>4
  <2>3. IsHead(Seq(Byte), p, Len(s), ItemHead(s, p))
    BY ItemHeadType
  <2>4. QED BY <2>1, <2>2, <2>3 DEF LinkedHead
<1>3. QED BY <1>1, <1>2 DEF IsHeads

\* A head that is good, of an item or of a link, is as good wherever its bytes are.
LEMMA ItemHeadLocal ==
  ASSUME NEW s \in Seq(Byte), NEW p \in 0 .. Len(s), NEW z \in Seq(Byte), NEW q \in 0 .. Len(z), NEW m \in Nat,
         Agree(s, p, z, q, m), ItemHead(s, p).ok, ItemHead(s, p).end - p <= m
  PROVE  /\ CborReadHeaderBuf(z, q) = CborReadHeaderBuf(s, p)
         /\ ItemHead(z, q) = GoodHead(q + (ItemHead(s, p).end - p), ItemHead(s, p).nested, << >>)
<1> DEFINE hd == CborReadHeaderBuf(s, p)
           asked == Payload(hd.maj, hd.extra)
           k == hd.n + asked
<1>0. p \in Nat /\ q \in Nat /\ Len(z) \in Nat /\ Len(s) \in Nat
  BY LenProperties
<1>1. hd.ok /\ ItemHead(s, p) = GoodHead((p + hd.n) + asked, Nested(hd.maj, hd.extra), << >>)
  BY ItemHeadIs DEF BadHead
<1>2. hd.n \in Nat /\ hd.extra \in Nat
  <2>1. hd.n \in Nat /\ hd.extra \in Arguments
    BY <1>0, <1>1, HeaderRead
  <2>2. QED BY <2>1, CodecSizes
<1>3. asked \in Nat
  BY <1>2 DEF Payload
<1>4. ItemHead(s, p).end = (p + hd.n) + asked /\ ItemHead(s, p).nested = Nested(hd.maj, hd.extra)
  BY <1>1 DEF GoodHead
<1>5. k \in Nat /\ ItemHead(s, p).end - p = k /\ k <= m /\ hd.n <= m
  <2> HIDE DEF hd, asked
  <2>1. QED BY <1>0, <1>2, <1>3, <1>4
<1>6. CborReadHeaderBuf(z, q) = hd
  BY <1>0, <1>1, <1>5, HeaderAgrees
<1>7. (q + hd.n) + asked = q + k /\ (q + hd.n) + asked <= Len(z)
  <2>1. PICK a \in Nat, b \in Nat : a = hd.n /\ b = asked
    BY <1>2, <1>3
  <2>2. a + b <= m /\ q + m <= Len(z)
    BY <1>5, <2>1 DEF Agree
  <2>3. (q + a) + b = q + (a + b) /\ (q + a) + b <= Len(z)
    BY <1>0, <2>2
  <2>4. QED BY <2>1, <2>3
<1>8. ItemHead(z, q) = GoodHead((q + hd.n) + asked, Nested(hd.maj, hd.extra), << >>)
  BY <1>1, <1>6, <1>7, ItemHeadIs
<1> HIDE DEF hd, asked, k
<1>9. QED BY <1>4, <1>5, <1>6, <1>7, <1>8 DEF hd

HeadMoved(head, p, same, q) == same.ok /\ same.end = q + (head.end - p) /\ same.nested = head.nested

LEMMA LinkedHeadLocal ==
  ASSUME NEW s \in Seq(Byte), NEW p \in 0 .. Len(s), NEW z \in Seq(Byte), NEW q \in 0 .. Len(z), NEW m \in Nat,
         Agree(s, p, z, q, m), LinkedHead(s, p).ok, LinkedHead(s, p).end - p <= m
  PROVE  HeadMoved(LinkedHead(s, p), p, LinkedHead(z, q), q)
<1> DEFINE hd == CborReadHeaderBuf(s, p)
           tagged == hd.ok /\ hd.maj = MajTag /\ hd.extra = LinkTag
<1>0. p \in Nat /\ q \in Nat /\ Len(z) \in Nat /\ Len(s) \in Nat
  BY LenProperties
<1>1. CASE ~tagged
  <2>1. LinkedHead(s, p) = ItemHead(s, p)
    BY <1>1 DEF LinkedHead
  <2>2. /\ CborReadHeaderBuf(z, q) = hd
        /\ ItemHead(z, q) = GoodHead(q + (ItemHead(s, p).end - p), ItemHead(s, p).nested, << >>)
    BY <2>1, ItemHeadLocal
  <2>3. LinkedHead(z, q) = ItemHead(z, q)
    BY <1>1, <2>2 DEF LinkedHead
  <2>4. QED BY <2>1, <2>2, <2>3 DEF GoodHead, HeadMoved
<1>2. CASE tagged
  <2>1. LinkedHead(s, p) = LinkHead(s, p + hd.n)
    BY <1>2 DEF LinkedHead
  <2>2. PICK n \in Nat \ {0} : n = hd.n /\ p + n <= Len(s)
    BY <1>0, <1>2, HeaderRead
  <2>3. p + n \in 0 .. Len(s) /\ p + n \in Nat
    BY <1>0, <2>2
  <2> DEFINE here == CborReadHeaderBuf(s, p + n)
             from == (p + n) + here.n
             to == from + here.extra
             link == SubSeq(s, from + 1, to)
  <2>4. /\ here.ok /\ here.maj = MajByteString /\ here.extra \in 1 .. MaxLink
        /\ here.extra \in Nat /\ from > p + n /\ from \in Nat /\ to \in from .. Len(s)
        /\ IsCid(Tail(link))
        /\ LinkedHead(s, p) = GoodHead(to, 0, << link >>)
    <3>1. LinkHead(s, p + n).ok /\ LinkedHead(s, p) = LinkHead(s, p + n)
      BY <2>1, <2>2
    <3>2. ASSUME NEW e, LinkHead(s, p + n) = BadHead(e) \/ LinkHead(s, p + n) = PanicHead(e) PROVE FALSE
      BY <3>1, <3>2 DEF BadHead, PanicHead
    <3>3. /\ here.ok /\ here.maj = MajByteString /\ here.extra \in 1 .. MaxLink
          /\ here.extra \in Nat /\ from > p + n /\ from \in Nat /\ to \in from .. Len(s)
          /\ IsCid(Tail(link))
          /\ LinkHead(s, p + n) = GoodHead(to, 0, << link >>)
      BY <2>3, <3>2, LinkHeadIs
    <3>4. QED BY <3>1, <3>3
  <2>5. here.n \in Nat
    BY <2>3, <2>4, HeaderRead
  <2>6. LinkedHead(s, p).end = to /\ LinkedHead(s, p).nested = 0
    BY <2>4 DEF GoodHead
  <2>7. PICK a \in Nat, b \in Nat : a = here.n /\ b = here.extra
    BY <2>4, <2>5
  <2>8. from = (p + n) + a /\ to = ((p + n) + a) + b
    BY <2>7
  <2>9. (n + a) + b <= m /\ to - p = (n + a) + b /\ n <= m /\ a <= m - n /\ n + a \in 0 .. m
        /\ m - n \in Nat /\ b \in 0 .. (m - (n + a)) /\ m - (n + a) \in Nat
    <3> HIDE DEF to, from
    <3>1. QED BY <1>0, <2>6, <2>8
  <2>10. CborReadHeaderBuf(z, q) = hd
    <3>1. hd.ok /\ hd.n <= m
      BY <1>2, <2>2, <2>9
    <3>2. QED BY <1>0, <3>1, HeaderAgrees
  <2>11. Agree(s, p + n, z, q + n, m - n)
    <3>1. n \in 0 .. m
      BY <2>9
    <3>2. QED BY <1>0, <3>1, AgreeLater, Zenon
  <2>12. CborReadHeaderBuf(z, q + n) = here
    <3>1. q + n \in Nat
      BY <1>0
    <3>2. here.n <= m - n /\ m - n \in Nat
      BY <2>7, <2>9
    <3>3. PICK o \in Nat, x \in Nat, l \in Nat : o = p + n /\ x = q + n /\ l = m - n
      BY <2>3, <3>1, <3>2
    <3>4. CborReadHeaderBuf(s, o).ok /\ CborReadHeaderBuf(s, o).n <= l /\ Agree(s, o, z, x, l)
      BY <2>4, <2>11, <3>2, <3>3
    <3>5. CborReadHeaderBuf(z, x) = CborReadHeaderBuf(s, o)
      BY <3>4, HeaderAgrees
    <3>6. QED BY <3>3, <3>5
  <2>13. Agree(s, p + (n + a), z, q + (n + a), m - (n + a))
    BY <1>0, <2>9, AgreeLater, Zenon
  <2>14. SameSlice(s, p + (n + a), z, q + (n + a), b)
    <3>1. p + (n + a) \in Nat /\ q + (n + a) \in Nat
      BY <1>0
    <3>2. QED BY <2>9, <2>13, <3>1, AgreeSlice, Zenon
  <2>15. SubSeq(z, ((q + n) + a) + 1, ((q + n) + a) + b) = SubSeq(s, ((p + n) + a) + 1, ((p + n) + a) + b)
    <3>1. p + (n + a) = (p + n) + a /\ q + (n + a) = (q + n) + a
      BY <1>0
    <3>2. QED BY <2>14, <3>1 DEF SameSlice
  <2>16. ((q + n) + a) + b = q + (to - p) /\ ~(((q + n) + a) + b > Len(z))
    <3>1. q + m <= Len(z)
      BY DEF Agree
    <3> HIDE DEF to, from
    <3>2. QED BY <1>0, <2>9, <3>1
  <2>17. IsCid(Tail(SubSeq(z, ((q + n) + a) + 1, ((q + n) + a) + b)))
    BY <2>4, <2>8, <2>15
  <2>18. LinkHead(z, q + n) = GoodHead(((q + n) + a) + b, 0, << SubSeq(z, ((q + n) + a) + 1, ((q + n) + a) + b) >>)
    <3>1. CborReadHeaderBuf(z, q + n).ok /\ CborReadHeaderBuf(z, q + n).maj = MajByteString
          /\ CborReadHeaderBuf(z, q + n).extra \in 1 .. MaxLink
          /\ CborReadHeaderBuf(z, q + n).n = a /\ CborReadHeaderBuf(z, q + n).extra = b
      BY <2>4, <2>7, <2>12
    <3>2. CborReadHeaderBuf(z, q + n).extra \in 0 .. MaxLink /\ CborReadHeaderBuf(z, q + n).extra # 0
      BY <3>1
    <3>3. QED BY <2>16, <2>17, <3>1, <3>2 DEF LinkHead
  <2>19. LinkedHead(z, q) = LinkHead(z, q + n)
    BY <1>2, <2>2, <2>10 DEF LinkedHead
  <2> HIDE DEF to, from
  <2>20. QED BY <2>6, <2>16, <2>18, <2>19 DEF GoodHead, HeadMoved
<1>3. QED BY <1>1, <1>2

\* Items, with the links in them, are where their bytes are.
LinkedLocalFrom(s, z, p) ==
  \A k \in Nat : \A q \in 0 .. Len(z) : \A m \in Nat :
    LET item == ItemsIn(LinkedHeads(s))[p][k]
        same == ItemsIn(LinkedHeads(z))[q][k]
    IN  item.ok /\ Agree(s, p, z, q, m) /\ item.end - p <= m =>
          item.end \in p .. Len(s) /\ same.ok /\ same.end = q + (item.end - p)

LEMMA FurtherOn ==
  \A a, b, c, l \in Nat : a + 1 <= b /\ b <= c /\ c - a <= l =>
    /\ b - a \in 0 .. l /\ a + (b - a) = b /\ l - (b - a) \in Nat
    /\ c - b <= l - (b - a) /\ b - a <= l
OBVIOUS

LEMMA LinkedLocalStep ==
  ASSUME NEW s \in Seq(Byte), NEW z \in Seq(Byte), NEW p \in 0 .. Len(s),
         \A e \in (p + 1) .. Len(s) : LinkedLocalFrom(s, z, e)
  PROVE  LinkedLocalFrom(s, z, p)
<1> DEFINE hs == LinkedHeads(s)
           hz == LinkedHeads(z)
           F == ItemsIn(hs)
           G == ItemsIn(hz)
<1> SUFFICES ASSUME NEW k \in Nat, NEW q \in 0 .. Len(z), NEW m \in Nat,
                    F[p][k].ok, Agree(s, p, z, q, m), F[p][k].end - p <= m
             PROVE  F[p][k].end \in p .. Len(s) /\ G[q][k].ok /\ G[q][k].end = q + (F[p][k].end - p)
  BY DEF LinkedLocalFrom
<1>0. Len(s) \in Nat /\ Len(z) \in Nat /\ p \in Nat /\ q \in Nat
  BY LenProperties
<1>1. Counts(F, hs, Len(s)) /\ Counts(G, hz, Len(z))
  BY <1>0, LinkedHeadsType, CountsAsNested
<1>2. \A e \in 0 .. Len(s) : \A j \in Nat : F[e][j] \in Yields(Seq(Byte), e, Len(s))
  BY <1>0, LinkedHeadsType, Recursion DEF Solves
<1>3. hs[p] = LinkedHead(s, p) /\ hz[q] = LinkedHead(z, q)
  BY DEF LinkedHeads
<1>4. IsHead(Seq(Byte), p, Len(s), LinkedHead(s, p))
  BY <1>3, LinkedHeadsType DEF IsHeads
<1>5. CASE k = 0
  <2>1. F[p][0] = Ends(p, << >>) /\ G[q][0] = Ends(q, << >>)
    BY <1>1 DEF Counts
  <2>2. q + (p - p) = q /\ p \in p .. Len(s)
    BY <1>0
  <2>3. QED BY <1>5, <2>1, <2>2 DEF Ends
<1>6. CASE k # 0
  <2> DEFINE head == LinkedHead(s, p)
  <2>1. k \in Nat \ {0} /\ k - 1 \in Nat
    BY <1>6
  <2>2. head.ok
    <3>1. ~head.ok => F[p][k] = Stops(head.end, head.links)
      BY <1>1, <1>3, <2>1 DEF Counts
    <3>2. QED BY <3>1 DEF Stops
  <2>3. F[p][k] = Behind(head.links, F[head.end][head.nested + (k - 1)])
    BY <1>1, <1>3, <2>1, <2>2 DEF Counts
  <2>4. PICK e \in (p + 1) .. Len(s) : e = head.end
    BY <1>0, <1>4, <2>2 DEF IsHead
  <2>5. PICK j \in Nat : j = head.nested + (k - 1)
    BY <1>4, <2>1, <2>2 DEF IsHead
  <2>6. F[e][j].ok /\ F[p][k].end = F[e][j].end
    BY <2>3, <2>4, <2>5 DEF Behind
  <2>7. PICK x \in e .. Len(s) : x = F[e][j].end
    <3>1. e \in 0 .. Len(s)
      BY <1>0
    <3>2. F[e][j] \in Yields(Seq(Byte), e, Len(s))
      BY <1>2, <3>1, Zenon
    <3>3. F[e][j].end \in e .. Len(s)
      BY <3>2 DEF Yields
    <3>4. QED BY <3>3, Zenon
  <2>8. x - p <= m /\ x = F[p][k].end
    BY <2>6, <2>7
  <2> DEFINE d == e - p
  <2>9. d \in 0 .. m /\ p + d = e /\ m - d \in Nat /\ x - e <= m - d /\ d <= m
    <3>1. \A a, b, c \in Nat : a + 1 <= b /\ b <= c /\ c - a <= m =>
            /\ b - a \in 0 .. m /\ a + (b - a) = b /\ m - (b - a) \in Nat
            /\ c - b <= m - (b - a) /\ b - a <= m
      BY FurtherOn, Zenon
    <3>2. p \in Nat /\ e \in Nat /\ x \in Nat /\ p + 1 <= e /\ e <= x
      BY <1>0
    <3>3. QED BY <2>8, <3>1, <3>2, Zenon
  <2>10. LinkedHead(z, q).ok /\ LinkedHead(z, q).end = q + d /\ LinkedHead(z, q).nested = head.nested
    <3>1. LinkedHead(s, p).ok /\ LinkedHead(s, p).end - p <= m
      BY <2>2, <2>4, <2>9
    <3>2. HeadMoved(LinkedHead(s, p), p, LinkedHead(z, q), q)
      BY <3>1, LinkedHeadLocal, Zenon
    <3>3. QED BY <2>4, <3>2 DEF HeadMoved
  <2>11. Agree(s, e, z, q + d, m - d)
    <3>1. PICK c \in 0 .. m : c = d
      BY <2>9
    <3>2. Agree(s, p + c, z, q + c, m - c)
      BY <1>0, AgreeLater, Zenon
    <3>3. QED BY <2>9, <3>1, <3>2
  <2>12. q + d \in 0 .. Len(z)
    <3>1. PICK c \in 0 .. m : c = d
      BY <2>9
    <3>2. q + m <= Len(z)
      BY DEF Agree
    <3>3. q + c \in 0 .. Len(z)
      BY <1>0, <3>1, <3>2
    <3>4. QED BY <3>1, <3>3
  <2>13. G[q + d][j].ok /\ G[q + d][j].end = (q + d) + (x - e)
    <3>1. LinkedLocalFrom(s, z, e)
      OBVIOUS
    <3>2. QED BY <2>6, <2>7, <2>9, <2>11, <2>12, <3>1 DEF LinkedLocalFrom
  <2>14. (q + d) + (x - e) = q + (x - p)
    <3>1. \A a, b, c, l \in Nat : (l + (b - a)) + (c - b) = l + (c - a)
      OBVIOUS
    <3>2. p \in Nat /\ e \in Nat /\ x \in Nat /\ q \in Nat
      BY <1>0, <2>4, <2>7
    <3> HIDE DEF d
    <3>3. PICK a \in Nat, b \in Nat, c \in Nat, l \in Nat : a = p /\ b = e /\ c = x /\ l = q
      BY <3>2
    <3>4. (l + (b - a)) + (c - b) = l + (c - a)
      BY <3>1
    <3>5. QED BY <3>3, <3>4 DEF d
  <2>15. G[q][k] = Behind(hz[q].links, G[q + d][j])
    <3>1. hz[q].ok /\ hz[q].end = q + d /\ hz[q].nested = head.nested
      BY <1>3, <2>10
    <3>2. G[q][k] = Behind(hz[q].links, G[hz[q].end][hz[q].nested + (k - 1)])
      BY <1>1, <2>1, <3>1 DEF Counts
    <3>3. QED BY <2>5, <3>1, <3>2
  <2>16. G[q][k].ok /\ G[q][k].end = q + (x - p)
    BY <2>13, <2>14, <2>15 DEF Behind
  <2>17. x \in p .. Len(s)
    BY <1>0, <2>4, <2>7
  <2>18. QED BY <2>8, <2>16, <2>17
<1>7. QED BY <1>5, <1>6

LEMMA LinkedLocal ==
  ASSUME NEW s \in Seq(Byte), NEW z \in Seq(Byte)
  PROVE  \A p \in 0 .. Len(s) : LinkedLocalFrom(s, z, p)
<1> DEFINE n == Len(s)
           S == { a \in 0 .. (n + 1) : \A p \in a .. n : LinkedLocalFrom(s, z, p) }
<1>0. n \in Nat
  BY LenProperties
<1>1. n + 1 \in S
  BY <1>0
<1>2. ASSUME NEW a \in 0 .. n, a + 1 \in S PROVE a \in S
  <2>1. \A e \in (a + 1) .. n : LinkedLocalFrom(s, z, e)
    BY <1>2
  <2>2. LinkedLocalFrom(s, z, a)
    BY <2>1, LinkedLocalStep
  <2>3. \A p \in a .. n : p = a \/ p \in (a + 1) .. n
    OBVIOUS
  <2>4. QED BY <1>0, <2>1, <2>2, <2>3
<1>3. 0 \in S
  <2>1. S \in SUBSET (0 .. (n + 1))
    OBVIOUS
  <2> HIDE DEF S, n
  <2>2. S = 0 .. (n + 1)
    BY <1>0, <1>1, <1>2, <2>1, Downward
  <2>3. QED BY <1>0, <2>2
<1>4. QED BY <1>3

\* What is one item on its own, with valid links in it, is one where its bytes are
\* held, and whatever follows them.
LEMMA LinkedItemHeld ==
  ASSUME NEW b \in Seq(Byte), IsLinkedItem(b), NEW s \in Seq(Byte), NEW p \in Nat, Holds(s, p, b)
  PROVE  LinkedItemAt(s, p).ok /\ LinkedItemAt(s, p).end = p + Len(b)
<1>1. PICK n \in Nat : n = Len(b)
  BY LenProperties
<1>2. p \in 0 .. Len(s) /\ 0 \in 0 .. Len(b) /\ Len(s) \in Nat
  BY <1>1, LenProperties DEF Holds
<1>3. Agree(b, 0, s, p, n)
  BY <1>1 DEF Agree, Holds
<1>4. LinkedLocalFrom(b, s, 0)
  BY <1>2, LinkedLocal
<1>5. n - 0 = n /\ n - 0 <= n
  BY <1>1
<1> DEFINE item == ItemsIn(LinkedHeads(b))[0][1]
           same == ItemsIn(LinkedHeads(s))[p][1]
<1>6. item.ok /\ item.end = n
  BY <1>1 DEF IsLinkedItem, LinkedItemAt
<1>7. item.ok /\ Agree(b, 0, s, p, n) /\ item.end - 0 <= n => same.ok /\ same.end = p + (item.end - 0)
  BY <1>1, <1>2, <1>4 DEF LinkedLocalFrom
<1>8. QED BY <1>1, <1>3, <1>5, <1>6, <1>7 DEF LinkedItemAt

-----------------------------------------------------------------------------

\* An entry that is held: the name read is its key, and behind that is its value,
\* unless nothing of the value was written.
EntryRead(f, v, s, p) ==
  LET x  == Entry(f, v)
      w  == WriteField(f, v)
      nm == ReadString(s, p)
      n  == Len(WriteString(f.key).bytes)
  IN  Holds(s, p, x.bytes) /\ (x.ok \/ p + Len(x.bytes) = Len(s)) =>
        /\ x.ok => nm.ok
        /\ nm.ok => /\ n \in Nat /\ nm = Good(f.key, n)
                    /\ Holds(s, p + n, w.bytes)
                    /\ p + Len(x.bytes) = (p + n) + Len(w.bytes)
                    /\ w.ok = x.ok
                    /\ w.ok \/ (p + n) + Len(w.bytes) = Len(s)

LEMMA EntryBack ==
  ASSUME NEW f, IsMapField(f), NEW v, IsValue(f, v), NEW s \in Seq(Byte), NEW p \in Nat
  PROVE  EntryRead(f, v, s, p)
<1> DEFINE x  == Entry(f, v)
           w  == WriteField(f, v)
           kw == WriteString(f.key)
           nm == ReadString(s, p)
           n  == Len(kw.bytes)
<1> SUFFICES ASSUME Holds(s, p, x.bytes), x.ok \/ p + Len(x.bytes) = Len(s)
             PROVE  /\ x.ok => nm.ok
                    /\ nm.ok => /\ n \in Nat /\ nm = Good(f.key, n)
                                /\ Holds(s, p + n, w.bytes)
                                /\ p + Len(x.bytes) = (p + n) + Len(w.bytes)
                                /\ w.ok = x.ok
                                /\ w.ok \/ (p + n) + Len(w.bytes) = Len(s)
  BY DEF EntryRead
<1>1. f.key \in Seq(Byte)
  BY MapFieldKey
<1>2. Comes(kw, TRUE, s, p, nm, f.key)
  BY <1>1, StringComes
<1>3. /\ x.bytes \in Seq(Byte) /\ x.ok \in BOOLEAN
      /\ x.ok <=> kw.ok /\ w.ok
      /\ kw.ok => x.bytes = kw.bytes \o w.bytes
      /\ ~kw.ok => x.bytes = kw.bytes
  BY EntryType
<1>4. w.bytes \in Seq(Byte) /\ w.ok \in BOOLEAN
  BY ValueType
<1> HIDE DEF x, w, kw, nm
<1>5. kw.bytes \in Seq(Byte) /\ kw.ok \in BOOLEAN
  BY <1>2 DEF Comes
<1>6. n \in Nat /\ Len(w.bytes) \in Nat /\ Len(s) \in Nat
  BY <1>4, <1>5, LenProperties
<1>7. CASE ~kw.ok
  <2>1. ~nm.ok
    BY <1>2, <1>3, <1>7 DEF Comes
  <2>2. QED BY <1>3, <1>7, <2>1
<1>8. CASE kw.ok
  <2>1. x.bytes = kw.bytes \o w.bytes
    BY <1>3, <1>8
  <2>2. Holds(s, p, kw.bytes) /\ Holds(s, p + n, w.bytes)
    <3>1. Holds(s, p, kw.bytes \o w.bytes)
      BY <2>1
    <3>2. QED BY <1>4, <1>5, <3>1, ConcatHeld
  <2>3. nm = Good(f.key, n)
    BY <1>2, <1>8, <2>2 DEF Comes
  <2>4. Len(x.bytes) = n + Len(w.bytes)
    BY <1>4, <1>5, <2>1, ConcatProperties
  <2>5. p + Len(x.bytes) = (p + n) + Len(w.bytes)
    <3>1. PICK a \in Nat, b \in Nat : a = n /\ b = Len(w.bytes)
      BY <1>6
    <3>2. p + (a + b) = (p + a) + b
      OBVIOUS
    <3>3. QED BY <2>4, <3>1, <3>2
  <2>6. nm.ok /\ w.ok = x.ok
    BY <1>3, <1>4, <1>8, <2>3 DEF Good
  <2>7. QED BY <1>6, <2>2, <2>3, <2>5, <2>6
<1>9. QED BY <1>7, <1>8

-----------------------------------------------------------------------------

\* What is under way: the entries that have arrived or, of what was refused, those
\* that were begun; and how many the header announces.
Carried ==
  IF MapRefusal THEN [j \in 1 .. Len(t) |-> [f |-> sent[j], v |-> t[j]]] ELSE entries
Announced == IF MapRefusal THEN Len(sent) ELSE Len(entries)
Es == [k \in 1 .. Len(Carried) |-> Entry(Carried[k].f, Carried[k].v)]
Coming == All(MapHead(Announced), Es)

\* Whether all of it is there, whether the receiver has a field for the k-th entry,
\* and what it makes of it otherwise.
Whole == Begins(input, Coming.bytes)
IsFor(f, k) == Carried[k].f.key = f.key
IsKnown(k) == \E j \in 1 .. Len(into) : IsFor(into[j], k)
Scannable(k) == IsLinkedItem(WriteField(Carried[k].f, Carried[k].v).bytes)

\* No empty byte string comes after one for the same field that is not.
NoneShrinks ==
  \A c, k \in 1 .. Len(Carried) : \A j \in 1 .. Len(into) :
    c < k /\ IsFor(into[j], c) /\ IsFor(into[j], k) /\ into[j].kind = "bytes" /\ Carried[k].v = << >>
      => Carried[c].v = << >>

\* Then the receiver cannot go astray if it knows all fields, nor in a whole message
\* whose others are items with valid links.
Clear ==
  /\ NoneShrinks
  /\ \/ \A k \in 1 .. Len(Carried) : IsKnown(k)
     \/ Whole /\ Coming.ok /\ \A k \in 1 .. Len(Carried) : IsKnown(k) \/ Scannable(k)

\* Whether the k-th entry is for field f and says something; and that the latest such
\* one of the first d has been read into u[j], or none.
SetsField(f, k) == IsFor(f, k) /\ Assigns(f, Carried[k].v)
HasLatest(j, d, k) ==
  /\ k = 0 => u[j] = Zero(into[j])
  /\ k # 0 => SetsField(into[j], k) /\ u[j] = Same(into[j], Carried[k].v)
  /\ \A l \in (k + 1) .. d : ~SetsField(into[j], l)

IsReadable(k) == IsKnown(k) => Readable(Carried[k].f, Carried[k].v)

\* After the first d entries.
ReadTo(d) ==
  /\ \A k \in 1 .. d : Es[k].ok /\ IsReadable(k)
  /\ \A j \in 1 .. Len(into) : \E k \in 0 .. d : HasLatest(j, d, k)

\* The message is laid out as e entries, of which the last may be cut short.
LaidOut(e, at) ==
  e \in 0 .. Len(Carried) /\ ChainTo(Coming, MapHead(Announced), Es, Len(Carried), e, at)

MapProgress ==
  /\ left \in 0 .. Announced /\ Len(u) = Len(into) /\ u = [j \in 1 .. Len(into) |-> u[j]]
  /\ bytesRead = pos /\ pos \in 0 .. Len(input)
  /\ \E e, at : /\ LaidOut(e, at) /\ Announced - left <= e
                /\ pos = Len(MapHead(Announced)) + at[Announced - left]
  /\ ReadTo(Announced - left)

MapReads ==
  /\ state = "unmarshal" => left \in Nat
  /\ state = "ok" => left = 0
  /\ state \in {"unmarshal", "ok"} => out # << CborNull >>
  /\ state \in {"unmarshal", "ok"} /\ Clear => MapProgress
  /\ state = "error" /\ out # << CborNull >> /\ Clear /\ Whole /\ Coming.ok /\ Announced <= MaxLength =>
       \E k \in 1 .. Len(Carried) : ~IsReadable(k)
  /\ state = "panic" => ~Clear

\* What has been delivered, when it was not a nil pointer.
Delivered ==
  /\ input \in Seq(Byte)
  /\ Announced \in Arguments /\ Len(Carried) \in 0 .. Announced
  /\ \A k \in 1 .. Len(Carried) : IsMapField(Carried[k].f) /\ IsValue(Carried[k].f, Carried[k].v)
  /\ \A k \in 1 .. Len(Carried), j \in 1 .. Len(into) : IsFor(into[j], k) => Carried[k].f = into[j]
  /\ \A j \in 1 .. Len(into) : IsMapField(into[j])
  /\ \A j, k \in 1 .. Len(into) : into[j].key = into[k].key => j = k
  /\ Len(into) \in Nat
  /\ Coming.ok \in BOOLEAN /\ (Coming.ok => Len(Carried) = Announced) /\ (Coming.ok <=> ~MapRefusal)
  /\ Coming.ok => Whole \/ Begins(Coming.bytes, input)
  /\ ~Coming.ok => input = Coming.bytes

LEMMA EsAre ==
  ASSUME NEW n \in Nat, Len(Carried) = n,
         \A k \in 1 .. n : IsMapField(Carried[k].f) /\ IsValue(Carried[k].f, Carried[k].v)
  PROVE  /\ Len(Es) = n
         /\ \A k \in 1 .. n : /\ Es[k] = Entry(Carried[k].f, Carried[k].v)
                              /\ Es[k].bytes \in Seq(Byte) /\ Es[k].ok \in BOOLEAN
<1>1. Len(Es) = n
  BY DEF Es
<1>2. ASSUME NEW k \in 1 .. n
      PROVE  Es[k] = Entry(Carried[k].f, Carried[k].v) /\ Es[k].bytes \in Seq(Byte) /\ Es[k].ok \in BOOLEAN
  <2>1. Es[k] = Entry(Carried[k].f, Carried[k].v)
    BY DEF Es
  <2>2. QED BY <2>1, EntryType
<1>3. QED BY <1>1, <1>2

LEMMA DeliveredIs ==
  ASSUME MapSends, MapReceives, out # << CborNull >>
  PROVE  Delivered
<1>1. MapTyped /\ MapMarshals /\ (AsWritten \/ WholeArrives)
  BY DEF MapSends, MapSending, MapReceives
<1>2. /\ Len(sent) \in Arguments /\ Len(sent) \in Nat /\ Len(into) \in Nat /\ Len(t) \in 0 .. Len(sent)
      /\ \A j \in 1 .. Len(sent) : IsMapField(sent[j])
      /\ \A j \in 1 .. Len(into) : IsMapField(into[j])
      /\ \A j, k \in 1 .. Len(into) : into[j].key = into[k].key => j = k
      /\ \A j \in 1 .. Len(sent), k \in 1 .. Len(into) : sent[j].key = into[k].key => sent[j] = into[k]
      /\ DOMAIN sent = 1 .. Len(sent)
  <2>1. Len(sent) \in Arguments /\ sent = [j \in 1 .. Len(sent) |-> sent[j]]
    BY <1>1, Zenon DEF MapTyped
  <2>2. Len(sent) \in Nat /\ DOMAIN sent = 1 .. Len(sent)
    BY <2>1, MapHeadIs
  <2>3. /\ Len(into) \in Nat
        /\ \A j \in 1 .. Len(sent) : IsMapField(sent[j])
        /\ \A j \in 1 .. Len(into) : IsMapField(into[j])
        /\ \A j, k \in 1 .. Len(into) : into[j].key = into[k].key => j = k
        /\ \A j \in 1 .. Len(sent), k \in 1 .. Len(into) : sent[j].key = into[k].key => sent[j] = into[k]
    BY <1>1, Zenon DEF MapTyped
  <2>4. Len(t) \in 0 .. Len(sent)
    BY <1>1, Zenon DEF MapMarshals
  <2>5. QED BY <2>1, <2>2, <2>3, <2>4
<1>3. CASE AsWritten
  <2>1. MapSent(FALSE) /\ input = out
    BY <1>3 DEF AsWritten, MapNilSent
  <2>2. MapRefusal /\ out \in Seq(Byte)
    <3>1. FALSE \in BOOLEAN
      OBVIOUS
    <3>2. QED BY <1>1, <2>1, <3>1, SentHolds
  <2>3. Carried = [j \in 1 .. Len(t) |-> [f |-> sent[j], v |-> t[j]]] /\ Announced = Len(sent)
    BY <2>2 DEF Carried, Announced
  <2>4. Len(Carried) = Len(t) /\ \A k \in 1 .. Len(t) : Carried[k].f = sent[k] /\ Carried[k].v = t[k]
    BY <1>2, <2>3
  <2>5. Coming = [ok |-> FALSE, bytes |-> out]
    <3>1. Es = MapWs
      BY <2>4 DEF Es, MapWs
    <3>2. QED BY <2>1, <2>3, <3>1 DEF Coming, MapSent
  <2>6. ~Coming.ok /\ Coming.bytes = out /\ Coming.ok \in BOOLEAN
    BY <2>5
  <2>7. ASSUME NEW k \in 1 .. Len(t) PROVE k \in 1 .. Len(sent) /\ IsMapField(sent[k]) /\ IsValue(sent[k], t[k])
    <3>1. k \in 1 .. Len(sent)
      BY <1>2
    <3>2. QED BY <1>1, <1>2, <3>1 DEF MapMarshals, IsMapField
  <2>8. \A k \in 1 .. Len(Carried), j \in 1 .. Len(into) : IsFor(into[j], k) => Carried[k].f = into[j]
    BY <1>2, <2>4, <2>7 DEF IsFor
  <2>9. \A k \in 1 .. Len(Carried) : IsMapField(Carried[k].f) /\ IsValue(Carried[k].f, Carried[k].v)
    BY <2>4, <2>7
  <2>10. QED BY <1>2, <2>1, <2>2, <2>3, <2>4, <2>6, <2>8, <2>9 DEF Delivered
<1>4. CASE WholeArrives
  <2>1. MapSent(TRUE) /\ Carries(entries) /\ input \in Seq(Byte)
        /\ (Begins(input, Message(entries)) \/ Begins(Message(entries), input))
    BY <1>4 DEF WholeArrives, MapAllSent
  <2>2. ~MapRefusal
    <3>1. TRUE \in BOOLEAN
      OBVIOUS
    <3>2. QED BY <1>1, <2>1, <3>1, SentHolds
  <2>3. Carried = entries /\ Announced = Len(entries)
    BY <2>2 DEF Carried, Announced
  <2>4. Len(entries) \in Arguments /\ Len(entries) \in Nat /\ DOMAIN entries = 1 .. Len(entries)
    <3>1. Len(entries) \in Arguments /\ entries = [k \in 1 .. Len(entries) |-> entries[k]]
      BY <2>1 DEF Carries
    <3>2. QED BY <3>1, MapHeadIs
  <2>5. ASSUME NEW k \in 1 .. Len(entries)
        PROVE  /\ Entry(entries[k].f, entries[k].v).ok
               /\ IsMapField(entries[k].f) /\ IsValue(entries[k].f, entries[k].v)
               /\ \A j \in 1 .. Len(into) : entries[k].f.key = into[j].key => entries[k].f = into[j]
    <3>1. /\ entries[k].f \in { sent[j] : j \in DOMAIN sent }
          /\ entries[k].v \in Values(entries[k].f)
          /\ Entry(entries[k].f, entries[k].v).ok
      BY <2>1, <2>4 DEF Carries
    <3>2. PICK j \in 1 .. Len(sent) : entries[k].f = sent[j]
      BY <1>2, <3>1
    <3>3. IsMapField(entries[k].f) /\ IsValue(entries[k].f, entries[k].v)
      BY <1>2, <3>1, <3>2 DEF IsMapField
    <3>4. QED BY <1>2, <3>1, <3>2, <3>3
  <2>6. \A k \in 1 .. Len(Carried) : IsMapField(Carried[k].f) /\ IsValue(Carried[k].f, Carried[k].v)
    BY <2>3, <2>5
  <2>7. /\ Len(Es) = Len(entries)
        /\ \A k \in 1 .. Len(entries) : /\ Es[k] = Entry(Carried[k].f, Carried[k].v)
                                        /\ Es[k].bytes \in Seq(Byte) /\ Es[k].ok \in BOOLEAN
    BY <2>3, <2>4, <2>6, EsAre
  <2>8. Coming.ok \in BOOLEAN /\ Coming.ok
    <3>1. Coming = All(MapHead(Announced), Es) /\ MapHead(Announced) \in Seq(Byte)
      BY <2>3, <2>4, MapHeadIs DEF Coming
    <3>2. Coming.ok \in BOOLEAN /\ (Coming.ok <=> \A k \in 1 .. Len(entries) : Es[k].ok)
      BY <2>4, <2>7, <3>1, AllOk
    <3>3. QED BY <2>3, <2>5, <2>7, <3>2
  <2>9. Coming.bytes = Message(entries)
    <3>1. Es = [k \in DOMAIN entries |-> Entry(entries[k].f, entries[k].v)]
      BY <2>3, <2>4 DEF Es
    <3>2. QED BY <2>3, <3>1 DEF Coming, Message, MapHead
  <2>10. Whole \/ Begins(Coming.bytes, input)
    BY <2>1, <2>9 DEF Whole
  <2>11. \A k \in 1 .. Len(Carried), j \in 1 .. Len(into) : IsFor(into[j], k) => Carried[k].f = into[j]
    BY <2>3, <2>5 DEF IsFor
  <2>12. Len(Carried) = Announced /\ Announced \in Arguments /\ Len(Carried) \in 0 .. Announced
    BY <2>3, <2>4
  <2>13. QED BY <1>2, <2>1, <2>2, <2>6, <2>8, <2>10, <2>11, <2>12 DEF Delivered
<1>5. QED BY <1>1, <1>3, <1>4

\* When all were written without error, they are the message.
LEMMA MessageIs ==
  ASSUME ~MapRefusal, entries = [k \in 1 .. Len(entries) |-> entries[k]]
  PROVE  Carried = entries /\ Announced = Len(entries) /\ Coming.bytes = Message(entries)
<1>1. Carried = entries /\ Announced = Len(entries)
  BY DEF Carried, Announced
<1>2. Es = [k \in DOMAIN entries |-> Entry(entries[k].f, entries[k].v)]
  BY <1>1 DEF Es
<1>3. QED BY <1>1, <1>2 DEF Coming, Message, MapHead

\* The whole message: what has arrived, or what is missing of it as well.
Ahead == IF Whole THEN input ELSE Coming.bytes

LEMMA AheadIs ==
  ASSUME Delivered
  PROVE  /\ Ahead \in Seq(Byte) /\ Holds(Ahead, 0, Coming.bytes)
         /\ Coming.ok \/ Len(Ahead) = Len(Coming.bytes)
         /\ Len(input) <= Len(Ahead) /\ Agree(input, 0, Ahead, 0, Len(input))
         /\ Coming.bytes \in Seq(Byte) /\ MapHead(Announced) \in Seq(Byte)
         /\ Announced \in Nat /\ Len(Carried) \in Nat
         /\ \A k \in 1 .. Len(Carried) : /\ Es[k] = Entry(Carried[k].f, Carried[k].v)
                                         /\ Es[k].bytes \in Seq(Byte) /\ Es[k].ok \in BOOLEAN
<1>1. Announced \in Nat /\ MapHead(Announced) \in Seq(Byte) /\ Len(Carried) \in Nat
  <2>1. Announced \in Nat /\ MapHead(Announced) \in Seq(Byte)
    BY MapHeadIs DEF Delivered
  <2>2. QED BY <2>1 DEF Delivered
<1>2. /\ Len(Es) = Len(Carried)
      /\ \A k \in 1 .. Len(Carried) : /\ Es[k] = Entry(Carried[k].f, Carried[k].v)
                                      /\ Es[k].bytes \in Seq(Byte) /\ Es[k].ok \in BOOLEAN
  BY <1>1, EsAre DEF Delivered
<1>3. Chain(Coming, MapHead(Announced), Es, Len(Carried))
  BY <1>1, <1>2, AllChain DEF Coming
<1>4. Coming.bytes \in Seq(Byte)
  BY <1>3 DEF Chain
<1>5. Len(input) \in Nat /\ Len(Coming.bytes) \in Nat /\ input \in Seq(Byte)
  BY <1>4, LenProperties DEF Delivered
<1>6. \A b \in Seq(Byte) : Holds(b, 0, b) /\ Agree(b, 0, b, 0, Len(b))
  <2>1. SUFFICES ASSUME NEW b \in Seq(Byte) PROVE Holds(b, 0, b) /\ Agree(b, 0, b, 0, Len(b))
    OBVIOUS
  <2>2. Len(b) \in Nat
    BY LenProperties
  <2>3. QED BY <2>2 DEF Holds, Agree
<1>7. \A b, c \in Seq(Byte) : Begins(c, b) => Holds(c, 0, b) /\ Agree(b, 0, c, 0, Len(b)) /\ Len(b) <= Len(c)
  <2>1. SUFFICES ASSUME NEW b \in Seq(Byte), NEW c \in Seq(Byte), Begins(c, b)
                 PROVE  Holds(c, 0, b) /\ Agree(b, 0, c, 0, Len(b)) /\ Len(b) <= Len(c)
    OBVIOUS
  <2>2. PICK n \in Nat : n = Len(b)
    BY LenProperties
  <2>3. PICK p \in Nat : p = 0 /\ p + 1 = 1 /\ p + n = n
    BY <2>2
  <2>4. n <= Len(c) /\ SubSeq(c, p + 1, p + n) = b
    BY <2>1, <2>2, <2>3 DEF Begins
  <2>5. Holds(c, p, SubSeq(c, p + 1, p + n))
    <3>1. p + n <= Len(c)
      BY <2>3, <2>4
    <3>2. QED BY <3>1, HeldSlice
  <2>6. Holds(c, 0, b)
    BY <2>3, <2>4, <2>5
  <2>7. Agree(b, 0, c, 0, Len(b))
    BY <2>2, <2>4, <2>6 DEF Holds, Agree
  <2>8. QED BY <2>2, <2>4, <2>6, <2>7
<1>8. CASE Whole
  <2>1. Ahead = input /\ Begins(input, Coming.bytes)
    BY <1>8 DEF Ahead, Whole
  <2>2. Holds(input, 0, Coming.bytes) /\ Agree(input, 0, input, 0, Len(input))
    BY <1>4, <1>5, <1>6, <1>7, <2>1
  <2>3. Coming.ok \/ Len(input) = Len(Coming.bytes)
    BY DEF Delivered
  <2>4. QED BY <1>1, <1>2, <1>4, <1>5, <2>1, <2>2, <2>3
<1>9. CASE ~Whole
  <2>1. Ahead = Coming.bytes
    BY <1>9 DEF Ahead
  <2>2. Agree(input, 0, Coming.bytes, 0, Len(input)) /\ Len(input) <= Len(Coming.bytes)
    <3>1. CASE Coming.ok
      <4>1. Begins(Coming.bytes, input)
        BY <1>9, <3>1 DEF Delivered
      <4>2. QED BY <1>4, <1>5, <1>7, <4>1
    <3>2. CASE ~Coming.ok
      <4>1. input = Coming.bytes
        BY <3>2 DEF Delivered
      <4>2. QED BY <1>4, <1>5, <1>6, <4>1
    <3>3. QED BY <3>1, <3>2
  <2>3. QED BY <1>1, <1>2, <1>4, <1>6, <2>1, <2>2
<1>10. QED BY <1>8, <1>9

LEMMA LaidOutSo ==
  ASSUME Delivered
  PROVE  \E e : \E at : LaidOut(e, at)
<1>1. /\ MapHead(Announced) \in Seq(Byte) /\ Len(Carried) \in Nat
      /\ \A k \in 1 .. Len(Carried) : Es[k].bytes \in Seq(Byte) /\ Es[k].ok \in BOOLEAN
  BY AheadIs
<1>2. Len(Es) = Len(Carried)
  BY <1>1 DEF Es
<1>3. Chain(Coming, MapHead(Announced), Es, Len(Carried))
  BY <1>1, <1>2, AllChain DEF Coming
<1>4. QED BY <1>3 DEF Chain, LaidOut

\* The (d + 1)-th entry, behind those that were written without error.
Next(d, e, at, p) ==
  /\ d + 1 \in 1 .. e /\ d + 1 \in 1 .. Len(Carried) /\ p \in Nat
  /\ Holds(Ahead, p, Es[d + 1].bytes)
  /\ Coming.ok => Es[d + 1].ok
  /\ Es[d + 1].ok \/ p + Len(Es[d + 1].bytes) = Len(Ahead)
  /\ p + Len(Es[d + 1].bytes) = Len(MapHead(Announced)) + at[d + 1]

LEMMA NextEntry ==
  ASSUME Delivered, NEW e, NEW at, LaidOut(e, at), NEW d \in Nat, d < Announced, d <= e,
         \A k \in 1 .. d : Es[k].ok, NEW p, p = Len(MapHead(Announced)) + at[d]
  PROVE  Next(d, e, at, p)
<1> DEFINE head == MapHead(Announced)
           n == Len(Carried)
           b == Coming.bytes
<1>1. /\ Ahead \in Seq(Byte) /\ Holds(Ahead, 0, b)
      /\ Coming.ok \/ Len(Ahead) = Len(b)
      /\ b \in Seq(Byte) /\ head \in Seq(Byte) /\ Announced \in Nat /\ n \in Nat
      /\ \A k \in 1 .. n : Es[k].bytes \in Seq(Byte) /\ Es[k].ok \in BOOLEAN
  BY AheadIs
<1>2. /\ e \in 0 .. n
      /\ Laid(b, head, Es, e, at)
      /\ \A j \in 1 .. (e - 1) : Es[j].ok
      /\ Coming.ok => e = n /\ (e # 0 => Es[e].ok)
      /\ ~Coming.ok => e # 0 /\ ~Es[e].ok
  BY DEF LaidOut, ChainTo
<1>3. (Coming.ok => n = Announced) /\ p = Len(head) + at[d]
  BY DEF Delivered
<1> HIDE DEF head, b
<1>4. d < e
  <2>1. d # e
    <3>1. CASE Coming.ok
      BY <1>1, <1>2, <1>3, <3>1
    <3>2. CASE ~Coming.ok
      BY <1>2, <3>2
    <3>3. QED BY <3>1, <3>2
  <2>2. QED BY <1>1, <1>2, <2>1
<1>5. d + 1 \in 1 .. e /\ d + 1 \in 1 .. n /\ d \in 0 .. e /\ d + 1 \in 0 .. e /\ (d + 1) - 1 = d
  BY <1>1, <1>2, <1>4
<1>6. /\ at \in [0 .. e -> Nat] /\ Len(b) = Len(head) + at[e]
      /\ at[d + 1] = at[d] + Len(Es[d + 1].bytes)
  BY <1>2, <1>5 DEF Laid
<1>7. Len(head) \in Nat /\ Len(Es[d + 1].bytes) \in Nat
  BY <1>1, <1>5, LenProperties
<1>8. at[d] \in Nat /\ at[d + 1] \in Nat
  BY <1>5, <1>6
<1>9. p \in Nat /\ p + Len(Es[d + 1].bytes) = Len(head) + at[d + 1]
  <2>1. PICK x \in Nat, y \in Nat, l \in Nat : x = Len(head) /\ y = at[d] /\ l = Len(Es[d + 1].bytes)
    BY <1>7, <1>8
  <2>2. (x + y) + l = x + (y + l)
    OBVIOUS
  <2>3. p = x + y /\ at[d + 1] = y + l
    BY <1>3, <1>6, <2>1
  <2>4. x + y \in Nat /\ p + l = x + at[d + 1]
    BY <2>2, <2>3
  <2>5. QED BY <2>1, <2>3, <2>4
<1>10. Holds(Ahead, p, Es[d + 1].bytes)
  <2>1. PICK o \in Nat : o = 0 /\ (o + Len(head)) + at[d] = p
    BY <1>3, <1>7, <1>8
  <2>2. Holds(Ahead, (o + Len(head)) + at[d], Es[d + 1].bytes)
    BY <1>1, <1>2, <1>5, <2>1 DEF Laid
  <2>3. QED BY <2>1, <2>2
<1>11. Es[d + 1].ok \/ p + Len(Es[d + 1].bytes) = Len(Ahead)
  <2>1. CASE d + 1 # e
    BY <1>2, <1>5, <2>1
  <2>2. CASE d + 1 = e
    <3>1. CASE Coming.ok
      BY <1>2, <1>5, <2>2, <3>1
    <3>2. CASE ~Coming.ok
      BY <1>1, <1>6, <1>9, <2>2, <3>2
    <3>3. QED BY <3>1, <3>2
  <2>3. QED BY <2>1, <2>2
<1>12. Coming.ok => Es[d + 1].ok
  BY <1>2, <1>5
<1>13. QED BY <1>5, <1>9, <1>10, <1>11, <1>12 DEF Next, head

\* A name that is read is the key of that entry, and behind it is the value; it is
\* not read only if not all is there.
ValueIs(f, v, ok, to) ==
  /\ name.v = f.key /\ name.n \in Nat /\ value \in 0 .. Len(input)
  /\ Holds(Ahead, value, WriteField(f, v).bytes)
  /\ WriteField(f, v).ok = ok
  /\ ok \/ value + Len(WriteField(f, v).bytes) = Len(Ahead)
  /\ value + Len(WriteField(f, v).bytes) = to
  /\ Agree(input, value, Ahead, value, Len(input) - value)

LEMMA NameIs ==
  ASSUME Delivered, NEW d \in Nat, NEW e, NEW at, Next(d, e, at, pos), pos \in 0 .. Len(input)
  PROVE  /\ Whole /\ Coming.ok => name.ok
         /\ name.ok => ValueIs(Carried[d + 1].f, Carried[d + 1].v, Es[d + 1].ok, Len(MapHead(Announced)) + at[d + 1])
<1> DEFINE f == Carried[d + 1].f
           v == Carried[d + 1].v
           x == Entry(f, v)
           w == WriteField(f, v)
           nm == ReadString(Ahead, pos)
           to == Len(MapHead(Announced)) + at[d + 1]
<1>1. /\ Ahead \in Seq(Byte) /\ Agree(input, 0, Ahead, 0, Len(input))
      /\ \A k \in 1 .. Len(Carried) : Es[k] = Entry(Carried[k].f, Carried[k].v)
      /\ Len(input) <= Len(Ahead)
  BY AheadIs
<1>2. /\ d + 1 \in 1 .. Len(Carried) /\ pos \in Nat /\ Holds(Ahead, pos, Es[d + 1].bytes)
      /\ (Coming.ok => Es[d + 1].ok)
      /\ (Es[d + 1].ok \/ pos + Len(Es[d + 1].bytes) = Len(Ahead))
      /\ pos + Len(Es[d + 1].bytes) = to
  BY DEF Next
<1>3. x = Es[d + 1] /\ IsMapField(f) /\ IsValue(f, v) /\ input \in Seq(Byte)
  BY <1>1, <1>2 DEF Delivered
<1> HIDE DEF f, v
<1>4. EntryRead(f, v, Ahead, pos)
  BY <1>1, <1>2, <1>3, EntryBack
<1> DEFINE n == Len(WriteString(f.key).bytes)
<1>5. /\ x.ok => nm.ok
      /\ nm.ok => /\ n \in Nat /\ nm = Good(f.key, n)
                  /\ Holds(Ahead, pos + n, w.bytes)
                  /\ pos + Len(x.bytes) = (pos + n) + Len(w.bytes)
                  /\ w.ok = x.ok
                  /\ w.ok \/ (pos + n) + Len(w.bytes) = Len(Ahead)
  BY <1>2, <1>3, <1>4 DEF EntryRead
<1>6. Len(input) \in Nat /\ Len(Ahead) \in Nat
  BY <1>1, <1>3, LenProperties
<1>7. Whole /\ Coming.ok => name.ok
  BY <1>2, <1>3, <1>5 DEF Ahead, name
<1>8. ASSUME name.ok PROVE ValueIs(f, v, Es[d + 1].ok, to)
  <2>1. PICK m \in Nat : m = Len(input) - pos
    <3>1. \A a, b \in Nat : b \in 0 .. a => a - b \in Nat
      OBVIOUS
    <3>2. Len(input) - pos \in Nat
      BY <1>2, <1>6, <3>1, Zenon
    <3>3. QED BY <3>2, Zenon
  <2>2. Agree(input, pos, Ahead, pos, m)
    <3>1. PICK o \in Nat : o = 0 /\ o + pos = pos
      BY <1>2
    <3>2. Agree(input, o, Ahead, o, Len(input)) /\ pos \in 0 .. Len(input)
      BY <1>1, <3>1
    <3>3. Agree(input, o + pos, Ahead, o + pos, Len(input) - pos)
      BY <1>6, <3>2, AgreeLater, Zenon
    <3>4. QED BY <2>1, <3>1, <3>3
  <2>3. Local(name, input, pos, nm, Ahead, pos)
    <3>1. pos <= Len(input) /\ pos <= Len(Ahead)
      BY <1>1, <1>2, <1>6
    <3>2. QED BY <1>1, <1>2, <1>3, <3>1, StringLocal DEF name
  <2>4. name.n \in Nat /\ pos + name.n <= Len(input)
    BY <1>8, <2>3 DEF Local, Takes
  <2>5. nm = name
    <3>1. name.n <= m
      BY <1>2, <1>6, <2>1, <2>4
    <3>2. QED BY <1>8, <2>2, <2>3, <3>1 DEF Local, SameWithin
  <2>6. nm.ok
    BY <1>8, <2>5
  <2>7. name.n = n /\ name.v = f.key /\ value = pos + n
    <3>1. name = Good(f.key, n)
      BY <1>5, <2>5, <2>6
    <3>2. QED BY <3>1 DEF Good, value
  <2>8. value \in 0 .. Len(input)
    BY <1>2, <1>6, <2>4, <2>7
  <2>9. value + Len(w.bytes) = to
    BY <1>2, <1>3, <1>5, <2>6, <2>7
  <2>10. Agree(input, value, Ahead, value, Len(input) - value)
    <3>1. PICK o \in Nat : o = 0 /\ o + value = value
      BY <2>8
    <3>2. Agree(input, o, Ahead, o, Len(input))
      BY <1>1, <3>1
    <3>3. Agree(input, o + value, Ahead, o + value, Len(input) - value)
      BY <1>6, <2>8, <3>2, AgreeLater, Zenon
    <3>4. QED BY <3>1, <3>3
  <2>11. Holds(Ahead, value, w.bytes) /\ w.ok = Es[d + 1].ok
         /\ (w.ok \/ value + Len(w.bytes) = Len(Ahead))
    BY <1>3, <1>5, <2>6, <2>7
  <2>12. QED BY <2>4, <2>7, <2>8, <2>9, <2>10, <2>11 DEF ValueIs
<1>9. QED BY <1>7, <1>8 DEF f, v

\* What the decoder of a field the receiver has makes of that value, and what the
\* scanner makes of it when it has none.
ValueRead(f, v, old, ok, to) ==
  LET r == ReadField(f, input, value, old)
  IN  /\ r.ok => /\ ok /\ Readable(f, v) /\ r.n \in Nat
                 /\ value + r.n = to /\ to <= Len(input) /\ r.v = Now(f, v, old)
      /\ Whole /\ ok /\ Readable(f, v) => r.ok

LEMMA KnownRead ==
  ASSUME Delivered, NEW f, IsMapField(f), NEW v, IsValue(f, v), NEW ok, NEW to, ValueIs(f, v, ok, to),
         NEW old, f.kind = "bytes" => Len(old) \in Nat, f.kind = "bytes" /\ v = << >> => old = << >>
  PROVE  ValueRead(f, v, old, ok, to)
<1> DEFINE r == ReadField(f, input, value, old)
           z == ReadField(f, Ahead, value, old)
           w == WriteField(f, v)
<1>1. Ahead \in Seq(Byte) /\ Len(input) <= Len(Ahead) /\ input \in Seq(Byte)
  BY AheadIs DEF Delivered
<1>2. /\ value \in 0 .. Len(input)
      /\ Holds(Ahead, value, w.bytes) /\ w.ok = ok
      /\ ok \/ value + Len(w.bytes) = Len(Ahead)
      /\ value + Len(w.bytes) = to
      /\ Agree(input, value, Ahead, value, Len(input) - value)
  BY DEF ValueIs
<1>3. Len(input) \in Nat /\ Len(Ahead) \in Nat
  BY <1>1, LenProperties
<1>4. PICK p \in Nat : p = value
  BY <1>2
<1>5. PICK m \in Nat : m = Len(input) - p
  BY <1>2, <1>3, <1>4
<1>6. Local(r, input, value, z, Ahead, value)
  <2>1. p <= Len(input) /\ p <= Len(Ahead) /\ f.kind \in Kinds /\ f.w \in Nat
    BY <1>1, <1>2, <1>3, <1>4, MapFieldKey
  <2>2. Local(ReadField(f, input, p, old), input, p, ReadField(f, Ahead, p, old), Ahead, p)
    BY <1>1, <2>1, FieldLocal
  <2>3. QED BY <1>4, <2>2
<1>7. BackOver(f, v, Ahead, value, old)
  <2>1. BackOver(f, v, Ahead, p, old)
    BY <1>1, ValueBack
  <2>2. QED BY <1>4, <2>1
<1>8. w.bytes \in Seq(Byte)
  BY ValueType
<1> HIDE DEF r, w
<1>9. ASSUME r.ok
      PROVE  ok /\ Readable(f, v) /\ r.n \in Nat /\ value + r.n = to /\ to <= Len(input) /\ r.v = Now(f, v, old)
  <2>1. r.n \in Nat /\ p + r.n <= Len(input)
    BY <1>4, <1>6, <1>9 DEF Local, Takes
  <2>2. r.n <= m /\ Agree(input, value, Ahead, value, m)
    <3>1. PICK k \in Nat : k = r.n
      BY <2>1
    <3>2. k <= m
      BY <1>3, <1>5, <2>1, <3>1
    <3>3. QED BY <1>2, <1>4, <1>5, <3>1, <3>2
  <2>3. z = r
    BY <1>6, <1>9, <2>2 DEF Local, SameWithin
  <2>4. w.ok /\ Readable(f, v) /\ r.n = Len(w.bytes) /\ r.v = Now(f, v, old)
    BY <1>2, <1>7, <1>9, <2>3 DEF BackOver, w
  <2>5. QED BY <1>2, <1>4, <2>1, <2>4
<1>10. ASSUME Whole, ok, Readable(f, v) PROVE r.ok
  <2>1. z.ok
    BY <1>2, <1>7, <1>10 DEF BackOver, w
  <2>2. QED BY <1>10, <2>1 DEF Ahead, r
<1>11. QED BY <1>9, <1>10 DEF ValueRead, r

LEMMA UnknownRead ==
  ASSUME Delivered, Whole, NEW f, IsMapField(f), NEW v, IsValue(f, v), NEW ok, NEW to, ValueIs(f, v, ok, to),
         IsLinkedItem(WriteField(f, v).bytes)
  PROVE  /\ Skipped(input, value).ok /\ Skipped(input, value).end = to
         /\ to \in value .. Len(input)
<1> DEFINE w == WriteField(f, v)
<1>1. Ahead = input /\ input \in Seq(Byte)
  BY DEF Ahead, Delivered
<1>2. value \in Nat /\ Holds(input, value, w.bytes) /\ value + Len(w.bytes) = to
  BY <1>1 DEF ValueIs
<1>3. w.bytes \in Seq(Byte)
  BY ValueType
<1>4. Len(w.bytes) \in Nat /\ Len(input) \in Nat
  BY <1>1, <1>3, LenProperties
<1> HIDE DEF w
<1>5. LinkedItemAt(input, value).ok /\ LinkedItemAt(input, value).end = value + Len(w.bytes)
  BY <1>1, <1>2, <1>3, LinkedItemHeld DEF w
<1>6. value + Len(w.bytes) <= Len(input)
  BY <1>2 DEF Holds
<1>7. to \in value .. Len(input)
  BY <1>2, <1>4, <1>6
<1>8. QED BY <1>2, <1>5, <1>7 DEF Skipped

-----------------------------------------------------------------------------

LEMMA ReadFrozen ==
  ASSUME UNCHANGED <<sent, t, out, entries, input, into>>
  PROVE  /\ Carried' = Carried /\ Announced' = Announced /\ Es' = Es /\ Coming' = Coming /\ Whole' = Whole
         /\ Clear' = Clear
<1>1. MapRefusal' = MapRefusal
  BY DEF MapRefusal
<1>2. Carried' = Carried /\ Announced' = Announced
  BY <1>1 DEF Carried, Announced
<1>3. Es' = Es
  BY <1>2 DEF Es
<1>4. Coming' = Coming
  BY <1>2, <1>3 DEF Coming
<1>5. Whole' = Whole
  BY <1>4 DEF Whole, Begins
<1>6. NoneShrinks' = NoneShrinks
  BY <1>2 DEF NoneShrinks, IsFor
<1>7. (\A k \in 1 .. Len(Carried) : IsKnown(k))' = (\A k \in 1 .. Len(Carried) : IsKnown(k))
  BY <1>2 DEF IsKnown, IsFor
<1>8. (\A k \in 1 .. Len(Carried) : IsKnown(k) \/ Scannable(k))'
        = (\A k \in 1 .. Len(Carried) : IsKnown(k) \/ Scannable(k))
  BY <1>2 DEF IsKnown, IsFor, Scannable
<1>9. Clear' = Clear
  BY <1>4, <1>5, <1>6, <1>7, <1>8 DEF Clear
<1>10. QED BY <1>2, <1>3, <1>4, <1>5, <1>9

\* The entry that is next, and what is known of those before it.
Here(d, e, at) ==
  d \in Nat /\ d = Announced - left /\ d + 1 = Announced - (left - 1) /\ LaidOut(e, at) /\ Next(d, e, at, pos)

LEMMA NextIsHere ==
  ASSUME Delivered, MapProgress, left > 0
  PROVE  \E d, e, at : Here(d, e, at)
<1>1. left \in 0 .. Announced /\ Announced \in Nat
  BY AheadIs DEF MapProgress
<1>2. PICK d \in Nat : d = Announced - left /\ d < Announced /\ d + 1 = Announced - (left - 1)
  BY <1>1
<1>3. PICK e, at : LaidOut(e, at) /\ d <= e /\ pos = Len(MapHead(Announced)) + at[d]
  BY <1>2 DEF MapProgress
<1>4. \A k \in 1 .. d : Es[k].ok
  BY <1>2 DEF MapProgress, ReadTo
<1>5. Next(d, e, at, pos)
  BY <1>2, <1>3, <1>4, NextEntry
<1>6. QED BY <1>2, <1>3, <1>5 DEF Here

\* The entry has been read.
LEMMA EntryDone ==
  ASSUME Delivered, MapProgress, left > 0, UNCHANGED <<sent, t, out, entries, input, into>>,
         NEW d, NEW e, NEW at, Here(d, e, at),
         left' = left - 1, bytesRead' = pos', pos' \in 0 .. Len(input),
         pos' = Len(MapHead(Announced)) + at[d + 1],
         Es[d + 1].ok, IsReadable(d + 1),
         Len(u') = Len(into), u' = [j \in 1 .. Len(into) |-> u'[j]],
         \A j \in 1 .. Len(into) :
           u'[j] = IF IsFor(into[j], d + 1) THEN Now(into[j], Carried[d + 1].v, u[j]) ELSE u[j]
  PROVE  MapProgress'
<1>1. /\ Carried' = Carried /\ Announced' = Announced /\ Es' = Es /\ Coming' = Coming
      /\ input' = input /\ into' = into
  BY ReadFrozen
<1>2. left \in 0 .. Announced /\ Announced \in Nat /\ ReadTo(d) /\ d \in Nat
      /\ d = Announced - left /\ d + 1 = Announced - left' /\ d + 1 <= e /\ LaidOut(e, at)
  <2>1. left \in 0 .. Announced /\ Announced \in Nat /\ ReadTo(Announced - left)
    BY AheadIs DEF MapProgress
  <2>2. QED BY <2>1 DEF Here, Next, LaidOut
<1>3. left' \in 0 .. Announced
  BY <1>2
<1>4. LaidOut(e, at)'
  BY <1>1, <1>2 DEF LaidOut
<1>5. \A k \in 1 .. (d + 1) : Es[k].ok /\ IsReadable(k)
  <2>1. \A k \in 1 .. (d + 1) : k \in 1 .. d \/ k = d + 1
    BY <1>2
  <2>2. QED BY <1>2, <2>1 DEF ReadTo
<1>6. ASSUME NEW j \in 1 .. Len(into) PROVE \E k \in 0 .. (d + 1) : HasLatest(j, d + 1, k)'
  <2>1. PICK k \in 0 .. d : HasLatest(j, d, k)
    BY <1>2 DEF ReadTo
  <2>2. \A l : SetsField(into[j], l)' = SetsField(into[j], l)
    BY <1>1 DEF SetsField, IsFor
  <2>3. CASE SetsField(into[j], d + 1)
    <3>1. u'[j] = Same(into[j], Carried[d + 1].v)
      BY <2>3 DEF SetsField, Now
    <3>2. d + 1 # 0 /\ d + 1 \in 0 .. (d + 1) /\ \A l : l \notin ((d + 1) + 1) .. (d + 1)
      BY <1>2
    <3>3. SetsField(into[j], d + 1)'
      BY <2>2, <2>3
    <3>4. HasLatest(j, d + 1, d + 1)'
      BY <1>1, <3>1, <3>2, <3>3 DEF HasLatest
    <3>5. QED BY <3>2, <3>4
  <2>4. CASE ~SetsField(into[j], d + 1)
    <3>1. u'[j] = u[j]
      BY <2>4 DEF SetsField, Now
    <3>2. \A l \in (k + 1) .. (d + 1) : l \in (k + 1) .. d \/ l = d + 1
      BY <1>2
    <3>3. \A l \in (k + 1) .. (d + 1) : ~SetsField(into[j], l)'
      BY <2>1, <2>2, <2>4, <3>2 DEF HasLatest
    <3>4. /\ k = 0 => u'[j] = Zero(into'[j])
          /\ k # 0 => SetsField(into[j], k)' /\ u'[j] = Same(into'[j], Carried'[k].v)
      BY <1>1, <2>1, <2>2, <3>1 DEF HasLatest
    <3>5. HasLatest(j, d + 1, k)'
      BY <1>1, <3>3, <3>4 DEF HasLatest
    <3>6. k \in 0 .. (d + 1)
      BY <1>2
    <3>7. QED BY <3>5, <3>6
  <2>5. QED BY <2>3, <2>4
<1>7. ReadTo(d + 1)'
  BY <1>1, <1>5, <1>6 DEF ReadTo, IsReadable, IsKnown, IsFor
<1>8. QED BY <1>1, <1>2, <1>3, <1>4, <1>7 DEF MapProgress

\* What was in a field before: bytes, in a field of bytes, and no more than an empty
\* byte string that comes now leaves as they are.
LEMMA OldIs ==
  ASSUME Delivered, MapProgress, NoneShrinks, NEW d \in Nat, d = Announced - left, d + 1 \in 1 .. Len(Carried),
         NEW j \in 1 .. Len(into), IsFor(into[j], d + 1), into[j].kind = "bytes"
  PROVE  Len(u[j]) \in Nat /\ (Carried[d + 1].v = << >> => u[j] = << >>)
<1>1. PICK k \in 0 .. d : HasLatest(j, d, k)
  BY DEF MapProgress, ReadTo
<1>2. CASE k = 0
  <2>1. u[j] = << >>
    BY <1>1, <1>2 DEF HasLatest, Zero
  <2>2. QED BY <2>1
<1>3. CASE k # 0
  <2>1. SetsField(into[j], k) /\ u[j] = Same(into[j], Carried[k].v)
    BY <1>1, <1>3, Zenon DEF HasLatest
  <2>2. k \in 1 .. Len(Carried) /\ k < d + 1 /\ Len(Carried) \in Nat
    BY <1>3, AheadIs
  <2>3. Carried[k].f = into[j] /\ IsValue(Carried[k].f, Carried[k].v)
    BY <2>1, <2>2 DEF SetsField, Delivered
  <2>4. u[j] = Carried[k].v /\ Carried[k].v \in Seq(Byte)
    BY <2>1, <2>3 DEF Same, IsValue
  <2>5. Carried[d + 1].v = << >> => Carried[k].v = << >>
    BY <2>1, <2>2 DEF NoneShrinks, SetsField
  <2>6. QED BY <2>4, <2>5, LenProperties
<1>4. QED BY <1>2, <1>3

LEMMA BadNameHolds ==
  ASSUME MapSends, MapReads, BadName
  PROVE  MapReads'
<1>1. UNCHANGED <<sent, t, out, entries, input, into>> /\ state = "unmarshal" /\ state' = "error" /\ left > 0 /\ ~name.ok
  BY DEF BadName
<1>2. Clear' = Clear /\ Whole' = Whole /\ Coming' = Coming
  BY <1>1, ReadFrozen
<1>3. ASSUME Clear, Whole, Coming.ok PROVE FALSE
  <2>1. out # << CborNull >> /\ MapProgress
    BY <1>1, <1>3 DEF MapReads
  <2>2. Delivered
    BY <1>1, <2>1, DeliveredIs DEF MapReceives
  <2>3. PICK d, e, at : Here(d, e, at)
    BY <1>1, <2>1, <2>2, NextIsHere
  <2>4. pos \in 0 .. Len(input)
    BY <2>1 DEF MapProgress
  <2>5. name.ok
    BY <1>3, <2>2, <2>3, <2>4, NameIs DEF Here
  <2>6. QED BY <1>1, <2>5
<1>4. QED BY <1>1, <1>2, <1>3 DEF MapReads

LEMMA KnownHolds ==
  ASSUME MapSends, MapReads, Known
  PROVE  MapReads'
<1>1. UNCHANGED <<sent, t, out, entries, input, into>> /\ state = "unmarshal" /\ left > 0 /\ name.ok
  BY DEF Known
<1>2. PICK j \in DOMAIN into : into[j].key = name.v /\ AssignEntry(j, ReadField(into[j], input, value, u[j]))
  BY DEF Known
<1>3. out # << CborNull >> /\ left \in Nat /\ left - 1 \in Nat
  <2>1. out # << CborNull >> /\ left \in Nat
    BY <1>1 DEF MapReads
  <2>2. QED BY <1>1, <2>1
<1>4. Delivered
  BY <1>1, <1>3, DeliveredIs DEF MapReceives
<1>5. /\ Clear' = Clear /\ Whole' = Whole /\ Coming' = Coming
      /\ Carried' = Carried /\ Announced' = Announced
  BY <1>1, ReadFrozen
<1> DEFINE r == ReadField(into[j], input, value, u[j])
<1>6. /\ bytesRead' = bytesRead + name.n + r.n
      /\ \/ /\ r.ok
            /\ u' = [u EXCEPT ![j] = Taken(j, r.v)]
            /\ pos' = value + r.n
            /\ left' = left - 1
            /\ state' = state
         \/ ~r.ok /\ state' = "error"
  BY <1>2 DEF AssignEntry
<1>7. DOMAIN into = 1 .. Len(into) /\ j \in 1 .. Len(into)
  BY <1>2 DEF MapSends, MapTyped
<1> HIDE DEF r
<1>8. ASSUME Clear
      PROVE  /\ r.ok => MapProgress'
             /\ ~r.ok /\ Whole /\ Coming.ok => \E k \in 1 .. Len(Carried) : ~IsReadable(k)
  <2>1. MapProgress
    BY <1>1, <1>8 DEF MapReads
  <2>2. PICK d, e, at : Here(d, e, at)
    BY <1>1, <1>4, <2>1, NextIsHere
  <2>3. pos \in 0 .. Len(input) /\ bytesRead = pos /\ Len(u) = Len(into) /\ u = [y \in 1 .. Len(into) |-> u[y]]
    BY <2>1 DEF MapProgress
  <2>4. d \in Nat /\ Next(d, e, at, pos) /\ d + 1 \in 1 .. Len(Carried) /\ d = Announced - left
        /\ (Coming.ok => Es[d + 1].ok)
    BY <2>2 DEF Here, Next
  <2> DEFINE f == Carried[d + 1].f
             v == Carried[d + 1].v
             to == Len(MapHead(Announced)) + at[d + 1]
  <2>5. ValueIs(f, v, Es[d + 1].ok, to)
    BY <1>1, <1>4, <2>3, <2>4, NameIs
  <2>6. IsFor(into[j], d + 1) /\ f = into[j] /\ IsMapField(f) /\ IsValue(f, v)
    <3>1. IsFor(into[j], d + 1)
      BY <1>2, <2>5 DEF ValueIs, IsFor
    <3>2. QED BY <1>4, <1>7, <2>4, <3>1 DEF Delivered
  <2>7. ASSUME f.kind = "bytes" PROVE Len(u[j]) \in Nat /\ (v = << >> => u[j] = << >>)
    <3>1. NoneShrinks /\ into[j].kind = "bytes"
      BY <1>8, <2>6, <2>7 DEF Clear
    <3>2. QED BY <1>4, <1>7, <2>1, <2>4, <2>6, <3>1, OldIs
  <2> HIDE DEF f, v, to
  <2>8. ValueRead(f, v, u[j], Es[d + 1].ok, to)
    BY <1>4, <2>5, <2>6, <2>7, KnownRead
  <2>9. /\ r.ok => /\ Es[d + 1].ok /\ Readable(f, v) /\ r.n \in Nat
                   /\ value + r.n = to /\ to <= Len(input) /\ r.v = Now(f, v, u[j])
        /\ Whole /\ Es[d + 1].ok /\ Readable(f, v) => r.ok
    BY <2>6, <2>8 DEF ValueRead, r
  <2>10. IsKnown(d + 1)
    BY <1>7, <2>6 DEF IsKnown
  <2>11. ASSUME r.ok PROVE MapProgress'
    <3>1. u' = [u EXCEPT ![j] = r.v] /\ pos' = to /\ left' = left - 1
      BY <1>6, <2>9, <2>11 DEF Taken
    <3>2. bytesRead' = pos' /\ pos' \in 0 .. Len(input)
      <4>1. name.n \in Nat /\ value \in 0 .. Len(input) /\ value = pos + name.n
        BY <2>5 DEF ValueIs, value
      <4>2. PICK a \in Nat, b \in Nat, c \in Nat : a = pos /\ b = name.n /\ c = r.n
        BY <2>3, <2>9, <2>11, <4>1
      <4>3. (a + b) + c = value + r.n /\ (a + b) + c \in Nat
        BY <4>1, <4>2
      <4>4. bytesRead' = (a + b) + c
        BY <1>6, <2>3, <4>2
      <4>5. QED BY <2>9, <2>11, <3>1, <4>3, <4>4
    <3>3. Len(u') = Len(into) /\ u' = [y \in 1 .. Len(into) |-> u'[y]]
      <4>1. Len(into) \in Nat
        BY <1>4 DEF Delivered
      <4>2. u' = [y \in 1 .. Len(into) |-> IF y = j THEN r.v ELSE u[y]]
        BY <1>7, <2>3, <3>1
      <4>3. QED BY <4>1, <4>2
    <3>4. ASSUME NEW y \in 1 .. Len(into)
          PROVE  u'[y] = IF IsFor(into[y], d + 1) THEN Now(into[y], Carried[d + 1].v, u[y]) ELSE u[y]
      <4>1. u'[y] = IF y = j THEN r.v ELSE u[y]
        BY <1>7, <2>3, <3>1
      <4>2. IsFor(into[y], d + 1) => y = j
        BY <1>4, <1>7, <2>6 DEF Delivered, IsFor
      <4>3. y = j => r.v = Now(into[y], Carried[d + 1].v, u[y])
        BY <2>6, <2>9, <2>11 DEF v
      <4>4. QED BY <2>6, <4>1, <4>2, <4>3
    <3>5. IsReadable(d + 1) /\ Es[d + 1].ok
      BY <2>9, <2>11 DEF IsReadable, f, v
    <3>6. pos' = Len(MapHead(Announced)) + at[d + 1]
      BY <3>1 DEF to
    <3>7. QED BY <1>1, <1>4, <2>1, <2>2, <3>1, <3>2, <3>3, <3>4, <3>5, <3>6, EntryDone
  <2>12. ASSUME ~r.ok, Whole, Coming.ok PROVE \E k \in 1 .. Len(Carried) : ~IsReadable(k)
    <3>1. ~Readable(f, v)
      BY <2>4, <2>9, <2>12
    <3>2. QED BY <2>4, <2>10, <3>1 DEF IsReadable, f, v
  <2>13. QED BY <2>11, <2>12
<1>9. CASE r.ok
  <2>1. state' = "unmarshal" /\ left' = left - 1 /\ out' = out
    BY <1>1, <1>6, <1>9
  <2>2. QED BY <1>3, <1>5, <1>8, <1>9, <2>1 DEF MapReads
<1>10. CASE ~r.ok
  <2>1. state' = "error"
    BY <1>6, <1>10
  <2>2. (\E k \in 1 .. Len(Carried) : ~IsReadable(k)) => (\E k \in 1 .. Len(Carried) : ~IsReadable(k))'
    BY <1>1, <1>5 DEF IsReadable, IsKnown, IsFor
  <2>3. QED BY <1>5, <1>8, <1>10, <2>1, <2>2 DEF MapReads
<1>11. QED BY <1>9, <1>10

LEMMA UnknownHolds ==
  ASSUME MapSends, MapReads, Unknown
  PROVE  MapReads'
<1>1. /\ UNCHANGED <<sent, t, out, entries, input, into, u, state>> /\ state = "unmarshal" /\ left > 0 /\ name.ok
      /\ left' = left - 1 /\ pos' = Skipped(input, value).end
      /\ bytesRead' = bytesRead + name.n + IF Skipped(input, value).ok THEN Skipped(input, value).end - value ELSE 0
      /\ \A j \in DOMAIN into : into[j].key # name.v
  BY DEF Unknown, PassOver
<1>2. out # << CborNull >> /\ left \in Nat /\ left - 1 \in Nat
  <2>1. out # << CborNull >> /\ left \in Nat
    BY <1>1 DEF MapReads
  <2>2. QED BY <1>1, <2>1
<1>3. Delivered
  BY <1>1, <1>2, DeliveredIs DEF MapReceives
<1>4. Clear' = Clear
  BY <1>1, ReadFrozen
<1>5. DOMAIN into = 1 .. Len(into)
  BY DEF MapSends, MapTyped
<1>6. ASSUME Clear PROVE MapProgress'
  <2>1. MapProgress
    BY <1>1, <1>6 DEF MapReads
  <2>2. PICK d, e, at : Here(d, e, at)
    BY <1>1, <1>3, <2>1, NextIsHere
  <2>3. pos \in 0 .. Len(input) /\ bytesRead = pos /\ Len(u) = Len(into) /\ u = [y \in 1 .. Len(into) |-> u[y]]
    BY <2>1 DEF MapProgress
  <2>4. d \in Nat /\ Next(d, e, at, pos) /\ d + 1 \in 1 .. Len(Carried)
        /\ (Coming.ok => Es[d + 1].ok)
    BY <2>2 DEF Here, Next
  <2> DEFINE f == Carried[d + 1].f
             v == Carried[d + 1].v
             to == Len(MapHead(Announced)) + at[d + 1]
  <2>5. ValueIs(f, v, Es[d + 1].ok, to)
    BY <1>1, <1>3, <2>3, <2>4, NameIs
  <2>6. \A j \in 1 .. Len(into) : ~IsFor(into[j], d + 1)
    BY <1>1, <1>5, <2>5 DEF ValueIs, IsFor
  <2>7. ~IsKnown(d + 1)
    BY <2>6 DEF IsKnown
  <2>8. Whole /\ Coming.ok /\ Scannable(d + 1)
    BY <1>6, <2>4, <2>7 DEF Clear
  <2>9. IsMapField(f) /\ IsValue(f, v) /\ IsLinkedItem(WriteField(f, v).bytes)
    BY <1>3, <2>4, <2>8 DEF Delivered, Scannable
  <2> HIDE DEF f, v, to
  <2>10. Skipped(input, value).ok /\ Skipped(input, value).end = to /\ to \in value .. Len(input)
    BY <1>3, <2>5, <2>8, <2>9, UnknownRead
  <2>11. name.n \in Nat /\ value \in 0 .. Len(input) /\ value = pos + name.n
    BY <2>5 DEF ValueIs, value
  <2>12. Len(input) \in Nat
    BY <1>3, LenProperties DEF Delivered
  <2>13. pos' = to /\ pos' \in 0 .. Len(input) /\ bytesRead' = pos'
    <3>1. pos' = to /\ to \in 0 .. Len(input)
      BY <1>1, <2>10, <2>11, <2>12
    <3>2. PICK a \in Nat, b \in Nat, c \in Nat : a = pos /\ b = name.n /\ c = to
      BY <2>3, <2>11, <3>1
    <3>3. bytesRead' = (a + b) + (c - (a + b))
      BY <1>1, <2>3, <2>10, <2>11, <3>2
    <3>4. (a + b) + (c - (a + b)) = c
      OBVIOUS
    <3>5. QED BY <3>1, <3>2, <3>3, <3>4
  <2>14. Es[d + 1].ok /\ IsReadable(d + 1)
    BY <2>4, <2>7, <2>8 DEF IsReadable
  <2>15. Len(u') = Len(into) /\ u' = [y \in 1 .. Len(into) |-> u'[y]]
    BY <1>1, <2>3
  <2>16. \A y \in 1 .. Len(into) :
           u'[y] = IF IsFor(into[y], d + 1) THEN Now(into[y], Carried[d + 1].v, u[y]) ELSE u[y]
    BY <1>1, <2>6
  <2>17. pos' = Len(MapHead(Announced)) + at[d + 1]
    BY <2>13 DEF to
  <2>18. QED BY <1>1, <1>3, <2>1, <2>2, <2>13, <2>14, <2>15, <2>16, <2>17, EntryDone
<1>7. QED BY <1>1, <1>2, <1>4, <1>6 DEF MapReads

LEMMA UnknownPanicsHolds ==
  ASSUME MapSends, MapReads, UnknownPanics
  PROVE  MapReads'
<1>1. /\ UNCHANGED <<sent, t, out, entries, input, into>> /\ state = "unmarshal" /\ left > 0 /\ name.ok
      /\ state' = "panic" /\ Panicked(Skipped(input, value))
      /\ \A j \in DOMAIN into : into[j].key # name.v
  BY DEF UnknownPanics
<1>2. Delivered /\ DOMAIN into = 1 .. Len(into)
  <2>1. out # << CborNull >>
    BY <1>1 DEF MapReads
  <2>2. QED BY <1>1, <2>1, DeliveredIs DEF MapReceives, MapSends, MapTyped
<1>3. ~Clear
  <2>1. SUFFICES ASSUME Clear PROVE FALSE
    OBVIOUS
  <2>2. MapProgress
    BY <1>1, <2>1 DEF MapReads
  <2>3. PICK d, e, at : Here(d, e, at)
    BY <1>1, <1>2, <2>2, NextIsHere
  <2>4. d \in Nat /\ Next(d, e, at, pos) /\ d + 1 \in 1 .. Len(Carried)
        /\ (Coming.ok => Es[d + 1].ok)
    BY <2>3 DEF Here, Next
  <2> DEFINE f == Carried[d + 1].f
             v == Carried[d + 1].v
             to == Len(MapHead(Announced)) + at[d + 1]
  <2>5. ValueIs(f, v, Es[d + 1].ok, to)
    BY <1>1, <1>2, <2>2, <2>4, NameIs DEF MapProgress
  <2>6. \A j \in 1 .. Len(into) : ~IsFor(into[j], d + 1)
    BY <1>1, <1>2, <2>5 DEF ValueIs, IsFor
  <2>7. Whole /\ Coming.ok /\ Scannable(d + 1)
    BY <2>1, <2>4, <2>6 DEF Clear, IsKnown
  <2>8. Es[d + 1].ok /\ IsMapField(f) /\ IsValue(f, v) /\ IsLinkedItem(WriteField(f, v).bytes)
    BY <1>2, <2>4, <2>7 DEF Delivered, Scannable
  <2> HIDE DEF f, v, to
  <2>9. Skipped(input, value).ok
    BY <1>2, <2>5, <2>7, <2>8, UnknownRead
  <2>10. QED BY <1>1, <2>9 DEF Panicked
<1>4. Clear' = Clear
  BY <1>1, ReadFrozen
<1>5. QED BY <1>1, <1>3, <1>4 DEF MapReads

LEMMA MapOpeningHolds ==
  ASSUME MapSends, MapReads, UnmarshalMapHeader
  PROVE  MapReads'
<1> DEFINE hd == CborReadHeaderBuf(input, 0)
<1>1. /\ UNCHANGED <<sent, t, out, entries, input, into>> /\ state = "arrived"
      /\ u' = [j \in DOMAIN into |-> Zero(into[j])]
      /\ pos' = IF hd.ok THEN hd.n ELSE 0
      /\ bytesRead' = IF hd.ok THEN hd.n ELSE 0
      /\ left' = hd.extra
      /\ state' = IF IsStruct(hd) THEN "unmarshal" ELSE "error"
  BY DEF UnmarshalMapHeader, BeginMap
<1>2. /\ Clear' = Clear /\ Whole' = Whole /\ Coming' = Coming /\ Carried' = Carried /\ Announced' = Announced
      /\ Es' = Es
  BY <1>1, ReadFrozen
<1>3. PICK o \in Nat : o = 0
  OBVIOUS
<1>4. input \in Seq(Byte)
  <2>1. CASE out = << CborNull >>
    <3>1. << CborNull >> \in Seq(Byte)
      BY NullHeld
    <3>2. AsWritten \/ WholeArrives
      BY <1>1 DEF MapSends, MapSending, MapReceives
    <3>3. QED BY <2>1, <3>1, <3>2 DEF AsWritten, WholeArrives
  <2>2. CASE out # << CborNull >>
    BY <1>1, <2>2, DeliveredIs DEF MapReceives, Delivered
  <2>3. QED BY <2>1, <2>2
<1>5. ASSUME hd.ok PROVE hd.n \in Nat /\ hd.extra \in Nat /\ hd.n \in 0 .. Len(input)
  <2>1. hd.n \in Nat /\ hd.extra \in Arguments /\ o + hd.n <= Len(input)
    BY <1>3, <1>4, <1>5, HeaderRead
  <2>2. Len(input) \in Nat
    BY <1>4, LenProperties
  <2>3. PICK k \in Nat : k = hd.n
    BY <2>1
  <2>4. hd.extra \in Nat
    BY <2>1, CodecSizes
  <2>5. o + k <= Len(input)
    BY <2>1, <2>3
  <2>6. k <= Len(input)
    BY <1>3, <2>2, <2>5
  <2>7. QED BY <2>2, <2>3, <2>4, <2>6
<1>6. CASE out = << CborNull >>
  <2>1. ~IsStruct(hd)
    <3>1. AsWritten \/ WholeArrives
      BY <1>1 DEF MapSends, MapSending, MapReceives
    <3>2. ~MapSent(TRUE) /\ ~MapSent(FALSE)
      <4>1. TRUE \in BOOLEAN /\ FALSE \in BOOLEAN
        OBVIOUS
      <4>2. QED BY <1>6, <4>1, SentHolds DEF MapSends
    <3>3. input = << CborNull >>
      BY <1>6, <3>1, <3>2 DEF AsWritten, WholeArrives, MapAllSent
    <3>4. hd.ok => hd.maj # MajMap
      <4>1. ASSUME hd.ok, hd.maj = MajMap PROVE FALSE
        <5>1. CborReadHeaderBuf(input, o).ok /\ CborReadHeaderBuf(input, o).maj # MajOther
          BY <1>3, <4>1 DEF MajMap, MajOther
        <5>2. input[o + 1] # CborNull
          BY <1>4, <5>1, NotNull
        <5>3. QED BY <1>3, <3>3, <5>2
      <4>2. QED BY <4>1
    <3>5. QED BY <3>4 DEF IsStruct
  <2>2. QED BY <1>1, <1>6, <2>1 DEF MapReads
<1>7. CASE out # << CborNull >>
  <2>1. Delivered
    BY <1>1, <1>7, DeliveredIs DEF MapReceives
  <2>2. /\ Ahead \in Seq(Byte) /\ Holds(Ahead, 0, Coming.bytes)
        /\ Agree(input, 0, Ahead, 0, Len(input)) /\ Coming.bytes \in Seq(Byte)
        /\ MapHead(Announced) \in Seq(Byte) /\ Announced \in Nat /\ Announced \in Arguments
    BY <2>1, AheadIs DEF Delivered
  <2>3. PICK e, at : LaidOut(e, at)
    BY <2>1, LaidOutSo
  <2>4. Laid(Coming.bytes, MapHead(Announced), Es, e, at)
    BY <2>3 DEF LaidOut, ChainTo
  <2>5. Holds(Ahead, o, MapHead(Announced))
    BY <1>3, <2>2, <2>4 DEF Laid
  <2>6. CborReadHeaderBuf(Ahead, 0) = Header(MajMap, Announced, Len(MapHead(Announced)))
    <3>1. CborReadHeaderBuf(Ahead, o) = Header(MajMap, Announced, Len(MapHead(Announced)))
      BY <2>2, <2>5, MapHeadIs, HeaderComesBack DEF MapHead
    <3>2. QED BY <1>3, <3>1
  <2>7. ASSUME hd.ok PROVE hd = Header(MajMap, Announced, Len(MapHead(Announced)))
    <3>1. Len(input) \in Nat /\ hd.n <= Len(input)
      BY <1>4, <1>5, <2>7, LenProperties
    <3>2. CborReadHeaderBuf(Ahead, 0) = hd
      BY <1>4, <2>2, <2>7, <3>1, HeaderAgrees
    <3>3. QED BY <2>6, <3>2
  <2>8. ASSUME IsStruct(hd) PROVE MapProgress' /\ left' \in Nat
    <3>1. hd.ok /\ hd.extra = Announced /\ hd.n = Len(MapHead(Announced))
      BY <2>7, <2>8 DEF IsStruct, Header
    <3>2. left' = Announced /\ pos' = Len(MapHead(Announced)) /\ bytesRead' = pos' /\ pos' \in 0 .. Len(input)
          /\ pos' \in Nat
      BY <1>1, <1>5, <3>1
    <3>3. DOMAIN into = 1 .. Len(into) /\ Len(into) \in Nat
      BY DEF MapSends, MapTyped
    <3>4. u' = [j \in 1 .. Len(into) |-> Zero(into[j])] /\ Len(u') = Len(into) /\ u' = [j \in 1 .. Len(into) |-> u'[j]]
      BY <1>1, <3>3
    <3>5. Announced - left' = 0 /\ left' \in 0 .. Announced
      BY <2>2, <3>2
    <3>6. at[0] = 0 /\ e \in 0 .. Len(Carried) /\ Len(Carried) \in Nat
      BY <2>1, <2>3, <2>4, AheadIs DEF Laid, LaidOut
    <3>7. LaidOut(e, at)'
      BY <1>2, <2>3 DEF LaidOut
    <3>8. ReadTo(0)'
      <4>1. ASSUME NEW j \in 1 .. Len(into) PROVE HasLatest(j, 0, 0)'
        <5>1. u'[j] = Zero(into[j]) /\ into' = into
          BY <1>1, <3>4
        <5>2. QED BY <5>1 DEF HasLatest
      <4>2. 0 \in 0 .. 0 /\ (\A k : k \notin 1 .. 0)
        OBVIOUS
      <4>3. QED BY <1>1, <4>1, <4>2 DEF ReadTo
    <3>9. pos' = Len(MapHead(Announced')) + at[Announced' - left']
      BY <1>2, <3>2, <3>5, <3>6
    <3>10. Announced' - left' = 0 /\ 0 <= e
      BY <1>2, <3>5, <3>6
    <3>11. QED BY <1>1, <1>2, <3>2, <3>4, <3>5, <3>7, <3>8, <3>9, <3>10 DEF MapProgress
  <2>9. ASSUME Whole, Announced <= MaxLength PROVE IsStruct(hd)
    <3>1. hd = Header(MajMap, Announced, Len(MapHead(Announced)))
      BY <2>6, <2>9 DEF Ahead
    <3>2. QED BY <2>9, <3>1 DEF IsStruct, Header
  <2>10. QED BY <1>1, <1>2, <1>7, <2>8, <2>9 DEF MapReads
<1>8. QED BY <1>6, <1>7

LEMMA MapDoneHolds ==
  ASSUME MapSends, MapReads, UnmarshalMapEnd
  PROVE  MapReads'
<1>1. UNCHANGED <<sent, t, out, entries, input, into, pos, u, bytesRead, left>>
      /\ state = "unmarshal" /\ state' = "ok" /\ left = 0
  BY DEF UnmarshalMapEnd
<1>2. /\ Clear' = Clear /\ Coming' = Coming /\ Carried' = Carried /\ Announced' = Announced /\ Es' = Es
  BY <1>1, ReadFrozen
<1>3. ASSUME MapProgress PROVE MapProgress'
  <2>1. ReadTo(Announced - left)' = ReadTo(Announced - left)
    BY <1>1, <1>2 DEF ReadTo, IsReadable, IsKnown, IsFor, HasLatest, SetsField
  <2>2. \A e, at : LaidOut(e, at)' = LaidOut(e, at)
    BY <1>2 DEF LaidOut
  <2>3. QED BY <1>1, <1>2, <1>3, <2>1, <2>2 DEF MapProgress
<1>4. QED BY <1>1, <1>2, <1>3 DEF MapReads

MapIInv == MapSends /\ MapReads

LEMMA MapStepHolds == MapIInv /\ [MapNext]_mapVars => MapIInv'
<1> SUFFICES ASSUME MapIInv, [MapNext]_mapVars PROVE MapIInv'
  OBVIOUS
<1>0. MapSends /\ MapReads
  BY DEF MapIInv
<1>1. MapSends'
  BY <1>0, MapSendsStep
<1>2. CASE MarshalMapNil \/ MarshalMapHeader \/ MarshalMapField \/ MarshalMapEnd \/ ArriveMap
  <2>1. state' \notin {"unmarshal", "ok", "error", "panic"}
    BY <1>2 DEF MarshalMapNil, MarshalMapHeader, MarshalMapField, MarshalMapEnd, ArriveMap, Put
  <2>2. QED BY <1>1, <2>1 DEF MapIInv, MapReads
<1>3. CASE UnmarshalMapHeader
  BY <1>0, <1>1, <1>3, MapOpeningHolds DEF MapIInv
<1>4. CASE BadName
  BY <1>0, <1>1, <1>4, BadNameHolds DEF MapIInv
<1>5. CASE Known
  BY <1>0, <1>1, <1>5, KnownHolds DEF MapIInv
<1>6. CASE Unknown
  BY <1>0, <1>1, <1>6, UnknownHolds DEF MapIInv
<1>7. CASE UnknownPanics
  BY <1>0, <1>1, <1>7, UnknownPanicsHolds DEF MapIInv
<1>8. CASE UnmarshalMapEnd
  BY <1>0, <1>1, <1>8, MapDoneHolds DEF MapIInv
<1>9. CASE UNCHANGED mapVars
  <2>1. UNCHANGED <<sent, t, out, entries, input, pos, into, u, bytesRead, left, state>>
    BY <1>9 DEF mapVars
  <2>2. /\ Clear' = Clear /\ Coming' = Coming /\ Carried' = Carried /\ Announced' = Announced /\ Es' = Es
        /\ Whole' = Whole
    BY <2>1, ReadFrozen
  <2>3. ReadTo(Announced - left)' = ReadTo(Announced - left)
    BY <2>1, <2>2 DEF ReadTo, IsReadable, IsKnown, IsFor, HasLatest, SetsField
  <2>4. \A e, at : LaidOut(e, at)' = LaidOut(e, at)
    BY <2>2 DEF LaidOut
  <2>5. MapProgress' = MapProgress
    BY <2>1, <2>2, <2>3, <2>4 DEF MapProgress
  <2>6. (\E k \in 1 .. Len(Carried) : ~IsReadable(k))' = (\E k \in 1 .. Len(Carried) : ~IsReadable(k))
    BY <2>1, <2>2 DEF IsReadable, IsKnown, IsFor
  <2>7. MapReads'
    BY <1>0, <2>1, <2>2, <2>5, <2>6 DEF MapReads
  <2>8. QED BY <1>1, <2>7 DEF MapIInv
<1>10. QED BY <1>2, <1>3, <1>4, <1>5, <1>6, <1>7, <1>8, <1>9 DEF MapNext

LEMMA MapAlways == MapSpec => []MapIInv
<1>1. MapInit => MapIInv
  <2>1. MapInit => state = "new"
    BY DEF MapInit
  <2>2. QED BY <2>1, MapInitHolds DEF MapIInv, MapReads
<1>2. QED BY <1>1, MapStepHolds, PTL DEF MapSpec

-----------------------------------------------------------------------------

\* When all has been read: it was written without error, it was all there, each field
\* has what the latest entry for it says, and no entry was one its decoder refuses.
LEMMA MapAllRead ==
  ASSUME MapIInv, state = "ok", Clear
  PROVE  /\ out # << CborNull >> /\ ~MapRefusal
         /\ pos = Len(Message(entries)) /\ bytesRead = pos /\ pos <= Len(input)
         /\ Carried = entries /\ Announced = Len(entries) /\ Len(entries) \in Nat
         /\ ReadTo(Len(entries)) /\ Len(u) = Len(into)
<1>1. /\ out # << CborNull >> /\ MapProgress /\ left = 0
  BY DEF MapIInv, MapReads
<1>2. Delivered
  BY <1>1, DeliveredIs DEF MapIInv, MapReceives
<1>3. Announced \in Nat /\ Len(Carried) \in Nat /\ Announced - left = Announced
  BY <1>1, <1>2, AheadIs
<1>4. PICK e, at : LaidOut(e, at) /\ Announced <= e /\ pos = Len(MapHead(Announced)) + at[Announced]
  BY <1>1, <1>3 DEF MapProgress
<1>5. /\ e \in 0 .. Len(Carried) /\ Len(Carried) \in 0 .. Announced
      /\ Laid(Coming.bytes, MapHead(Announced), Es, e, at)
      /\ ~Coming.ok => e # 0 /\ ~Es[e].ok
      /\ Coming.ok <=> ~MapRefusal
  BY <1>2, <1>4 DEF LaidOut, ChainTo, Delivered
<1>6. e = Announced
  BY <1>3, <1>4, <1>5
<1>7. ReadTo(Announced) /\ bytesRead = pos /\ pos \in 0 .. Len(input) /\ Len(u) = Len(into)
  BY <1>1, <1>3 DEF MapProgress
<1>8. Coming.ok
  <2>1. ~Coming.ok => e \in 1 .. Announced
    BY <1>3, <1>5, <1>6
  <2>2. QED BY <1>5, <1>7, <2>1 DEF ReadTo
<1>9. ~MapRefusal
  BY <1>5, <1>8
<1>10. pos = Len(Coming.bytes)
  BY <1>4, <1>5, <1>6 DEF Laid
<1>11. entries = [k \in 1 .. Len(entries) |-> entries[k]]
  <2>1. AsWritten \/ WholeArrives
    BY DEF MapIInv, MapSends, MapSending, MapReceives
  <2>2. ~AsWritten
    <3>1. ~MapSent(FALSE)
      <4>1. FALSE \in BOOLEAN
        OBVIOUS
      <4>2. QED BY <1>9, <4>1, SentHolds DEF MapIInv, MapSends
    <3>2. QED BY <1>1, <3>1 DEF AsWritten, MapNilSent
  <2>3. QED BY <2>1, <2>2 DEF WholeArrives, Carries
<1>12. Carried = entries /\ Announced = Len(entries) /\ Coming.bytes = Message(entries)
  BY <1>9, <1>11, MessageIs
<1>13. QED BY <1>1, <1>3, <1>7, <1>9, <1>10, <1>12

\* A whole message is one that was written without error.
LEMMA MapArrivedIs ==
  ASSUME MapIInv, MapArrived
  PROVE  /\ Delivered /\ Whole /\ Coming.ok /\ ~MapRefusal /\ WholeArrives
         /\ Carried = entries /\ Announced = Len(entries) /\ Coming.bytes = Message(entries)
         /\ Len(entries) \in Nat /\ DOMAIN entries = 1 .. Len(entries)
<1>1. /\ MapTyped /\ MapMarshals /\ (AsWritten \/ WholeArrives) /\ MapReceives /\ out # << CborNull >>
      /\ Begins(input, Message(entries))
  BY DEF MapArrived, MapIInv, MapSends, MapSending, MapReceives
<1>2. Delivered
  BY <1>1, DeliveredIs DEF MapIInv
<1>3. TRUE \in BOOLEAN /\ FALSE \in BOOLEAN
  OBVIOUS
<1>4. ~AsWritten
  <2>1. SUFFICES ASSUME AsWritten PROVE FALSE
    OBVIOUS
  <2>2. MapSent(FALSE) /\ input = out /\ entries = << >>
    BY <1>1, <2>1 DEF AsWritten, MapNilSent
  <2>3. MapRefusal /\ out \in Seq(Byte) /\ Holds(out, 0, MapHead(Len(sent)))
    BY <1>1, <1>3, <2>2, SentHolds
  <2>4. Len(sent) \in Arguments /\ Len(sent) # 0
    <3>1. Len(sent) \in Arguments /\ Len(t) \in 0 .. Len(sent) /\ t = [j \in 1 .. Len(t) |-> t[j]]
      BY <1>1 DEF MapTyped, MapMarshals
    <3>2. Len(sent) \in Nat
      BY <3>1, MapHeadIs
    <3>3. DOMAIN t = 1 .. Len(t) /\ \E j \in DOMAIN t : TRUE
      BY <2>3, <3>1 DEF MapRefusal
    <3>4. QED BY <3>1, <3>2, <3>3
  <2>5. 0 \in Arguments
    BY CodecSizes
  <2> DEFINE ws == [k \in DOMAIN entries |-> Entry(entries[k].f, entries[k].v)]
             w == All(MapHead(0), ws)
  <2>6. Message(entries) = w.bytes /\ Len(ws) = 0 /\ DOMAIN entries = 1 .. 0
    BY <2>2 DEF Message, MapHead
  <2>7. MapHead(0) \in Seq(Byte) /\ 0 \in Nat
    BY <2>5, MapHeadIs
  <2>8. Chain(w, MapHead(0), ws, 0)
    <3>1. \A j \in 1 .. 0 : ws[j].bytes \in Seq(Byte) /\ ws[j].ok \in BOOLEAN
      OBVIOUS
    <3>2. Len(ws) = 0 /\ w = All(MapHead(0), ws)
      BY <2>6
    <3> HIDE DEF ws, w
    <3>3. PICK o \in Nat : o = 0
      OBVIOUS
    <3>4. PICK head \in Seq(Byte) : head = MapHead(0)
      BY <2>7
    <3>5. Len(ws) = o /\ \A j \in 1 .. o : ws[j].bytes \in Seq(Byte) /\ ws[j].ok \in BOOLEAN
      BY <3>1, <3>2, <3>3
    <3>6. Chain(All(head, ws), head, ws, o)
      BY <3>5, AllChain, Zenon
    <3>7. QED BY <3>2, <3>3, <3>4, <3>6
  <2> HIDE DEF w
  <2>9. PICK n \in Nat : n = Len(w.bytes) /\ w.bytes \in Seq(Byte)
    BY <2>8, LenProperties DEF Chain
  <2>10. PICK o \in Nat : o = 0 /\ o + 1 = 1 /\ o + n = n
    BY <2>9
  <2>11. Holds(out, o, w.bytes)
    <3>1. n <= Len(out) /\ SubSeq(out, o + 1, o + n) = w.bytes /\ o + n <= Len(out)
      BY <1>1, <2>2, <2>6, <2>9, <2>10 DEF Begins
    <3>2. Holds(out, o, SubSeq(out, o + 1, o + n))
      BY <2>3, <3>1, HeldSlice
    <3>3. QED BY <3>1, <3>2, Zenon
  <2>12. Holds(out, o, MapHead(0))
    BY <2>3, <2>8, <2>10, <2>11 DEF Chain, ChainTo, Laid
  <2>13. CborReadHeaderBuf(out, o) = Header(MajMap, 0, Len(MapHead(0)))
    BY <2>3, <2>5, <2>12, MapHeadIs, HeaderComesBack DEF MapHead
  <2>14. CborReadHeaderBuf(out, o) = Header(MajMap, Len(sent), Len(MapHead(Len(sent))))
    <3>1. Holds(out, o, MapHead(Len(sent)))
      BY <2>3, <2>10
    <3>2. QED BY <2>3, <2>4, <3>1, MapHeadIs, HeaderComesBack DEF MapHead
  <2>15. CborReadHeaderBuf(out, o).extra = 0 /\ CborReadHeaderBuf(out, o).extra = Len(sent)
    BY <2>13, <2>14 DEF Header
  <2>16. QED BY <2>4, <2>15
<1>5. WholeArrives
  BY <1>1, <1>4
<1>6. ~MapRefusal
  BY <1>1, <1>3, <1>5, SentHolds DEF WholeArrives, MapAllSent
<1>7. entries = [k \in 1 .. Len(entries) |-> entries[k]] /\ Len(entries) \in Nat
  <2>1. Len(entries) \in Arguments /\ entries = [k \in 1 .. Len(entries) |-> entries[k]]
    BY <1>5 DEF WholeArrives, Carries
  <2>2. QED BY <2>1, MapHeadIs
<1>8. Carried = entries /\ Announced = Len(entries) /\ Coming.bytes = Message(entries)
  BY <1>6, <1>7, MessageIs
<1>9. Whole
  BY <1>1, <1>8 DEF Whole
<1>10. Coming.ok
  BY <1>2, <1>6 DEF Delivered
<1>11. DOMAIN entries = 1 .. Len(entries)
  BY <1>7
<1>12. QED BY <1>2, <1>5, <1>6, <1>7, <1>8, <1>9, <1>10, <1>11

-----------------------------------------------------------------------------

\* What is written of a field is an item for the scan of links.

\* The k items of s after the first p bytes end at e.
Count(s, p, k, e) == ItemsIn(LinkedHeads(s))[p][k].ok /\ ItemsIn(LinkedHeads(s))[p][k].end = e

\* The bytes b are k items, with valid links in them, wherever they are held.
IsRow(b, k) == \A s \in Seq(Byte), p \in Nat : Holds(s, p, b) => Count(s, p, k, p + Len(b))

LEMMA CountNone ==
  ASSUME NEW s \in Seq(Byte), NEW p \in 0 .. Len(s)
  PROVE  Count(s, p, 0, p)
<1>1. IsHeads(Seq(Byte), Len(s), LinkedHeads(s)) /\ Len(s) \in Nat
  BY LinkedHeadsType, LenProperties
<1>2. Counts(ItemsIn(LinkedHeads(s)), LinkedHeads(s), Len(s))
  BY <1>1, CountsAsNested
<1>3. ItemsIn(LinkedHeads(s))[p][0] = Ends(p, << >>)
  BY <1>2 DEF Counts
<1>4. QED BY <1>3 DEF Count, Ends

LEMMA CountMore ==
  ASSUME NEW s \in Seq(Byte), NEW p \in 0 .. Len(s), NEW q \in 0 .. Len(s), NEW e,
         NEW a \in Nat, NEW b \in Nat, Count(s, p, a, q), Count(s, q, b, e)
  PROVE  Count(s, p, a + b, e)
<1> DEFINE F == ItemsIn(LinkedHeads(s))
<1>1. IsHeads(Seq(Byte), Len(s), LinkedHeads(s)) /\ Len(s) \in Nat
  BY LinkedHeadsType, LenProperties
<1>2. F[p][a + b] = Then(F, F[p][a], b)
  <2>1. Splits(F, Len(s))
    BY <1>1, InAnyGroups
  <2>2. QED BY <2>1 DEF Splits
<1>3. F[p][a].ok /\ F[p][a].end = q /\ F[q][b].ok /\ F[q][b].end = e
  BY DEF Count
<1>4. F[p][a + b] = Behind(F[p][a].links, F[q][b])
  BY <1>2, <1>3 DEF Then
<1>5. QED BY <1>3, <1>4 DEF Behind, Count

\* A head and the items inside it are one item.
LEMMA CountHead ==
  ASSUME NEW s \in Seq(Byte), NEW p \in 0 .. Len(s), NEW q \in 0 .. Len(s), NEW k \in Nat, NEW links,
         LinkedHead(s, p) = GoodHead(q, k, links), NEW e, Count(s, q, k, e)
  PROVE  Count(s, p, 1, e)
<1> DEFINE hs == LinkedHeads(s)
           F == ItemsIn(hs)
<1>1. IsHeads(Seq(Byte), Len(s), hs) /\ Len(s) \in Nat
  BY LinkedHeadsType, LenProperties
<1>2. hs[p] = GoodHead(q, k, links)
  BY DEF LinkedHeads
<1>3. hs[p].ok /\ hs[p].end = q /\ hs[p].nested = k
  BY <1>2 DEF GoodHead
<1>4. Counts(F, hs, Len(s))
  BY <1>1, CountsAsNested
<1>5. 1 \in Nat \ {0} /\ k + (1 - 1) = k
  OBVIOUS
<1>6. F[p][1] = Behind(hs[p].links, F[hs[p].end][hs[p].nested + (1 - 1)])
  BY <1>3, <1>4, <1>5 DEF Counts
<1>7. F[p][1] = Behind(hs[p].links, F[q][k])
  BY <1>3, <1>5, <1>6
<1>8. F[q][k].ok /\ F[q][k].end = e
  BY DEF Count
<1>9. QED BY <1>7, <1>8 DEF Behind, Count

LEMMA RowIsItem ==
  ASSUME NEW b \in Seq(Byte)
  PROVE  IsRow(b, 1) <=> IsLinkedItem(b)
<1>1. PICK n \in Nat : n = Len(b)
  BY LenProperties
<1>2. 0 \in Nat /\ Holds(b, 0, b) /\ 0 + n = n
  BY <1>1 DEF Holds
<1>3. IsRow(b, 1) => IsLinkedItem(b)
  BY <1>1, <1>2 DEF IsRow, IsLinkedItem, Count, LinkedItemAt
<1>4. IsLinkedItem(b) => IsRow(b, 1)
  BY LinkedItemHeld DEF IsRow, Count, LinkedItemAt
<1>5. QED BY <1>3, <1>4

LEMMA RowNone == IsRow(<< >>, 0)
<1> SUFFICES ASSUME NEW s \in Seq(Byte), NEW p \in Nat, Holds(s, p, << >>)
             PROVE  Count(s, p, 0, p + Len(<< >>))
  BY DEF IsRow
<1>1. Len(<< >>) = 0 /\ p + 0 = p
  BY EmptySeq
<1>2. p \in 0 .. Len(s)
  BY <1>1, LenProperties DEF Holds
<1>3. QED BY <1>1, <1>2, CountNone

LEMMA RowMore ==
  ASSUME NEW a \in Seq(Byte), NEW b \in Seq(Byte), NEW k \in Nat, NEW l \in Nat, IsRow(a, k), IsRow(b, l)
  PROVE  IsRow(a \o b, k + l)
<1> SUFFICES ASSUME NEW s \in Seq(Byte), NEW p \in Nat, Holds(s, p, a \o b)
             PROVE  Count(s, p, k + l, p + Len(a \o b))
  BY DEF IsRow
<1>1. Holds(s, p, a) /\ Holds(s, p + Len(a), b)
  BY ConcatHeld
<1>2. PICK m \in Nat, n \in Nat : m = Len(a) /\ n = Len(b)
  BY LenProperties
<1>3. Len(a \o b) = m + n
  BY <1>2, ConcatProperties
<1>4. p + m \in Nat /\ (p + m) + n = p + (m + n) /\ (p + m) + n <= Len(s) /\ Len(s) \in Nat
  BY <1>1, <1>2, LenProperties DEF Holds
<1>5. p \in 0 .. Len(s) /\ p + m \in 0 .. Len(s)
  BY <1>4
<1>6. Count(s, p, k, p + m) /\ Count(s, p + m, l, (p + m) + n)
  BY <1>1, <1>2, <1>4 DEF IsRow
<1>7. QED BY <1>3, <1>4, <1>5, <1>6, CountMore

\* What is behind a header that is no tag.
Inside(maj, l, b) == IF IsString(maj) THEN Len(b) = l ELSE IsRow(b, Nested(maj, l))

LEMMA HeadedRow ==
  ASSUME NEW maj \in Majors, maj # MajTag, NEW l \in Arguments, NEW b \in Seq(Byte), Inside(maj, l, b)
  PROVE  IsRow(WriteMajorTypeHeader(maj, l) \o b, 1)
<1> DEFINE head == WriteMajorTypeHeader(maj, l)
<1> SUFFICES ASSUME NEW s \in Seq(Byte), NEW p \in Nat, Holds(s, p, head \o b)
             PROVE  Count(s, p, 1, p + Len(head \o b))
  BY DEF IsRow
<1> DEFINE hd == CborReadHeaderBuf(s, p)
<1>1. hd.ok /\ hd.maj = maj /\ hd.extra = l /\ hd.n = Len(head) /\ Holds(s, p + Len(head), b)
  BY SizedBack
<1>2. PICK m \in Nat, n \in Nat : m = Len(head) /\ n = Len(b)
  BY WriteType, LenProperties
<1>3. Len(head \o b) = m + n
  BY <1>2, SizedBytes
<1>4. p + m \in Nat /\ (p + m) + n = p + (m + n) /\ (p + m) + n <= Len(s) /\ Len(s) \in Nat /\ l \in Nat
      /\ (p + m) + 0 = p + m
  BY <1>1, <1>2, CodecSizes, LenProperties DEF Holds
<1>5. p \in 0 .. Len(s) /\ p + m \in 0 .. Len(s) /\ (p + m) + n \in 0 .. Len(s)
  BY <1>4
<1>6. LinkedHead(s, p) = ItemHead(s, p)
  BY <1>1 DEF LinkedHead
<1> DEFINE asked == Payload(maj, l)
<1>7. (p + m) + asked <= Len(s) => ItemHead(s, p) = GoodHead((p + m) + asked, Nested(maj, l), << >>)
  BY <1>1, <1>2, <1>5, ItemHeadIs
<1> HIDE DEF hd, head
<1>8. CASE IsString(maj)
  <2>1. n = l /\ asked = l /\ Nested(maj, l) = 0
    BY <1>2, <1>8 DEF Inside, Payload, Nested, IsString, MajByteString, MajTextString, MajTag, MajArray, MajMap
  <2>2. LinkedHead(s, p) = GoodHead((p + m) + n, 0, << >>)
    BY <1>4, <1>6, <1>7, <2>1
  <2>3. Count(s, (p + m) + n, 0, (p + m) + n)
    BY <1>5, CountNone
  <2>4. Count(s, p, 1, (p + m) + n)
    BY <1>5, <2>2, <2>3, 0 \in Nat, CountHead
  <2>5. QED BY <1>3, <1>4, <2>4
<1>9. CASE ~IsString(maj)
  <2>1. asked = 0 /\ Nested(maj, l) \in Nat /\ IsRow(b, Nested(maj, l))
    BY <1>4, <1>9 DEF Inside, Payload, Nested
  <2>2. LinkedHead(s, p) = GoodHead(p + m, Nested(maj, l), << >>)
    BY <1>4, <1>5, <1>6, <1>7, <2>1
  <2>3. Count(s, p + m, Nested(maj, l), (p + m) + n)
    BY <1>1, <1>2, <1>4, <2>1 DEF IsRow
  <2>4. Count(s, p, 1, (p + m) + n)
    BY <1>5, <2>1, <2>2, <2>3, CountHead
  <2>5. QED BY <1>3, <1>4, <2>4
<1>10. QED BY <1>8, <1>9
\* A header for n and n rows of c items each.
LEMMA LaidRows ==
  ASSUME NEW c \in {1, 2}, NEW n \in Nat, NEW b, NEW head, Len(head) \in Nat, NEW ws, NEW at, Laid(b, head, ws, n, at),
         \A j \in 1 .. n : ws[j].bytes \in Seq(Byte) /\ IsRow(ws[j].bytes, c),
         NEW s \in Seq(Byte), NEW p \in Nat, Holds(s, p, b)
  PROVE  Count(s, p + Len(head), c * n, p + Len(b))
<1> DEFINE base == p + Len(head)
           S == { j \in 0 .. n : Count(s, base, c * j, base + at[j]) }
<1>1. /\ at \in [0 .. n -> Nat] /\ at[0] = 0 /\ Len(b) = Len(head) + at[n]
      /\ \A j \in 1 .. n : at[j] = at[j - 1] + Len(ws[j].bytes)
      /\ \A j \in 1 .. n : Holds(s, base + at[j - 1], ws[j].bytes)
  BY DEF Laid
<1>2. Len(s) \in Nat /\ base \in Nat /\ base + at[0] = base /\ c * 0 = 0 /\ p + Len(b) = base + at[n]
      /\ p + Len(b) <= Len(s)
  BY <1>1, LenProperties DEF Holds
<1>3. base \in 0 .. Len(s)
  BY <1>1, <1>2
<1> HIDE DEF base
<1>4. 0 \in S
  BY <1>1, <1>2, <1>3, CountNone
<1>5. ASSUME NEW j \in 0 .. (n - 1), j \in S PROVE j + 1 \in S
  <2>1. j + 1 \in 1 .. n /\ (j + 1) - 1 = j /\ j \in 0 .. n /\ j + 1 \in 0 .. n
    OBVIOUS
  <2>2. PICK a \in Nat, l \in Nat : a = at[j] /\ l = Len(ws[j + 1].bytes)
    BY <1>1, <2>1, LenProperties
  <2>3. at[j + 1] = a + l /\ Holds(s, base + a, ws[j + 1].bytes)
    BY <1>1, <2>1, <2>2
  <2>4. base + a \in Nat /\ (base + a) + l = base + (a + l) /\ (base + a) + l <= Len(s)
    <3>1. (base + a) + Len(ws[j + 1].bytes) <= Len(s)
      BY <2>3 DEF Holds
    <3>2. (base + a) + l <= Len(s)
      BY <2>2, <3>1
    <3>3. PICK o \in Nat, z \in Nat : o = base /\ z = Len(s)
      BY <1>2
    <3>4. o + a \in Nat /\ (o + a) + l = o + (a + l)
      <4>1. \A x, y \in Nat : o + x \in Nat /\ (o + x) + y = o + (x + y)
        BY <3>3
      <4>2. a \in Nat /\ l \in Nat
        BY <2>2
      <4>3. QED BY <4>1, <4>2
    <3>5. QED BY <3>2, <3>3, <3>4
  <2>5. Count(s, base + a, c, base + (a + l))
    BY <2>1, <2>2, <2>3, <2>4 DEF IsRow
  <2>6. Count(s, base, c * j, base + a)
    BY <1>5, <2>2
  <2>7. base + a \in 0 .. Len(s) /\ c * j \in Nat /\ c \in Nat /\ c * j + c = c * (j + 1)
    <3>1. CASE c = 1
      BY <1>2, <2>4, <3>1
    <3>2. CASE c = 2
      BY <1>2, <2>4, <3>2
    <3>3. QED BY <3>1, <3>2
  <2>8. Count(s, base, c * j + c, base + (a + l))
    BY <1>3, <2>5, <2>6, <2>7, CountMore
  <2>9. QED BY <2>1, <2>3, <2>7, <2>8
<1>6. \A j \in 0 .. n : j \in S
  <2> HIDE DEF S
  <2>1. QED BY <1>4, <1>5, Upward
<1>7. n \in S
  BY <1>6
<1>8. QED BY <1>2, <1>7 DEF base

\* What is written without error is a row of k items.
Rows(w, k) == w.bytes \in Seq(Byte) /\ w.ok \in BOOLEAN /\ (w.ok => IsRow(w.bytes, k))

LEMMA AllRows ==
  ASSUME NEW maj \in {MajArray, MajMap}, NEW n \in Arguments, NEW ws, Len(ws) = n,
         \A j \in 1 .. n : Rows(ws[j], Nested(maj, 1))
  PROVE  Rows(All(WriteMajorTypeHeader(maj, n), ws), 1)
<1> DEFINE head == WriteMajorTypeHeader(maj, n)
           w == All(head, ws)
           c == Nested(maj, 1)
<1>1. maj \in Majors /\ n \in Nat
  BY CodecSizes
<1>2. head \in Seq(Byte) /\ Len(head) \in Nat
  BY <1>1, WriteType
<1>3. c \in {1, 2} /\ Nested(maj, n) = c * n /\ maj # MajTag /\ ~IsString(maj)
  BY <1>1 DEF Nested, IsString, MajByteString, MajTextString, MajTag, MajArray, MajMap
<1> HIDE DEF c
<1>4. Chain(w, head, ws, n)
  <2> HIDE DEF head
  <2>1. \A j \in 1 .. n : ws[j].bytes \in Seq(Byte) /\ ws[j].ok \in BOOLEAN
    BY DEF Rows, c
  <2>2. QED BY <1>1, <1>2, <2>1, AllChain, Zenon
<1> HIDE DEF head, w
<1>5. w.bytes \in Seq(Byte) /\ w.ok \in BOOLEAN
  BY <1>4 DEF Chain
<1>6. ASSUME w.ok PROVE IsRow(w.bytes, 1)
  <2>1. PICK e \in 0 .. n : \E at : ChainTo(w, head, ws, n, e, at)
    BY <1>4, Zenon DEF Chain
  <2>2. PICK at : ChainTo(w, head, ws, n, e, at)
    BY <2>1, Zenon
  <2>3. /\ Laid(w.bytes, head, ws, n, at) /\ e = n
        /\ \A j \in 1 .. (n - 1) : ws[j].ok
        /\ n # 0 => ws[n].ok
    BY <1>6, <2>2 DEF ChainTo
  <2>4. \A j \in 1 .. n : ws[j].ok
    <3>1. \A j \in 1 .. n : j \in 1 .. (n - 1) \/ (j = n /\ n # 0)
      BY <1>1
    <3>2. QED BY <2>3, <3>1
  <2>5. \A j \in 1 .. n : ws[j].bytes \in Seq(Byte) /\ IsRow(ws[j].bytes, c)
    BY <2>4 DEF Rows, c
  <2> SUFFICES ASSUME NEW s \in Seq(Byte), NEW p \in Nat, Holds(s, p, w.bytes)
               PROVE  Count(s, p, 1, p + Len(w.bytes))
    BY DEF IsRow
  <2>6. Count(s, p + Len(head), c * n, p + Len(w.bytes))
    BY <1>1, <1>2, <1>3, <2>3, <2>5, LaidRows
  <2>7. Holds(s, p, head)
    BY <2>3 DEF Laid
  <2> DEFINE hd == CborReadHeaderBuf(s, p)
  <2>8. hd.ok /\ hd.maj = maj /\ hd.extra = n /\ hd.n = Len(head)
    BY <1>1, <2>7, HeaderComesBack DEF head, Header
  <2>9. PICK m \in Nat : m = Len(head) /\ p \in 0 .. Len(s) /\ p + m \in 0 .. Len(s) /\ (p + m) + 0 = p + m
    <3>1. PICK m \in Nat : m = Len(head)
      BY <1>2
    <3>2. p + Len(head) <= Len(s) /\ Len(s) \in Nat
      BY <2>7, LenProperties DEF Holds
    <3>3. p \in 0 .. Len(s) /\ p + m \in 0 .. Len(s) /\ (p + m) + 0 = p + m
      BY <3>1, <3>2
    <3>4. QED BY <3>1, <3>3
  <2>10. LinkedHead(s, p) = ItemHead(s, p)
    BY <1>3, <2>8 DEF LinkedHead
  <2>11. Payload(maj, n) = 0
    BY <1>3 DEF Payload
  <2>12. ItemHead(s, p) = GoodHead((p + m) + 0, Nested(maj, n), << >>)
    <3>1. hd.ok /\ (p + hd.n) + Payload(hd.maj, hd.extra) <= Len(s)
      BY <2>8, <2>9, <2>11
    <3>2. ItemHead(s, p) = GoodHead((p + hd.n) + Payload(hd.maj, hd.extra), Nested(hd.maj, hd.extra), << >>)
      BY <2>9, <3>1, ItemHeadIs
    <3>3. QED BY <2>8, <2>9, <2>11, <3>2
  <2>13. LinkedHead(s, p) = GoodHead(p + m, c * n, << >>)
    BY <1>3, <2>9, <2>10, <2>12
  <2>14. c * n \in Nat
    <3>1. CASE c = 1
      BY <1>1, <3>1
    <3>2. CASE c = 2
      BY <1>1, <3>2
    <3>3. QED BY <1>3, <3>1, <3>2
  <2>15. Count(s, p + m, c * n, p + Len(w.bytes))
    BY <2>6, <2>9
  <2>16. QED BY <2>9, <2>13, <2>14, <2>15, CountHead
<1>7. QED BY <1>5, <1>6 DEF Rows, w, head

-----------------------------------------------------------------------------

\* What nothing nests in: a number, a boolean, a null.
LEMMA PlainRow ==
  ASSUME NEW maj \in {MajUnsignedInt, MajNegativeInt, MajOther}, NEW l \in Arguments
  PROVE  /\ WriteMajorTypeHeader(maj, l) \in Seq(Byte)
         /\ IsRow(WriteMajorTypeHeader(maj, l), 1)
         /\ Rows(Wrote(WriteMajorTypeHeader(maj, l)), 1)
<1> DEFINE b == WriteMajorTypeHeader(maj, l)
<1>1. maj \in Majors /\ maj # MajTag /\ ~IsString(maj) /\ Nested(maj, l) = 0
  BY CodecSizes DEF Nested, IsString, MajByteString, MajTextString, MajTag, MajArray, MajMap,
                    MajUnsignedInt, MajNegativeInt, MajOther
<1>2. b \in Seq(Byte)
  BY <1>1, WriteType
<1>3. << >> \in Seq(Byte) /\ b \o << >> = b
  BY <1>2, EmptySeq, ConcatEmptySeq
<1>4. Inside(maj, l, << >>)
  BY <1>1, RowNone DEF Inside
<1>5. IsRow(b \o << >>, 1)
  BY <1>1, <1>3, <1>4, HeadedRow
<1>6. QED BY <1>2, <1>3, <1>5 DEF Rows, Wrote

LEMMA NothingRows ==
  ASSUME NEW k
  PROVE  Rows(Refused(<< >>), k)
BY EmptySeq DEF Rows, Refused

LEMMA UintRows ==
  ASSUME NEW v \in Arguments
  PROVE  Rows(Wrote(Written(WriteUint(v))), 1)
BY PlainRow DEF Written, WriteUint

LEMMA IntRows ==
  ASSUME NEW w \in 1 .. Word, NEW v \in Ints(w)
  PROVE  Rows(Wrote(Written(WriteInt(v, w))), 1)
BY IntHeader, PlainRow DEF Written

LEMMA BoolRows ==
  ASSUME NEW v \in BOOLEAN
  PROVE  Rows(Wrote(Written(WriteBool(v))), 1)
<1>1. Written(WriteBool(v)) = WriteMajorTypeHeader(MajOther, IF v THEN True ELSE False)
  BY DEF Written, WriteBool
<1>2. (IF v THEN True ELSE False) \in Arguments
  BY CodecSizes
<1>3. QED BY <1>1, <1>2, PlainRow

LEMMA TimeRows ==
  ASSUME NEW v \in Ints(Word)
  PROVE  Rows(WriteTime(v), 1) /\ WriteTime(v).ok
<1>1. Word \in 1 .. Word
  BY Powers
<1>2. QED BY <1>1, IntRows DEF WriteTime, Wrote

LEMMA SizedRows ==
  ASSUME NEW maj \in {MajTextString, MajByteString}, NEW v \in Seq(Byte), NEW limit \in Arguments
  PROVE  Rows(WriteSized(maj, v, limit, v), 1)
<1>1. PICK n \in Nat : n = Len(v)
  BY LenProperties
<1>2. CASE n > limit
  BY <1>1, <1>2, NothingRows DEF WriteSized
<1>3. CASE ~(n > limit)
  <2>1. n \in Arguments /\ maj \in Majors
    BY <1>3, CodecSizes
  <2>2. maj # MajTag /\ IsString(maj)
    BY DEF IsString, MajTextString, MajByteString, MajTag
  <2>3. Inside(maj, n, v)
    BY <1>1, <2>2 DEF Inside
  <2>4. IsRow(WriteMajorTypeHeader(maj, n) \o v, 1) /\ WriteMajorTypeHeader(maj, n) \o v \in Seq(Byte)
    BY <2>1, <2>2, <2>3, HeadedRow, SizedBytes
  <2>5. WriteSized(maj, v, limit, v) = Wrote(WriteMajorTypeHeader(maj, n) \o v)
    BY <1>1, <1>3 DEF WriteSized
  <2>6. QED BY <2>4, <2>5 DEF Rows, Wrote
<1>4. QED BY <1>2, <1>3

LEMMA StringRows ==
  ASSUME NEW v \in Seq(Byte)
  PROVE  Rows(WriteString(v), 1) /\ Rows(WriteBytes(v), 1)
BY SizedRows, CodecSizes DEF WriteString, WriteBytes

LEMMA StructRows ==
  ASSUME NEW v \in Ints(Word)
  PROVE  Rows(WriteStruct(v), 1)
<1> DEFINE b == WriteTime(v).bytes
<1>1. b \in Seq(Byte) /\ IsRow(b, 1)
  BY TimeRows DEF Rows
<1>2. 1 \in Arguments /\ MajArray \in Majors /\ MajArray # MajTag /\ ~IsString(MajArray) /\ Nested(MajArray, 1) = 1
  <2>1. 1 \in Arguments /\ MajArray \in Majors
    BY CodecSizes
  <2>2. QED BY <2>1 DEF IsString, Nested, MajTextString, MajByteString, MajTag, MajArray, MajMap
<1>3. Inside(MajArray, 1, b)
  BY <1>1, <1>2 DEF Inside
<1>4. IsRow(WriteMajorTypeHeader(MajArray, 1) \o b, 1) /\ WriteMajorTypeHeader(MajArray, 1) \o b \in Seq(Byte)
  BY <1>1, <1>2, <1>3, HeadedRow, SizedBytes
<1>5. QED BY <1>4 DEF Rows, WriteStruct, Wrote

LEMMA NullRows == Rows(Wrote(<< CborNull >>), 1)
<1>1. << CborNull >> \in Seq(Byte) /\ Len(<< CborNull >>) = 1
  BY NullHeld
<1>2. ASSUME NEW s \in Seq(Byte), NEW p \in Nat, Holds(s, p, << CborNull >>)
      PROVE  Count(s, p, 1, p + Len(<< CborNull >>))
  <2>1. p < Len(s) /\ s[p + 1] = CborNull /\ Len(s) \in Nat
    BY <1>2, NullHeld, LenProperties
  <2>2. CborReadHeaderBuf(s, p) = Header(MajOther, Nil, 1)
    BY <2>1, NullHeader
  <2>3. p \in 0 .. Len(s) /\ p + 1 \in 0 .. Len(s) /\ (p + 1) + 0 = p + 1
    BY <2>1
  <2>4. Payload(MajOther, Nil) = 0 /\ Nested(MajOther, Nil) = 0 /\ MajOther # MajTag
    BY DEF Payload, IsString, Nested, MajTextString, MajByteString, MajTag, MajArray, MajMap, MajOther
  <2>5. ItemHead(s, p) = GoodHead(p + 1, 0, << >>)
    BY <2>2, <2>3, <2>4, ItemHeadIs DEF Header
  <2>6. LinkedHead(s, p) = ItemHead(s, p)
    BY <2>2, <2>4 DEF LinkedHead, Header
  <2>7. Count(s, p + 1, 0, p + 1)
    BY <2>3, CountNone
  <2>8. QED BY <1>1, <2>3, <2>5, <2>6, <2>7, 0 \in Nat, CountHead
<1>3. QED BY <1>1, <1>2 DEF Rows, Wrote, IsRow

LEMMA StructPointerRows ==
  ASSUME NEW e, IsPointer(Ints(Word), e)
  PROVE  Rows(WriteStructPointer(e), 1)
<1>1. CASE e = << >>
  BY <1>1, NullRows DEF WriteStructPointer
<1>2. CASE e # << >>
  BY <1>2, PointerIs, StructRows DEF WriteStructPointer
<1>3. QED BY <1>1, <1>2

LEMMA ElementsRows ==
  ASSUME NEW n \in Nat, NEW ws, Len(ws) = n, \A j \in 1 .. n : Rows(ws[j], 1)
  PROVE  Rows(WriteElements(ws), 1)
<1>1. CASE n > MaxLength
  BY <1>1, NothingRows DEF WriteElements
<1>2. CASE ~(n > MaxLength)
  <2>1. MaxLength \in Nat /\ MaxLength \in Arguments
    BY CodecSizes
  <2>6. n \in Arguments
    BY <1>2, <2>1, CodecSizes
  <2>2. Nested(MajArray, 1) = 1
    BY DEF Nested, MajTag, MajArray, MajMap
  <2>3. \A j \in 1 .. n : Rows(ws[j], Nested(MajArray, 1))
    BY <2>2
  <2>4. Rows(All(WriteMajorTypeHeader(MajArray, n), ws), 1)
    BY <2>6, <2>3, AllRows
  <2>5. QED BY <1>2, <2>4 DEF WriteElements
<1>3. QED BY <1>1, <1>2

LEMMA ZeroByte == << 0 >> \in Seq(Byte)
<1>1. MajUnsignedInt \in Majors /\ 0 \in 0 .. (LowRange - 1)
  BY CodecSizes, Sizes
<1>2. FirstByte(MajUnsignedInt, 0) = 0
  BY Sizes DEF FirstByte, MajUnsignedInt
<1>3. 0 \in Byte
  BY <1>1, <1>2, FirstByteType
<1>4. QED BY <1>3

LEMMA CidRows ==
  ASSUME NEW c, IsCidValue(c), c # << >> => Len(c) + 1 \in 1 .. MaxLink
  PROVE  Rows(WriteCid(c), 1)
<1> DEFINE tag == WriteMajorTypeHeader(MajTag, LinkTag)
           z   == << 0 >> \o c
<1>1. MajTag \in Majors /\ LinkTag \in Arguments /\ tag \in Seq(Byte) /\ Len(tag) \in Nat \ {0}
  BY CodecSizes, WriteType
<1>2. CASE c = << >>
  BY <1>1, <1>2 DEF WriteCid, Rows, Refused
<1>3. CASE c # << >>
  <2>1. c \in Seq(Byte) /\ IsCid(c) /\ Len(c) < MaxCid /\ Len(c) + 1 \in 1 .. MaxLink
    BY <1>3 DEF IsCidValue
  <2>8. MajByteString \in Majors /\ Len(c) + 1 \in Arguments /\ z \in Seq(Byte) /\ Len(z) = Len(c) + 1 /\ Tail(z) = c
    BY <2>1, CidBytes
  <2>9. PICK l \in Arguments : l = Len(c) + 1
    BY <2>8
  <2> DEFINE str == WriteMajorTypeHeader(MajByteString, l)
  <2>2. MajByteString \in Majors /\ l \in Arguments /\ z \in Seq(Byte) /\ Len(z) = l /\ Tail(z) = c /\ l \in 1 .. MaxLink
    BY <2>1, <2>8, <2>9
  <2>3. str \in Seq(Byte) /\ Len(str) \in Nat \ {0} /\ str \o z \in Seq(Byte) /\ Len(str \o z) = Len(str) + l
    BY <2>2, WriteType, SizedBytes
  <2> DEFINE b == tag \o (str \o z)
  <2>4. b \in Seq(Byte) /\ Len(b) = Len(tag) + Len(str \o z)
    BY <1>1, <2>3, SizedBytes
  <2>5. WriteCid(c) = Wrote(b)
    <3>1. WriteCid(c) = Wrote(((tag \o str) \o << 0 >>) \o c)
      BY <1>3, <2>9 DEF WriteCid
    <3> DEFINE y == << 0 >>
    <3>2. y \in Seq(Byte)
      BY ZeroByte
    <3> HIDE DEF tag, str, y
    <3>3. tag \o str \in Seq(Byte) /\ y \o c \in Seq(Byte)
      BY <1>1, <2>1, <2>3, <3>2, ConcatProperties
    <3>4. ((tag \o str) \o y) \o c = (tag \o str) \o (y \o c)
      BY <2>1, <3>2, <3>3, Joined, Zenon
    <3>5. (tag \o str) \o (y \o c) = tag \o (str \o (y \o c))
      BY <1>1, <2>3, <3>3, Joined, Zenon
    <3>6. QED BY <3>1, <3>4, <3>5 DEF y
  <2>6. ASSUME NEW s \in Seq(Byte), NEW p \in Nat, Holds(s, p, b)
        PROVE  Count(s, p, 1, p + Len(b))
    <3> DEFINE hd   == CborReadHeaderBuf(s, p)
    <3>1. hd.ok /\ hd.maj = MajTag /\ hd.extra = LinkTag /\ hd.n = Len(tag) /\ Holds(s, p + Len(tag), str \o z)
      <4>1. PICK body \in Seq(Byte) : body = str \o z
        BY <2>3
      <4>2. Holds(s, p, tag \o body)
        BY <2>6, <4>1
      <4> HIDE DEF str, z
      <4>3. hd.ok /\ hd.maj = MajTag /\ hd.extra = LinkTag /\ hd.n = Len(tag) /\ Holds(s, p + Len(tag), body)
        BY <1>1, <4>2, SizedBack
      <4>4. QED BY <4>1, <4>3
    <3>2. PICK m \in Nat, n \in Nat : m = Len(tag) /\ n = Len(str)
      BY <1>1, <2>3
    <3>3. p + m \in Nat /\ l \in Nat /\ (p + m) + n \in Nat /\ Len(s) \in Nat
      BY <2>2, CodecSizes, LenProperties
    <3> DEFINE q == p + m
               here == CborReadHeaderBuf(s, q)
    <3>4. here.ok /\ here.maj = MajByteString /\ here.extra = l /\ here.n = n /\ Holds(s, q + n, z)
      <4>1. Holds(s, q, str \o z) /\ q \in Nat
        BY <3>1, <3>2, <3>3
      <4> HIDE DEF q, z
      <4>2. QED BY <2>2, <3>2, <4>1, SizedBack
    <3>5. (q + n) + l <= Len(s)
      BY <2>2, <3>4 DEF Holds
    <3>6. SubSeq(s, (q + n) + 1, (q + n) + l) = z
      <4>1. q + n \in Nat /\ (q + n) + Len(z) = (q + n) + l
        BY <2>2, <3>3
      <4> HIDE DEF q, z
      <4>2. QED BY <2>2, <3>4, <4>1, HeldSlice
    <3> HIDE DEF hd, here
    <3>7. LinkedHead(s, p) = LinkHead(s, q)
      BY <3>1, <3>2 DEF LinkedHead, hd
    <3> HIDE DEF q, z
    <3>8. ~((q + n) + l > Len(s))
      BY <3>3, <3>5 DEF q
    <3>9. LinkHead(s, q) = GoodHead((q + n) + l, 0, << z >>)
      <4>1. l \in 0 .. MaxLink /\ l # 0
        BY <2>1, <2>2
      <4>2. QED BY <2>1, <2>2, <3>4, <3>6, <3>8, <4>1 DEF LinkHead, here
    <3>10. p \in 0 .. Len(s) /\ (q + n) + l \in 0 .. Len(s) /\ p + Len(b) = (q + n) + l
      <4>1. Len(b) = m + (n + l)
        BY <2>3, <2>4, <3>2
      <4> HIDE DEF b
      <4>2. QED BY <3>3, <3>5, <4>1 DEF q
    <3>11. Count(s, (q + n) + l, 0, (q + n) + l)
      BY <3>10, CountNone
    <3> HIDE DEF b
    <3>12. QED BY <3>7, <3>9, <3>10, <3>11, 0 \in Nat, CountHead
  <2> HIDE DEF b
  <2>7. QED BY <2>4, <2>5, <2>6 DEF Rows, Wrote, IsRow
<1>4. QED BY <1>2, <1>3

LEMMA RawRows ==
  ASSUME NEW raw, IsRaw(raw), raw # << >> => IsLinkedItem(raw)
  PROVE  Rows(WriteRaw(raw), 1)
<1>1. CASE raw = << >>
  BY <1>1, NothingRows DEF WriteRaw
<1>2. CASE raw # << >>
  BY <1>2, RowIsItem DEF WriteRaw, IsRaw, Rows, Wrote
<1>3. QED BY <1>1, <1>2

\* The numbers of a slice.
LEMMA NumberFits ==
  ASSUME NEW w \in 1 .. Word, NEW e \in 0 .. MaxUint(w)
  PROVE  e \in Arguments
BY UintFits

LEMMA NumbersRows ==
  ASSUME NEW e, NEW n \in Nat, Len(e) = n, DOMAIN e = 1 .. n, \A j \in 1 .. n : e[j] \in Arguments
  PROVE  Rows(WriteElements([j \in DOMAIN e |-> Wrote(Written(WriteUint(e[j])))]), 1)
<1> DEFINE ws == [j \in DOMAIN e |-> Wrote(Written(WriteUint(e[j])))]
<1>1. Len(ws) = n /\ \A j \in 1 .. n : ws[j] = Wrote(Written(WriteUint(e[j])))
  OBVIOUS
<1>2. ASSUME NEW j \in 1 .. n PROVE Rows(Wrote(Written(WriteUint(e[j]))), 1)
  BY UintRows
<1> HIDE DEF ws
<1>3. \A j \in 1 .. n : Rows(ws[j], 1)
  BY <1>1, <1>2
<1>4. Rows(WriteElements(ws), 1)
  BY <1>1, <1>3, ElementsRows
<1>5. QED BY <1>4 DEF ws

LEMMA ElementRows ==
  ASSUME NEW f, f.kind \in Slices, f.kind \in Numbered => f.w \in 1 .. Word, NEW e, IsElement(f, e)
  PROVE  Rows(WriteElement(f, e), 1)
<1>1. CASE f.kind = "[]uint"
  <2>1. e \in Arguments
    BY <1>1, NumberFits DEF IsElement, Numbered
  <2>2. WriteElement(f, e) = Wrote(Written(WriteUint(e)))
    BY <1>1 DEF WriteElement
  <2>3. QED BY <2>1, <2>2, UintRows
<1>2. CASE f.kind = "[]int"
  <2>1. f.w \in 1 .. Word /\ e \in Ints(f.w)
    BY <1>2 DEF IsElement, Numbered
  <2>2. WriteElement(f, e) = Wrote(Written(WriteInt(e, f.w)))
    BY <1>2 DEF WriteElement
  <2>3. QED BY <2>1, <2>2, IntRows
<1>3. CASE f.kind = "[]bytes"
  BY <1>3, StringRows DEF IsElement, WriteElement
<1>4. CASE f.kind = "[]struct"
  BY <1>4, StructRows DEF IsElement, WriteElement
<1>5. CASE f.kind = "[]*struct"
  BY <1>5, StructPointerRows DEF IsElement, WriteElement
<1>6. CASE f.kind = "[][]uint"
  <2>1. f.w \in 1 .. Word /\ e \in Seq(0 .. MaxUint(f.w))
    BY <1>6 DEF IsElement, Numbered
  <2>2. Len(e) \in Nat /\ DOMAIN e = 1 .. Len(e) /\ \A j \in 1 .. Len(e) : e[j] \in 0 .. MaxUint(f.w)
    BY <2>1, LenProperties, ElementOfSeq
  <2>3. \A j \in 1 .. Len(e) : e[j] \in Arguments
    BY <2>1, <2>2, NumberFits
  <2>4. Rows(WriteElements([j \in DOMAIN e |-> Wrote(Written(WriteUint(e[j])))]), 1)
    BY <2>2, <2>3, NumbersRows
  <2>5. QED BY <1>6, <2>4 DEF WriteElement
<1>7. QED BY <1>1, <1>2, <1>3, <1>4, <1>5, <1>6 DEF Slices

LEMMA SliceRows ==
  ASSUME NEW f, f.kind \in Slices, f.kind \in Numbered => f.w \in 1 .. Word, NEW v, IsValue(f, v)
  PROVE  Rows(WriteSlice(f, v), 1)
<1>1. PICK n \in Nat : n = Len(v)
  BY SliceElements
<1>2. DOMAIN v = 1 .. n /\ \A j \in 1 .. n : IsElement(f, v[j])
  BY <1>1, SliceElements
<1> DEFINE ws == [j \in DOMAIN v |-> WriteElement(f, v[j])]
<1>3. Len(ws) = n /\ \A j \in 1 .. n : ws[j] = WriteElement(f, v[j])
  BY <1>2
<1>4. WriteSlice(f, v) = WriteElements(ws)
  BY DEF WriteSlice
<1> HIDE DEF ws
<1>5. \A j \in 1 .. n : Rows(ws[j], 1)
  BY <1>2, <1>3, ElementRows
<1>6. QED BY <1>3, <1>4, <1>5, ElementsRows

LEMMA ArrayRows ==
  ASSUME NEW f, f.kind = "array", NEW n \in Nat, n = f.w, NEW v \in [1 .. n -> Arguments]
  PROVE  Rows(WriteSlice(f, v), 1)
<1>1. DOMAIN v = 1 .. n /\ Len(v) = n /\ \A j \in 1 .. n : v[j] \in Arguments
  OBVIOUS
<1>2. ASSUME NEW j PROVE WriteElement(f, v[j]) = Wrote(Written(WriteUint(v[j])))
  BY DEF WriteElement
<1>3. WriteSlice(f, v) = WriteElements([j \in DOMAIN v |-> Wrote(Written(WriteUint(v[j])))])
  BY <1>2 DEF WriteSlice
<1>4. QED BY <1>1, <1>3, NumbersRows

LEMMA MapValueRows ==
  ASSUME NEW f, NEW e, IsMapValue(f, e)
  PROVE  Rows(WriteMapValue(f, e), 1)
BY StructPointerRows, TimeRows DEF IsMapValue, WriteMapValue

\* The key and the value of an entry.
LEMMA EntryRows ==
  ASSUME NEW f, NEW k \in Seq(Byte), NEW e, IsMapValue(f, e)
  PROVE  Rows(AndThen(WriteString(k), WriteMapValue(f, e)), 2)
<1> DEFINE a == WriteString(k)
           b == WriteMapValue(f, e)
<1>1. Rows(a, 1) /\ Rows(b, 1)
  BY StringRows, MapValueRows
<1> HIDE DEF a, b
<1>2. CASE ~a.ok
  BY <1>1, <1>2 DEF AndThen, Rows, a, b
<1>3. CASE a.ok
  <2> DEFINE w == AndThen(a, b)
  <2>1. w.ok = b.ok /\ w.bytes = a.bytes \o b.bytes
    BY <1>3 DEF AndThen
  <2>2. a.bytes \in Seq(Byte) /\ b.bytes \in Seq(Byte) /\ b.ok \in BOOLEAN
    BY <1>1 DEF Rows
  <2>3. w.bytes \in Seq(Byte)
    BY <2>1, <2>2, ConcatProperties
  <2>4. b.ok => IsRow(a.bytes \o b.bytes, 1 + 1)
    BY <1>1, <1>3, <2>2, 1 \in Nat, RowMore DEF Rows
  <2>5. 1 + 1 = 2
    OBVIOUS
  <2> HIDE DEF w
  <2>6. Rows(w, 2)
    BY <2>1, <2>2, <2>3, <2>4, <2>5 DEF Rows
  <2>7. QED BY <2>6 DEF w, a, b
<1>4. QED BY <1>2, <1>3

LEMMA MapRows ==
  ASSUME NEW f, NEW v, IsMap(v), \A k \in DOMAIN v : IsMapValue(f, v[k])
  PROVE  Rows(WriteMap(f, v), 1)
<1> DEFINE D  == DOMAIN v
           ks == Sorted(D)
           ws == [j \in DOMAIN ks |-> AndThen(WriteString(ks[j]), WriteMapValue(f, v[ks[j]]))]
<1>1. D \subseteq Seq(Byte) /\ IsFiniteSet(D)
  BY DEF IsMap
<1>2. PICK n \in Nat : ks \in [1 .. n -> D] /\ Len(ks) = n
  BY <1>1, SortedIs, Zenon
<1> HIDE DEF ks
<1>3. CASE n > MaxMapLen
  <2>1. WriteMap(f, v) = Refused(<< >>)
    BY <1>2, <1>3 DEF WriteMap, ks
  <2>2. QED BY <2>1, NothingRows
<1>4. CASE ~(n > MaxMapLen)
  <2>9. MaxMapLen \in Arguments /\ MaxMapLen \in Nat
    BY CodecAssumption, CodecSizes
  <2>1. n \in Arguments
    BY <1>4, <2>9, CodecSizes
  <2>2. WriteMap(f, v) = All(WriteMajorTypeHeader(MajMap, n), ws)
    BY <1>2, <1>4 DEF WriteMap, ks
  <2>3. Len(ws) = n /\ \A j \in 1 .. n : ws[j] = AndThen(WriteString(ks[j]), WriteMapValue(f, v[ks[j]]))
    BY <1>2
  <2> HIDE DEF ws
  <2>4. ASSUME NEW j \in 1 .. n PROVE Rows(ws[j], 2)
    <3>1. ks[j] \in D /\ ks[j] \in Seq(Byte) /\ IsMapValue(f, v[ks[j]])
      BY <1>1, <1>2
    <3>2. Rows(AndThen(WriteString(ks[j]), WriteMapValue(f, v[ks[j]])), 2)
      BY <3>1, EntryRows
    <3>3. QED BY <2>3, <3>2
  <2>5. Nested(MajMap, 1) = 2
    BY DEF Nested, MajTag, MajArray, MajMap
  <2>6. \A j \in 1 .. n : Rows(ws[j], Nested(MajMap, 1))
    BY <2>4, <2>5
  <2>7. Rows(All(WriteMajorTypeHeader(MajMap, n), ws), 1)
    BY <2>1, <2>3, <2>6, AllRows
  <2>8. QED BY <2>2, <2>7
<1>5. QED BY <1>3, <1>4

\* A link is no longer than the buffer that ScanForLinks has for one, and a Deferred
\* holds an item that it accepts.
CidFits(c)   == c # << >> => Len(c) + 1 \in 1 .. MaxLink
RawFits(raw) == raw # << >> => IsLinkedItem(raw)
LinksFit(f, v) ==
  /\ f.kind \in {"cid", "cborcid"} => CidFits(v)
  /\ f.kind = "*cid" => \A j \in DOMAIN v : CidFits(v[j])
  /\ f.kind = "deferred" => RawFits(v)
  /\ f.kind = "*deferred" => \A j \in DOMAIN v : RawFits(v[j])

LEMMA PointerRows ==
  ASSUME NEW f, f.kind \in Nullable \cup {"*deferred"}, NEW v, IsValue(f, v), LinksFit(f, v)
  PROVE  Rows(WritePointer(f, v), 1)
<1>1. CASE v = << >>
  BY <1>1, NullRows DEF WritePointer
<1>2. CASE v # << >>
  <2>1. CASE f.kind = "*uint64"
    <3>1. v[1] \in Arguments
      BY <1>2, <2>1, PointerIs DEF IsValue
    <3>2. QED BY <1>2, <2>1, <3>1, UintRows DEF WritePointer
  <2>2. CASE f.kind = "*cid"
    <3>1. IsPointer(Seq(Byte), v) /\ \A j \in DOMAIN v : IsCidValue(v[j]) /\ CidFits(v[j])
      BY <2>2 DEF IsValue, LinksFit
    <3>2. 1 \in DOMAIN v
      BY <1>2, <3>1, PointerIs
    <3>3. IsCidValue(v[1]) /\ CidFits(v[1])
      BY <3>1, <3>2
    <3>4. Rows(WriteCid(v[1]), 1)
      BY <3>3, CidRows DEF CidFits
    <3>5. QED BY <1>2, <2>2, <3>4 DEF WritePointer
  <2>3. CASE f.kind = "*struct"
    <3>1. IsPointer(Ints(Word), v)
      BY <2>3 DEF IsValue
    <3>2. QED BY <1>2, <2>3, <3>1, StructPointerRows DEF WritePointer
  <2>4. CASE f.kind = "*deferred"
    <3>1. IsPointer(Seq(Byte), v) /\ \A j \in DOMAIN v : IsRaw(v[j]) /\ RawFits(v[j])
      BY <2>4 DEF IsValue, LinksFit
    <3>2. 1 \in DOMAIN v
      BY <1>2, <3>1, PointerIs
    <3>3. IsRaw(v[1]) /\ RawFits(v[1])
      BY <3>1, <3>2
    <3>4. Rows(WriteRaw(v[1]), 1)
      BY <3>3, RawRows DEF RawFits
    <3>5. QED BY <1>2, <2>4, <3>4 DEF WritePointer
  <2>5. QED BY <2>1, <2>2, <2>3, <2>4 DEF Nullable
<1>3. QED BY <1>1, <1>2

\* Whatever the kind of a field is, what is written of it is an item that
\* ScanForLinks accepts, if its links are no longer than that scan takes them: what a
\* receiver does not know of such values is passable.
THEOREM FieldScanned ==
  ASSUME NEW f, IsField(f), NEW v, IsValue(f, v), WriteField(f, v).ok, LinksFit(f, v)
  PROVE  IsLinkedItem(WriteField(f, v).bytes)
<1>1. f \in Fields /\ f.kind \in Kinds /\ f.w \in Nat /\ (f.kind \in Numbered => f.w \in 1 .. Word)
  BY DEF IsField, Fields
<1> SUFFICES Rows(WriteField(f, v), 1)
  BY RowIsItem DEF Rows
<1>2. CASE f.kind = "uint64"
  <2>1. v \in Arguments
    BY <1>2 DEF IsValue
  <2>2. WriteField(f, v) = Wrote(Written(WriteUint(v)))
    BY <1>2 DEF WriteField, Slices, Nullable
  <2>3. QED BY <2>1, <2>2, UintRows
<1>3. CASE f.kind = "uint"
  <2>1. v \in Arguments
    BY <1>1, <1>3, NumberFits DEF IsValue, Numbered
  <2>2. WriteField(f, v) = Wrote(Written(WriteUint(v)))
    BY <1>3 DEF WriteField, Slices, Nullable
  <2>3. QED BY <2>1, <2>2, UintRows
<1>4. CASE f.kind = "int"
  <2>1. f.w \in 1 .. Word /\ v \in Ints(f.w)
    BY <1>1, <1>4 DEF IsValue, Numbered
  <2>2. WriteField(f, v) = Wrote(Written(WriteInt(v, f.w)))
    BY <1>4 DEF WriteField, Slices, Nullable
  <2>3. QED BY <2>1, <2>2, IntRows
<1>5. CASE f.kind = "bool"
  <2>1. v \in BOOLEAN
    BY <1>5 DEF IsValue
  <2>2. WriteField(f, v) = Wrote(Written(WriteBool(v)))
    BY <1>5 DEF WriteField, Slices, Nullable
  <2>3. QED BY <2>1, <2>2, BoolRows
<1>6. CASE f.kind = "string"
  <2>1. v \in Seq(Byte)
    BY <1>6 DEF IsValue
  <2>2. WriteField(f, v) = WriteString(v)
    BY <1>6 DEF WriteField, Slices, Nullable
  <2>3. QED BY <2>1, <2>2, StringRows
<1>7. CASE f.kind \in {"bytes", "bytearray"}
  <2>1. v \in Seq(Byte)
    <3>1. \A n \in Nat : [1 .. n -> Byte] \subseteq Seq(Byte)
      OBVIOUS
    <3>2. f.kind = "bytearray" => v \in [1 .. f.w -> Byte]
      BY DEF IsValue
    <3>3. f.kind = "bytes" => v \in Seq(Byte)
      BY DEF IsValue
    <3>4. QED BY <1>1, <1>7, <3>1, <3>2, <3>3
  <2>2. WriteField(f, v) = WriteBytes(v)
    BY <1>7 DEF WriteField, Slices, Nullable
  <2>3. QED BY <2>1, <2>2, StringRows
<1>8. CASE f.kind \in Slices
  <2>1. WriteField(f, v) = WriteSlice(f, v)
    BY <1>8 DEF WriteField, Slices, Nullable
  <2>2. QED BY <1>1, <1>8, <2>1, SliceRows
<1>9. CASE f.kind = "array"
  <2>1. v \in [1 .. f.w -> Arguments]
    BY <1>9 DEF IsValue
  <2>2. WriteField(f, v) = WriteSlice(f, v)
    BY <1>9 DEF WriteField, Slices, Nullable
  <2>3. QED BY <1>1, <1>9, <2>1, <2>2, ArrayRows
<1>10. CASE f.kind \in {"map", "map*"}
  <2>1. IsMap(v) /\ \A k \in DOMAIN v : IsMapValue(f, v[k])
    BY <1>10 DEF IsValue, IsMapValue
  <2>2. WriteField(f, v) = WriteMap(f, v)
    BY <1>10 DEF WriteField, Slices, Nullable
  <2>3. QED BY <2>1, <2>2, MapRows
<1>11. CASE f.kind \in {"cid", "cborcid"}
  <2>1. IsCidValue(v)
    BY <1>11 DEF IsValue
  <2>2. CidFits(v)
    BY <1>11 DEF LinksFit
  <2>3. WriteField(f, v) = WriteCid(v)
    BY <1>11 DEF WriteField, WriteCborCid, Slices, Nullable
  <2>4. QED BY <2>1, <2>2, <2>3, CidRows DEF CidFits
<1>12. CASE f.kind = "time"
  <2>1. v \in Ints(Word)
    BY <1>12 DEF IsValue
  <2>2. WriteField(f, v) = WriteTime(v)
    BY <1>12 DEF WriteField, Slices, Nullable
  <2>3. QED BY <2>1, <2>2, TimeRows
<1>13. CASE f.kind = "struct"
  <2>1. v \in Ints(Word)
    BY <1>13 DEF IsValue
  <2>2. WriteField(f, v) = WriteStruct(v)
    BY <1>13 DEF WriteField, Slices, Nullable
  <2>3. QED BY <2>1, <2>2, StructRows
<1>14. CASE f.kind = "deferred"
  <2>1. IsRaw(v)
    BY <1>14 DEF IsValue
  <2>2. RawFits(v)
    BY <1>14 DEF LinksFit
  <2>3. WriteField(f, v) = WriteRaw(v)
    BY <1>14 DEF WriteField, Slices, Nullable
  <2>4. QED BY <2>1, <2>2, <2>3, RawRows DEF RawFits
<1>15. CASE f.kind \in Nullable \cup {"*deferred"}
  <2>1. WriteField(f, v) = WritePointer(f, v)
    BY <1>15 DEF WriteField, Slices, Nullable
  <2>2. QED BY <1>15, <2>1, PointerRows
<1>16. QED
  BY <1>1, <1>2, <1>3, <1>4, <1>5, <1>6, <1>7, <1>8, <1>9, <1>10, <1>11, <1>12, <1>13, <1>14, <1>15
  DEF Kinds, Numbered, Slices

-----------------------------------------------------------------------------

LEMMA ReadsToTheEnd ==
  ASSUME MapIInv, MapArrived, Passable, Len(entries) <= MaxLength, \A j \in DOMAIN into : ~Shrinks(into[j])
  PROVE  ReadsTo(Len(Message(entries)))
<1> DEFINE n == Len(entries)
<1>1. /\ Delivered /\ Whole /\ Coming.ok /\ ~MapRefusal /\ WholeArrives
      /\ Carried = entries /\ Announced = n /\ n \in Nat /\ DOMAIN entries = 1 .. n
  BY MapArrivedIs
<1>2. DOMAIN into = 1 .. Len(into) /\ Len(into) \in Nat
  BY DEF MapIInv, MapSends, MapTyped
<1>3. Clear
  <2>1. NoneShrinks
    BY <1>1, <1>2 DEF NoneShrinks, Shrinks, IsFor
  <2>2. \A k \in 1 .. Len(Carried) : IsKnown(k) \/ Scannable(k)
    BY <1>1, <1>2 DEF Passable, IsKnown, IsFor, Scannable
  <2>3. QED BY <1>1, <2>1, <2>2 DEF Clear
<1>4. AllReadable <=> \A k \in 1 .. Len(Carried) : IsReadable(k)
  BY <1>1, <1>2 DEF AllReadable, IsReadable, IsKnown, IsFor
<1>5. ASSUME AllReadable PROVE state \notin {"error", "panic"}
  BY <1>1, <1>3, <1>4, <1>5 DEF MapIInv, MapReads, MapArrived
<1>6. ASSUME state = "ok"
      PROVE  /\ AllReadable
             /\ \A j \in DOMAIN into : u[j] = Expected(into[j])
             /\ pos = Len(Message(entries)) /\ bytesRead = Len(Message(entries))
  <2>1. pos = Len(Message(entries)) /\ bytesRead = pos /\ ReadTo(n)
    BY <1>3, <1>6, MapAllRead
  <2>2. AllReadable
    BY <1>1, <1>4, <2>1 DEF ReadTo
  <2>3. ASSUME NEW j \in DOMAIN into PROVE u[j] = Expected(into[j])
    <3> DEFINE f == into[j]
    <3>1. PICK k \in 0 .. n : HasLatest(j, n, k)
      BY <1>2, <2>1, <2>3 DEF ReadTo
    <3>2. Assigned(f) = { l \in 1 .. n : SetsField(f, l) }
      BY <1>1 DEF Assigned, SetsField, IsFor
    <3>3. \A l \in Assigned(f) : l \in 1 .. n /\ SetsField(f, l) /\ l <= k
      <4>1. \A l \in 1 .. n : l <= k \/ l \in (k + 1) .. n
        BY <1>1
      <4>2. QED BY <3>1, <3>2, <4>1 DEF HasLatest
    <3>4. CASE k = 0
      <4>1. u[j] = Zero(f)
        BY <3>1, <3>4 DEF HasLatest
      <4>2. Assigned(f) = {}
        BY <3>3, <3>4
      <4>3. QED BY <4>1, <4>2 DEF Expected
    <3>5. CASE k # 0
      <4>1. SetsField(f, k) /\ u[j] = Same(f, Carried[k].v) /\ k \in 1 .. n
        BY <3>1, <3>5 DEF HasLatest
      <4>2. k \in Assigned(f)
        BY <3>2, <4>1
      <4> HIDE DEF f
      <4>3. (CHOOSE m \in Assigned(f) : \A l \in Assigned(f) : l <= m) = k
        <5>1. \A m \in Assigned(f) : (\A l \in Assigned(f) : l <= m) => m = k
          BY <1>1, <3>3, <4>2
        <5>2. QED BY <3>3, <4>2, <5>1
      <4>4. Assigned(f) # {}
        BY <4>2
      <4>5. Expected(f) = Same(f, entries[k].v)
        BY <4>3, <4>4 DEF Expected
      <4>6. QED BY <1>1, <4>1, <4>5 DEF f
    <3>6. QED BY <3>4, <3>5
  <2>4. QED BY <2>1, <2>2, <2>3
<1>7. QED BY <1>5, <1>6 DEF ReadsTo

\* Of entries with one key the last one counts that is neither null nor empty, in every
\* message that is no longer than a map may be (gen.go:1492), whatever the fields, the
\* order of the entries and what follows them (gen.go:1490-1594): but for an empty byte
\* string after one that is not.
THEOREM AlwaysLastWins == MapSpec => [](Len(entries) <= MaxLength => LastWins)
<1>1. MapIInv => (Len(entries) <= MaxLength => LastWins)
  BY ReadsToTheEnd DEF LastWins
<1>2. QED BY <1>1, MapAlways, PTL

-----------------------------------------------------------------------------

\* Where the parts of a message end, one after the other: at[j] bytes are the first j.
PartEnds(at, n) == at \in [0 .. n -> Nat] /\ at[0] = 0 /\ \A j \in 1 .. n : at[j - 1] <= at[j]

LEMMA NoneBefore ==
  ASSUME NEW n \in Nat, NEW at, PartEnds(at, n), NEW c \in 0 .. n, NEW d \in 0 .. n, c <= d
  PROVE  at[c] <= at[d]
<1> DEFINE S == { m \in 0 .. n : c <= m => at[c] <= at[m] }
<1>1. 0 \in S
  BY DEF PartEnds
<1>2. ASSUME NEW m \in 0 .. (n - 1), m \in S PROVE m + 1 \in S
  <2>1. m + 1 \in 0 .. n /\ m + 1 \in 1 .. n /\ (m + 1) - 1 = m /\ m \in 0 .. n
    OBVIOUS
  <2>2. at[m] <= at[m + 1] /\ at[m] \in Nat /\ at[m + 1] \in Nat /\ at[c] \in Nat
    BY <2>1 DEF PartEnds
  <2>3. CASE c = m + 1
    BY <2>1, <2>2, <2>3
  <2>4. CASE c # m + 1
    <3>1. c <= m + 1 => at[c] <= at[m]
      BY <1>2, <2>1, <2>4
    <3>2. QED BY <2>1, <2>2, <3>1
  <2>5. QED BY <2>3, <2>4
<1> HIDE DEF S
<1>3. d \in S
  BY <1>1, <1>2, Upward
<1>4. QED BY <1>3 DEF S

\* The part that a byte is in, and what parts two bytes are in that are one.
IsIn(at, y, k) == at[k - 1] < y /\ y <= at[k]

LEMMA SomePart ==
  ASSUME NEW n \in Nat, NEW at, PartEnds(at, n), NEW y \in 1 .. at[n]
  PROVE  \E k \in 1 .. n : IsIn(at, y, k)
<1> DEFINE T == { k \in 0 .. n : y <= at[k] }
<1>0. n \in 0 .. n /\ at[n] \in Nat
  BY DEF PartEnds
<1>1. n \in T /\ T \subseteq Nat
  BY <1>0
<1>2. PICK m \in T : \A k \in T : m <= k
  BY <1>1, LeastElement
<1>3. m \in 0 .. n /\ y <= at[m] /\ m # 0
  BY <1>0, <1>2 DEF PartEnds
<1>4. m \in 1 .. n /\ m - 1 \in 0 .. n /\ m - 1 < m
  BY <1>3
<1>5. ~(y <= at[m - 1]) /\ at[m - 1] \in Nat
  BY <1>2, <1>4 DEF PartEnds
<1>6. QED BY <1>0, <1>3, <1>4, <1>5 DEF IsIn

LEMMA OnePart ==
  ASSUME NEW n \in Nat, NEW at, PartEnds(at, n), NEW y \in Nat, NEW c \in 1 .. n, NEW d \in 1 .. n,
         IsIn(at, y, c), IsIn(at, y, d)
  PROVE  c = d
<1>1. ASSUME NEW k \in 1 .. n, NEW l \in 1 .. n, IsIn(at, y, k), IsIn(at, y, l) PROVE ~(k < l)
  <2>1. SUFFICES ASSUME k < l PROVE FALSE
    OBVIOUS
  <2>2. k \in 0 .. n /\ l - 1 \in 0 .. n /\ k <= l - 1
    BY <2>1
  <2>3. at[k] <= at[l - 1]
    BY <2>2, NoneBefore
  <2>4. at[k] \in Nat /\ at[l - 1] \in Nat
    BY <2>2 DEF PartEnds
  <2>5. QED BY <1>1, <2>3, <2>4 DEF IsIn
<1>2. ~(c < d) /\ ~(d < c)
  BY <1>1
<1>3. QED BY <1>2

\* As many bytes as there are in parts that can be found among others, each another
\* one of the same length, there are in those.
Among(at, n, more, m, of) ==
  /\ of \in [1 .. n -> 1 .. m]
  /\ \A j, k \in 1 .. n : of[j] = of[k] => j = k
  /\ \A j \in 1 .. n : at[j] - at[j - 1] = more[of[j]] - more[of[j] - 1]

LEMMA FewerThan ==
  ASSUME NEW n \in Nat, NEW m \in Nat, NEW g \in [1 .. n -> 1 .. m],
         \A y, z \in 1 .. n : g[y] = g[z] => y = z
  PROVE  n <= m
<1>1. /\ Cardinality(1 .. n) = n /\ IsFiniteSet(1 .. n)
      /\ Cardinality(1 .. m) = m /\ IsFiniteSet(1 .. m)
  <2>1. 1 \in Int /\ n \in Int /\ m \in Int
    OBVIOUS
  <2>2. /\ Cardinality(1 .. n) = (IF 1 > n THEN 0 ELSE n - 1 + 1) /\ IsFiniteSet(1 .. n)
        /\ Cardinality(1 .. m) = (IF 1 > m THEN 0 ELSE m - 1 + 1) /\ IsFiniteSet(1 .. m)
    BY <2>1, FS_Interval
  <2>3. QED BY <2>2
<1>2. g \in Injection(1 .. n, 1 .. m)
  BY DEF Injection, IsInjective
<1>3. Cardinality(1 .. n) <= Cardinality(1 .. m)
  BY <1>1, <1>2, FS_Injection
<1>4. QED BY <1>1, <1>3

LEMMA NoMoreBytes ==
  ASSUME NEW n \in Nat, NEW at, PartEnds(at, n), NEW m \in Nat, NEW more, PartEnds(more, m),
         NEW of, Among(at, n, more, m, of)
  PROVE  n <= m /\ at[n] <= more[m]
<1> DEFINE Moved(y, k) == more[of[k] - 1] + (y - at[k - 1])
           Y == 1 .. at[n]
           Z == 1 .. more[m]
           part == [y \in Y |-> CHOOSE k \in 1 .. n : IsIn(at, y, k)]
           g == [y \in Y |-> Moved(y, part[y])]
<1>0. at[n] \in Nat /\ more[m] \in Nat /\ at \in [0 .. n -> Nat] /\ more \in [0 .. m -> Nat]
  BY DEF PartEnds
<1>1. ASSUME NEW y \in Y PROVE part[y] \in 1 .. n /\ IsIn(at, y, part[y])
  <2>1. \E k \in 1 .. n : IsIn(at, y, k)
    BY SomePart
  <2>2. part[y] = CHOOSE k \in 1 .. n : IsIn(at, y, k)
    OBVIOUS
  <2>3. QED BY <2>1, <2>2
<1>2. ASSUME NEW y \in Nat, NEW k \in 1 .. n, IsIn(at, y, k)
      PROVE  Moved(y, k) \in Z /\ IsIn(more, Moved(y, k), of[k]) /\ of[k] \in 1 .. m
  <2>1. of[k] \in 1 .. m /\ at[k] - at[k - 1] = more[of[k]] - more[of[k] - 1]
    BY DEF Among
  <2>2. PICK l \in 1 .. m : l = of[k]
    BY <2>1
  <2>3. l - 1 \in 0 .. m /\ l \in 0 .. m /\ m \in 0 .. m /\ k \in 0 .. n /\ k - 1 \in 0 .. n
    OBVIOUS
  <2>4. PICK a, b, c, d, e \in Nat : a = at[k - 1] /\ b = at[k] /\ c = more[l - 1] /\ d = more[l] /\ e = more[m]
    BY <1>0, <2>3
  <2>5. d <= e
    BY <2>3, <2>4, NoneBefore
  <2>6. a < y /\ y <= b /\ b - a = d - c
    BY <1>2, <2>1, <2>2, <2>4 DEF IsIn
  <2>7. c + (y - a) \in 1 .. e /\ c < c + (y - a) /\ c + (y - a) <= d
    BY <2>5, <2>6
  <2>8. Moved(y, k) = c + (y - a)
    BY <2>2, <2>4
  <2>9. QED BY <2>2, <2>4, <2>7, <2>8 DEF IsIn
<1>3. g \in [Y -> Z]
  <2>1. ASSUME NEW y \in Y PROVE Moved(y, part[y]) \in Z
    <3>1. y \in Nat
      BY <1>0
    <3> HIDE DEF Moved, Z, Y, part
    <3>2. QED BY <1>1, <1>2, <3>1
  <2> HIDE DEF Moved, part, Y, Z
  <2>2. QED BY <2>1
<1>4. ASSUME NEW y \in Y, NEW z \in Y, g[y] = g[z] PROVE y = z
  <2>1. PICK k, l \in 1 .. n : k = part[y] /\ l = part[z]
    BY <1>1
  <2>2. y \in Nat /\ z \in Nat /\ IsIn(at, y, k) /\ IsIn(at, z, l) /\ Moved(y, k) = Moved(z, l)
    <3>1. g[y] = Moved(y, part[y]) /\ g[z] = Moved(z, part[z]) /\ y \in Nat /\ z \in Nat
      BY <1>0
    <3> HIDE DEF Moved, part, g, Y
    <3>2. QED BY <1>1, <1>4, <2>1, <3>1
  <2>3. /\ IsIn(more, Moved(y, k), of[k]) /\ of[k] \in 1 .. m
        /\ IsIn(more, Moved(y, k), of[l]) /\ of[l] \in 1 .. m
        /\ Moved(y, k) \in Z
    <3> HIDE DEF Moved, part, g, Y, Z
    <3>1. QED BY <1>2, <2>2
  <2>4. of[k] = of[l]
    <3>1. PICK x \in Nat : x = Moved(y, k)
      BY <1>0, <2>3
    <3>2. QED BY <2>3, <3>1, OnePart
  <2>5. k = l
    BY <2>4 DEF Among
  <2>6. of[k] - 1 \in 0 .. m /\ k - 1 \in 0 .. n
    BY <2>3
  <2>7. PICK a, b \in Nat : a = more[of[k] - 1] /\ b = at[k - 1]
    BY <1>0, <2>6
  <2>8. a + (y - b) = a + (z - b)
    BY <2>2, <2>5, <2>7
  <2>9. QED BY <2>2, <2>7, <2>8
<1>5. at[n] <= more[m]
  <2> HIDE DEF g, part, Moved
  <2>1. QED BY <1>0, <1>3, <1>4, FewerThan
<1>6. n <= m
  BY FewerThan DEF Among
<1>7. QED BY <1>5, <1>6

-----------------------------------------------------------------------------

\* Where the parts of w end that are in ws, behind a header.
InParts(at, w, head, ws, n) ==
  /\ PartEnds(at, n) /\ w.bytes \in Seq(Byte) /\ Len(w.bytes) = Len(head) + at[n]
  /\ \A j \in 1 .. n : at[j] - at[j - 1] = Len(ws[j].bytes)

LEMMA PartsOf ==
  ASSUME NEW head \in Seq(Byte), NEW ws, NEW n \in Nat, Len(ws) = n,
         \A j \in 1 .. n : ws[j].bytes \in Seq(Byte) /\ ws[j].ok \in BOOLEAN,
         NEW w, w = All(head, ws), w.ok
  PROVE  \E at : InParts(at, w, head, ws, n)
<1>1. Chain(w, head, ws, n)
  BY AllChain, Zenon
<1>2. PICK e \in 0 .. n : \E at : ChainTo(w, head, ws, n, e, at)
  BY <1>1, Zenon DEF Chain
<1>3. PICK at : ChainTo(w, head, ws, n, e, at)
  BY <1>2, Zenon
<1>4. e = n
  BY <1>3 DEF ChainTo
<1>5. /\ at \in [0 .. n -> Nat] /\ at[0] = 0 /\ Len(w.bytes) = Len(head) + at[n]
      /\ \A j \in 1 .. n : at[j] = at[j - 1] + Len(ws[j].bytes)
  BY <1>3, <1>4 DEF ChainTo, Laid
<1>6. ASSUME NEW j \in 1 .. n
      PROVE  at[j - 1] <= at[j] /\ at[j] - at[j - 1] = Len(ws[j].bytes)
  <2>1. j - 1 \in 0 .. n /\ j \in 0 .. n
    OBVIOUS
  <2>2. PICK b, c, l \in Nat : b = at[j - 1] /\ c = at[j] /\ l = Len(ws[j].bytes)
    BY <1>5, <2>1, LenProperties
  <2>3. c = b + l
    BY <1>5, <2>2
  <2>4. QED BY <2>2, <2>3
<1>7. w.bytes \in Seq(Byte)
  BY <1>1 DEF Chain
<1>8. QED BY <1>5, <1>6, <1>7 DEF PartEnds, InParts

\* The parts of what was written, and of the whole message.
SentParts(at) ==
  /\ PartEnds(at, Len(sent)) /\ Len(out) = Len(MapHead(Len(sent))) + at[Len(sent)] /\ out \in Seq(Byte)
  /\ \A j \in 1 .. Len(sent) : at[j] - at[j - 1] = Len(Entry(sent[j], t[j]).bytes)
EntryParts(at) ==
  /\ PartEnds(at, Len(entries)) /\ Message(entries) \in Seq(Byte)
  /\ Len(Message(entries)) = Len(MapHead(Len(entries))) + at[Len(entries)]
  /\ \A k \in 1 .. Len(entries) : at[k] - at[k - 1] = Len(Entry(entries[k].f, entries[k].v).bytes)

LEMMA SentPartsAre ==
  ASSUME MapTyped, MapMarshals, MapAllSent
  PROVE  \E at : SentParts(at)
<1>1. PICK n \in Nat : n = Len(sent) /\ n \in Arguments /\ Len(t) = n
  BY MapHeadIs DEF MapTyped, MapAllSent
<1>2. ASSUME NEW j \in 1 .. n
      PROVE  MapWs[j] = Entry(sent[j], t[j]) /\ MapWs[j].bytes \in Seq(Byte) /\ MapWs[j].ok \in BOOLEAN
  <2>1. IsMapField(sent[j]) /\ IsValue(sent[j], t[j])
    BY <1>1 DEF MapTyped, MapMarshals, IsMapField
  <2>2. MapWs[j] = Entry(sent[j], t[j])
    BY <1>1 DEF MapWs
  <2>3. QED BY <2>1, <2>2, EntryType
<1>3. PICK w : w = All(MapHead(n), MapWs) /\ w = [ok |-> TRUE, bytes |-> out]
  BY <1>1 DEF MapAllSent, MapSent
<1>4. w.ok /\ w.bytes = out /\ MapHead(n) \in Seq(Byte) /\ Len(MapWs) = n
  <2>1. Len(MapWs) = n
    BY <1>1 DEF MapWs
  <2>2. QED BY <1>1, <1>3, <2>1, MapHeadIs
<1>5. PICK at : InParts(at, w, MapHead(n), MapWs, n)
  <2>1. n \in Nat /\ w.ok /\ \A j \in 1 .. n : MapWs[j].bytes \in Seq(Byte) /\ MapWs[j].ok \in BOOLEAN
    BY <1>2, <1>4
  <2>2. \E at : InParts(at, w, MapHead(n), MapWs, n)
    BY <1>3, <1>4, <2>1, PartsOf, Zenon
  <2>3. QED BY <2>2
<1>6. SentParts(at)
  BY <1>1, <1>2, <1>4, <1>5 DEF SentParts, InParts
<1>7. QED BY <1>6

LEMMA EntryPartsAre ==
  ASSUME MapTyped, Carries(entries)
  PROVE  \E at : EntryParts(at)
<1>1. PICK n \in Nat : n = Len(entries) /\ n \in Arguments /\ entries = [k \in 1 .. n |-> entries[k]]
  BY MapHeadIs DEF Carries
<1> DEFINE ws == [k \in DOMAIN entries |-> Entry(entries[k].f, entries[k].v)]
<1>2. DOMAIN entries = 1 .. n
  BY <1>1
<1>3. ASSUME NEW k \in 1 .. n
      PROVE  /\ ws[k] = Entry(entries[k].f, entries[k].v) /\ ws[k].bytes \in Seq(Byte)
             /\ ws[k].ok \in BOOLEAN /\ ws[k].ok
  <2>1. PICK j \in DOMAIN sent : entries[k].f = sent[j]
    BY <1>2 DEF Carries
  <2>2. DOMAIN sent = 1 .. Len(sent)
    BY DEF MapTyped
  <2>3. IsMapField(entries[k].f) /\ IsValue(entries[k].f, entries[k].v)
    BY <1>2, <2>1, <2>2 DEF MapTyped, IsMapField, Carries
  <2>4. ws[k] = Entry(entries[k].f, entries[k].v)
    BY <1>2
  <2>5. Entry(entries[k].f, entries[k].v).ok
    BY <1>2 DEF Carries
  <2>6. QED BY <2>3, <2>4, <2>5, EntryType
<1>4. Len(ws) = n
  BY <1>1, <1>2
<1>5. PICK w : w = All(MapHead(n), ws)
  OBVIOUS
<1>6. Message(entries) = w.bytes
  BY <1>1, <1>5 DEF Message, MapHead
<1> HIDE DEF ws
<1>7. MapHead(n) \in Seq(Byte)
  BY <1>1, MapHeadIs
<1>8. w.ok
  BY <1>3, <1>4, <1>5, <1>7, AllOk
<1>9. PICK at : InParts(at, w, MapHead(n), ws, n)
  <2>1. \A k \in 1 .. n : ws[k].bytes \in Seq(Byte) /\ ws[k].ok \in BOOLEAN
    BY <1>3
  <2>2. \E at : InParts(at, w, MapHead(n), ws, n)
    BY <1>4, <1>5, <1>7, <1>8, <2>1, PartsOf, Zenon
  <2>3. QED BY <2>2
<1>10. EntryParts(at)
  BY <1>1, <1>3, <1>6, <1>9 DEF EntryParts, InParts
<1>11. QED BY <1>10

\* All that was written is in the message, and nothing else unless a field is repeated.
LEMMA SentAmong ==
  ASSUME MapTyped, Carries(entries), MapAllSent, NEW at, SentParts(at), NEW more, EntryParts(more)
  PROVE  /\ Len(sent) <= Len(entries) /\ at[Len(sent)] <= more[Len(entries)]
         /\ ~Repeated => Len(entries) <= Len(sent) /\ more[Len(entries)] <= at[Len(sent)]
<1>1. PICK n \in Nat : n = Len(sent) /\ DOMAIN sent = 1 .. n
  <2>1. Len(sent) \in Arguments /\ sent = [j \in 1 .. Len(sent) |-> sent[j]]
    BY Zenon DEF MapTyped
  <2>2. Len(sent) \in Nat /\ DOMAIN sent = 1 .. Len(sent)
    BY <2>1, MapHeadIs
  <2>3. QED BY <2>2, Zenon
<1>2. PICK m \in Nat : m = Len(entries) /\ DOMAIN entries = 1 .. m
  <2>1. Len(entries) \in Arguments /\ entries = [k \in 1 .. Len(entries) |-> entries[k]]
    BY Zenon DEF Carries
  <2>2. Len(entries) \in Nat /\ DOMAIN entries = 1 .. Len(entries)
    BY <2>1, MapHeadIs
  <2>3. QED BY <2>2, Zenon
<1>3. /\ PartEnds(at, n) /\ \A j \in 1 .. n : at[j] - at[j - 1] = Len(Entry(sent[j], t[j]).bytes)
      /\ PartEnds(more, m)
      /\ \A k \in 1 .. m : more[k] - more[k - 1] = Len(Entry(entries[k].f, entries[k].v).bytes)
  BY <1>1, <1>2 DEF SentParts, EntryParts
<1>4. \A j, k \in 1 .. n : sent[j].key = sent[k].key => j = k
  BY <1>1 DEF MapTyped
<1> DEFINE Holds2(j, k) == entries[k].f = sent[j] /\ entries[k].v = t[j]
           of == [j \in 1 .. n |-> CHOOSE k \in 1 .. m : Holds2(j, k)]
<1>5. \A j \in 1 .. n : \E k \in 1 .. m : Holds2(j, k)
  BY <1>1, <1>2 DEF Carries
<1>6. \A j \in 1 .. n : of[j] \in 1 .. m /\ Holds2(j, of[j])
  BY <1>5
<1>7. Among(at, n, more, m, of)
  <2>1. of \in [1 .. n -> 1 .. m]
    BY <1>6
  <2>2. \A j, k \in 1 .. n : of[j] = of[k] => j = k
    <3> HIDE DEF of
    <3>1. QED BY <1>4, <1>6
  <2>3. \A j \in 1 .. n : at[j] - at[j - 1] = more[of[j]] - more[of[j] - 1]
    <3> HIDE DEF of
    <3>1. QED BY <1>3, <1>6
  <2>4. QED BY <2>1, <2>2, <2>3 DEF Among
<1>8. n <= m /\ at[n] <= more[m]
  <2> HIDE DEF of
  <2>1. QED BY <1>3, <1>7, NoMoreBytes
<1>9. ASSUME ~Repeated PROVE m <= n /\ more[m] <= at[n]
  <2> DEFINE back == [k \in 1 .. m |-> CHOOSE j \in 1 .. n : Holds2(j, k)]
  <2>1. \A j, k \in 1 .. m : entries[j].f.key = entries[k].f.key => j = k
    BY <1>2, <1>9 DEF Repeated
  <2>2. ASSUME NEW k \in 1 .. m PROVE \E j \in 1 .. n : Holds2(j, k)
    <3>1. PICK j \in 1 .. n : entries[k].f = sent[j]
      BY <1>1, <1>2 DEF Carries
    <3>2. PICK l \in 1 .. m : Holds2(j, l)
      BY <1>5
    <3>3. l = k
      BY <2>1, <3>1, <3>2
    <3>4. QED BY <3>2, <3>3
  <2>3. \A k \in 1 .. m : back[k] \in 1 .. n /\ Holds2(back[k], k)
    BY <2>2
  <2>4. Among(more, m, at, n, back)
    <3>1. back \in [1 .. m -> 1 .. n]
      BY <2>3
    <3>2. \A j, k \in 1 .. m : back[j] = back[k] => j = k
      <4> HIDE DEF back
      <4>1. QED BY <2>1, <2>3
    <3>3. \A k \in 1 .. m : more[k] - more[k - 1] = at[back[k]] - at[back[k] - 1]
      <4> HIDE DEF back
      <4>1. QED BY <1>3, <2>3
    <3>4. QED BY <3>1, <3>2, <3>3 DEF Among
  <2> HIDE DEF back
  <2>5. QED BY <1>3, <2>4, NoMoreBytes
<1>10. QED BY <1>1, <1>2, <1>8, <1>9

\* With no field repeated, the message is as long as what was written.
LEMMA AsLong ==
  ASSUME MapTyped, MapMarshals, WholeArrives, ~Repeated
  PROVE  Len(Message(entries)) = Len(out)
<1>1. Carries(entries) /\ MapAllSent
  BY DEF WholeArrives
<1>2. PICK at, more : SentParts(at) /\ EntryParts(more)
  BY <1>1, SentPartsAre, EntryPartsAre
<1>3. /\ Len(sent) \in Arguments /\ Len(sent) \in Nat /\ Len(entries) \in Nat
      /\ Len(MapHead(Len(sent))) \in Nat
  BY <1>1, MapHeadIs DEF MapTyped, Carries
<1>4. /\ Len(sent) <= Len(entries) /\ at[Len(sent)] <= more[Len(entries)]
      /\ Len(entries) <= Len(sent) /\ more[Len(entries)] <= at[Len(sent)]
  BY <1>1, <1>2, SentAmong
<1>5. Len(sent) = Len(entries)
  BY <1>3, <1>4
<1>6. PICK a, b \in Nat : a = at[Len(sent)] /\ b = more[Len(entries)]
  <2>1. at \in [0 .. Len(sent) -> Nat] /\ more \in [0 .. Len(entries) -> Nat]
    BY <1>2 DEF SentParts, EntryParts, PartEnds
  <2>2. Len(sent) \in 0 .. Len(sent) /\ Len(entries) \in 0 .. Len(entries)
    BY <1>3
  <2>3. at[Len(sent)] \in Nat /\ more[Len(entries)] \in Nat
    BY <2>1, <2>2
  <2>4. QED BY <2>3
<1>7. a = b
  BY <1>4, <1>6
<1>8. QED BY <1>2, <1>5, <1>6, <1>7 DEF SentParts, EntryParts

\* Types that differ are compatible, for all messages that are no longer than a map may
\* be and in which ScanForLinks takes what is unknown: fields that both have come back,
\* in whatever order they arrive and whatever follows them, and the bytes that are taken
\* are as many as were written (roundtrip_test.go:375-470).
THEOREM AlwaysCompatible == MapSpec => [](Len(entries) <= MaxLength => Compatible)
<1>1. ASSUME MapIInv, Len(entries) <= MaxLength PROVE Compatible
  <2>1. SUFFICES ASSUME MapArrived, Passable, ~Repeated PROVE ReadsTo(Len(out))
    BY DEF Compatible
  <2>2. WholeArrives /\ DOMAIN entries = 1 .. Len(entries) /\ Len(entries) \in Nat
    BY <1>1, <2>1, MapArrivedIs
  <2>3. \A j \in DOMAIN into : ~Shrinks(into[j])
    BY <2>1, <2>2 DEF Shrinks, Repeated
  <2>4. ReadsTo(Len(Message(entries)))
    BY <1>1, <2>1, <2>3, ReadsToTheEnd
  <2>5. Len(Message(entries)) = Len(out)
    BY <1>1, <2>1, <2>2, AsLong DEF MapIInv, MapSends
  <2>6. QED BY <2>4, <2>5
<1>2. QED BY <1>1, MapAlways, PTL

-----------------------------------------------------------------------------

\* A receiver that has all the sender's fields is not led astray.
LEMMA ClearOfAll ==
  ASSUME MapIInv, state = "ok", out # << CborNull >>, \A j \in DOMAIN into : ~Shrinks(into[j]),
         \A k \in DOMAIN sent : \E j \in DOMAIN into : into[j].key = sent[k].key
  PROVE  Clear
<1>1. MapTyped /\ MapMarshals /\ (AsWritten \/ WholeArrives)
  BY DEF MapIInv, MapSends, MapSending, MapReceives
<1>2. /\ DOMAIN into = 1 .. Len(into) /\ DOMAIN sent = 1 .. Len(sent)
      /\ Len(sent) \in Nat /\ Len(t) \in 0 .. Len(sent)
      /\ \A j, k \in 1 .. Len(sent) : sent[j].key = sent[k].key => j = k
  BY <1>1, MapHeadIs DEF MapTyped, MapMarshals
<1>3. CASE MapRefusal
  <2>1. Carried = [j \in 1 .. Len(t) |-> [f |-> sent[j], v |-> t[j]]]
    BY <1>3 DEF Carried
  <2>2. PICK n \in Nat : n = Len(t) /\ n <= Len(sent)
    BY <1>2
  <2>3. Len(Carried) = n /\ \A k \in 1 .. n : Carried[k].f = sent[k] /\ k \in 1 .. Len(sent)
    BY <1>2, <2>1, <2>2
  <2>4. ASSUME NEW k \in 1 .. Len(Carried) PROVE IsKnown(k)
    <3>1. k \in DOMAIN sent /\ Carried[k].f = sent[k]
      BY <1>2, <2>3
    <3>2. PICK j \in 1 .. Len(into) : into[j].key = sent[k].key
      BY <1>2, <3>1
    <3>3. QED BY <3>1, <3>2 DEF IsKnown, IsFor
  <2>5. NoneShrinks
    <3>1. \A c, k \in 1 .. n : Carried[c].f.key = Carried[k].f.key => c = k
      BY <1>2, <2>3
    <3>2. QED BY <2>3, <3>1 DEF NoneShrinks, IsFor
  <2>6. QED BY <1>3, <2>4, <2>5 DEF Clear
<1>4. CASE ~MapRefusal
  <2>1. ~AsWritten
    <3>1. FALSE \in BOOLEAN
      OBVIOUS
    <3>2. ~MapSent(FALSE)
      BY <1>1, <1>4, <3>1, SentHolds
    <3>3. QED BY <3>2 DEF AsWritten, MapNilSent
  <2>2. WholeArrives /\ Carries(entries)
    BY <1>1, <2>1 DEF WholeArrives
  <2>3. Carried = entries
    BY <1>4 DEF Carried
  <2>4. DOMAIN entries = 1 .. Len(entries)
    BY <2>2 DEF Carries
  <2>5. \A k \in 1 .. Len(Carried) : IsKnown(k)
    BY <1>2, <2>2, <2>3, <2>4 DEF IsKnown, IsFor, Carries
  <2>6. NoneShrinks
    <3>1. \A j \in 1 .. Len(into) : ~Shrinks(into[j])
      BY <1>2
    <3>2. DOMAIN entries = 1 .. Len(Carried)
      BY <2>3, <2>4
    <3>3. QED BY <2>3, <3>1, <3>2 DEF NoneShrinks, Shrinks, IsFor
  <2>7. QED BY <2>5, <2>6 DEF Clear
<1>5. QED BY <1>3, <1>4

\* What is cut short, whatever is repeated in it, or was refused half-way does not
\* unmarshal into a type that has all its fields, and what was nil into none
\* (gen.go:1357-1359): but for an empty byte string after one for the same field that is
\* not, which takes what follows it.
THEOREM AlwaysMapNoneOfAPart == MapSpec => []MapNoneOfAPart
<1>1. ASSUME MapIInv PROVE MapNoneOfAPart
  <2>1. SUFFICES ASSUME state = "ok"
                 PROVE  /\ out # << CborNull >>
                        /\ (\A k \in DOMAIN sent : \E j \in DOMAIN into : into[j].key = sent[k].key)
                           /\ (\A j \in DOMAIN into : ~Shrinks(into[j]))
                             => ~MapRefusal /\ Len(input) >= Len(Message(entries))
    BY DEF MapNoneOfAPart
  <2>2. out # << CborNull >>
    BY <1>1, <2>1 DEF MapIInv, MapReads
  <2>3. SUFFICES ASSUME \A k \in DOMAIN sent : \E j \in DOMAIN into : into[j].key = sent[k].key,
                        \A j \in DOMAIN into : ~Shrinks(into[j])
                 PROVE  ~MapRefusal /\ Len(input) >= Len(Message(entries))
    BY <2>2
  <2>4. Clear
    BY <1>1, <2>1, <2>2, <2>3, ClearOfAll
  <2>5. ~MapRefusal /\ pos = Len(Message(entries)) /\ pos <= Len(input) /\ Delivered
    BY <1>1, <2>1, <2>2, <2>4, MapAllRead, DeliveredIs DEF MapIInv, MapReceives
  <2>6. Len(input) \in Nat /\ pos \in 0 .. Len(input)
    BY <2>1, <2>4, <2>5, <1>1, LenProperties DEF Delivered, MapIInv, MapReads, MapProgress
  <2>7. QED BY <2>5, <2>6
<1>2. QED BY <1>1, MapAlways, PTL
=============================================================================
