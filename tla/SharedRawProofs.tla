-------------------------- MODULE SharedRawProofs --------------------------
(***************************************************************************)
(* For every wire format, limit and stream: what a Deferred keeps is what  *)
(* the stream held, and its counter stays within its bounds; ValidateCBOR  *)
(* accepts what unmarshals into a Deferred, and nothing else.  Whatever    *)
(* room a bytes.Buffer makes for itself, a Deferred that writes into the   *)
(* array of its old Raw still reads what the stream held, and changes      *)
(* nothing that is another's.                                              *)
(***************************************************************************)
EXTENDS SharedRaw, CborProofs

\* While a call is reading, what it has kept and counted is what it has taken;
\* that is what makes RawIsInput true when the call ends.
KeptIsTaken ==
  call = "reading" =>
    /\ buf = SubSeq(input, start + 1, pos)
    /\ bytesRead = pos - start

RawOfLastCall == call # "ok" => Raw = << >>

IInv ==
  /\ input \in Inputs
  /\ TypeOK
  /\ KeptIsTaken
  /\ RawOfLastCall
  /\ RawIsInput
  /\ CounterBounded

LEMMA InitIInv == Init => IInv
<1> SUFFICES ASSUME Init PROVE IInv
  OBVIOUS
<1>1. input \in Seq(Byte) /\ Len(input) \in Nat
  BY InputsAssumption, LenProperties DEF Init
<1>2. QED
  BY <1>1, EmptySeq DEF Init, IInv, TypeOK, KeptIsTaken, RawOfLastCall, RawIsInput, CounterBounded

-----------------------------------------------------------------------------

\* What the header of an element promises.
LEMMA GoodHeader ==
  ASSUME IInv, header.ok
  PROVE  /\ header.n \in Nat \ {0} /\ pos + header.n <= Len(input)
         /\ header.maj \in Majors /\ header.extra \in Nat
         /\ SubSeq(input, pos + 1, pos + header.n) = WriteMajorTypeHeader(header.maj, header.extra)
<1>1. input \in Seq(Byte) /\ pos \in Nat
  BY LenProperties DEF IInv, TypeOK
<1>2. /\ header.maj \in Majors /\ header.extra \in Arguments /\ header.n \in Nat \ {0}
      /\ pos + header.n <= Len(input)
      /\ SubSeq(input, pos + 1, pos + header.n) = WriteMajorTypeHeader(header.maj, header.extra)
  BY <1>1, WritesWhatIsRead DEF header
<1>3. header.extra \in Nat
  <2>1. Limit(Len(Widths)) \in Nat
    BY Sizes, SizesAssumption
  <2>2. QED BY <1>2, <2>1 DEF Arguments
<1>4. QED BY <1>2, <1>3

LEMMA FailKeeps ==
  ASSUME IInv, call = "reading", NEW taken \in Nat, NEW counted \in 0 .. taken,
         pos + taken <= Len(input), Fail(taken, counted)
  PROVE  IInv'
<1>1. /\ pos' = pos + taken /\ bytesRead' = bytesRead + counted /\ call' = "error"
      /\ UNCHANGED <<input, start, remaining, buf, Raw>>
  BY DEF Fail
<1>2. Raw = << >>
  BY DEF IInv, RawOfLastCall
<1>3. Len(input) \in Nat
  BY LenProperties DEF IInv, TypeOK
<1>4. TypeOK'
  BY <1>1, <1>3 DEF IInv, TypeOK
<1>5. QED
  BY <1>1, <1>2, <1>4 DEF IInv, KeptIsTaken, RawOfLastCall, RawIsInput, CounterBounded

\* The counter neither wraps nor outgrows its bound over one element.
LEMMA CounterStep ==
  ASSUME IInv, NEW b \in Nat, NEW n \in Nat \ {0}, NEW k \in Nat,
         bytesRead = b, b + n <= Len(input), remaining > 0, call = "reading",
         k <= 1 \/ k <= 2 * MaxLength
  PROVE  /\ Uint64(Uint64(remaining + k) - 1) = k + (remaining - 1)
         /\ Uint64(Uint64(remaining + k) - 1) \in Nat
         /\ Uint64(Uint64(remaining + k) - 1) <= 1 + 2 * MaxLength * (b + n)
<1> DEFINE D == 2 * MaxLength
           L == Limit(Len(Widths))
           r == remaining
<1>1. /\ D \in Nat /\ L \in Nat /\ r \in Nat /\ r > 0 /\ Len(input) \in Nat
      /\ r <= 1 + D * b
      /\ 2 + D * Len(input) < L
      /\ k <= 1 \/ k <= D
  BY LimitsAssumption, StreamAssumption, SizesAssumption, Sizes, LenProperties
     DEF IInv, TypeOK, CounterBounded
<1> HIDE DEF D, L, r
<1>2. D * b \in Nat /\ D * (b + n) \in Nat /\ D * (b + n) = D * b + D * n
  BY <1>1
<1>3. D * n \in Nat /\ D <= D * n
  <2>1. n - 1 \in Nat /\ D * n = D * (n - 1) + D /\ D * (n - 1) \in Nat
    BY <1>1
  <2>2. QED BY <2>1, <1>1
<1>4. D * (b + n) <= D * Len(input)
  <2> DEFINE m == Len(input) - (b + n)
  <2>1. m \in Nat /\ Len(input) = (b + n) + m
    BY <1>1
  <2> HIDE DEF m
  <2>2. D * Len(input) = D * (b + n) + D * m /\ D * m \in Nat
    BY <2>1, <1>1
  <2>3. QED BY <2>2, <1>2
<1>5. r + k \in Nat /\ r + k < L /\ r + k > 0
  BY <1>1, <1>2, <1>3, <1>4
<1>6. Uint64(r + k) = r + k
  BY <1>1, <1>5 DEF Uint64, L
<1>7. Uint64((r + k) - 1) = (r + k) - 1
  <2>1. (r + k) - 1 \in 0 .. (L - 1)
    BY <1>1, <1>5
  <2>2. QED BY <2>1, <1>1 DEF Uint64, L
<1>8. (r + k) - 1 \in Nat /\ (r + k) - 1 <= 1 + D * (b + n)
  BY <1>1, <1>2, <1>3, <1>5
<1>9. (r + k) - 1 = k + (r - 1)
  BY <1>1
<1>10. QED BY <1>6, <1>7, <1>8, <1>9 DEF r, D

LEMMA ElementKeeps ==
  ASSUME IInv, Element
  PROVE  IInv'
<1> DEFINE n == header.n
           P == Asked
<1>1. /\ call = "reading" /\ remaining > 0 /\ header.ok
      /\ ~TooLong(header.maj, header.extra) /\ There = P
      /\ pos' = pos + n + P
      /\ bytesRead' = bytesRead + n + P
      /\ buf' = buf \o Copied
      /\ remaining' = Uint64(Uint64(remaining + Nested(header.maj, header.extra)) - 1)
      /\ UNCHANGED <<input, start, Raw, call>>
  BY DEF Element
<1>2. /\ n \in Nat \ {0} /\ pos + n <= Len(input)
      /\ header.maj \in Majors /\ header.extra \in Nat
      /\ SubSeq(input, pos + 1, pos + n) = WriteMajorTypeHeader(header.maj, header.extra)
  BY <1>1, GoodHeader
<1>3. P \in Nat
  BY <1>2 DEF Asked, Payload
<1>4. /\ input \in Seq(Byte) /\ Len(input) \in Nat /\ pos \in Nat /\ start \in Nat /\ start <= pos
      /\ bytesRead = pos - start /\ buf = SubSeq(input, start + 1, pos)
  BY <1>1, LenProperties DEF IInv, TypeOK, KeptIsTaken
<1>1a. pos' = pos + n + P
  BY <1>1
<1> HIDE DEF n, P
<1>5. pos + n + P <= Len(input)
  <2>1. P <= Len(input) - (pos + n)
    BY <1>1, <1>2, <1>3, <1>4 DEF There, Left, n, P
  <2>2. QED BY <2>1, <1>2, <1>3, <1>4
<1>6. Copied = SubSeq(input, pos + 1, pos + n + P)
  <2>1. SubSeq(input, pos + 1, pos + n) \o SubSeq(input, (pos + n) + 1, pos + n + P)
          = SubSeq(input, pos + 1, pos + n + P)
    BY <1>2, <1>3, <1>4, <1>5, SliceConcat
  <2>2. QED BY <1>2, <2>1 DEF Copied, n, P
<1>7. buf' = SubSeq(input, start + 1, pos + n + P)
  <2>1. SubSeq(input, start + 1, pos) \o SubSeq(input, pos + 1, pos + n + P)
          = SubSeq(input, start + 1, pos + n + P)
    BY <1>2, <1>3, <1>4, <1>5, SliceConcat
  <2>2. QED BY <1>1, <1>4, <1>6, <2>1
<1>8. buf' \in Seq(Byte)
  BY <1>2, <1>3, <1>4, <1>5, <1>7, SliceType
<1>9. Nested(header.maj, header.extra) \in Nat
      /\ (Nested(header.maj, header.extra) <= 1 \/ Nested(header.maj, header.extra) <= 2 * MaxLength)
  BY <1>1, <1>2, LimitsAssumption DEF Nested, TooLong, IsContainer, MajTag, MajArray, MajMap
<1>10. /\ remaining' \in Nat
       /\ remaining' <= 1 + 2 * MaxLength * (bytesRead + (n + P))
  <2>1. n + P \in Nat \ {0} /\ bytesRead \in Nat /\ bytesRead + (n + P) <= Len(input)
    BY <1>2, <1>3, <1>4, <1>5
  <2>2. QED BY <1>1, <1>9, <2>1, CounterStep
<1>11. bytesRead' = pos' - start' /\ bytesRead' = bytesRead + (n + P)
  BY <1>1, <1>2, <1>3, <1>4 DEF n, P
<1>12. TypeOK'
  <2>1. pos' \in 0 .. Len(input) /\ start \in 0 .. pos' /\ bytesRead' \in 0 .. (pos' - start)
    <3>1. pos' \in Nat /\ pos' <= Len(input) /\ start <= pos'
      BY <1>1a, <1>2, <1>3, <1>4, <1>5
    <3>2. bytesRead' = pos' - start
      BY <1>1, <1>11
    <3>3. start \in Nat
      BY <1>4
    <3>4. QED BY <3>1, <3>2, <3>3, LenProperties, <1>4, Intervals
  <2>2. QED BY <1>1, <1>8, <1>10, <2>1 DEF IInv, TypeOK
<1>13. CounterBounded'
  BY <1>10, <1>11 DEF CounterBounded
<1>14. KeptIsTaken'
  BY <1>1, <1>7, <1>11 DEF KeptIsTaken, n, P
<1>15. RawOfLastCall' /\ RawIsInput'
  BY <1>1 DEF IInv, RawOfLastCall, RawIsInput
<1>16. QED BY <1>1, <1>12, <1>13, <1>14, <1>15 DEF IInv

LEMMA StepIInv == IInv /\ [Next]_vars => IInv'
<1> SUFFICES ASSUME IInv, [Next]_vars PROVE IInv'
  OBVIOUS
<1>0. /\ input \in Seq(Byte) /\ Len(input) \in Nat /\ pos \in 0 .. Len(input) /\ start \in 0 .. pos
      /\ bytesRead \in 0 .. (pos - start)
  BY LenProperties DEF IInv, TypeOK
<1>1. CASE Unmarshal
  <2>1. SubSeq(input, pos + 1, pos) = << >>
    BY <1>0, SubSeqEmpty
  <2>2. QED
    BY <1>1, <1>0, <2>1, EmptySeq, LimitsAssumption
       DEF Unmarshal, IInv, TypeOK, KeptIsTaken, RawOfLastCall, RawIsInput, CounterBounded
<1>2. CASE BadElement
  <2>1. header.n \in 0 .. (Len(input) - pos)
    BY <1>2, <1>0, HeaderTakes DEF BadElement, header
  <2>2. header.n \in Nat /\ 0 \in 0 .. header.n /\ pos + header.n <= Len(input)
    BY <2>1, <1>0
  <2>3. QED BY <1>2, <2>2, FailKeeps DEF BadElement
<1>3. CASE LongElement
  <2>1. header.n \in Nat /\ header.n \in 0 .. header.n /\ pos + header.n <= Len(input)
    BY <1>3, GoodHeader DEF LongElement
  <2>2. QED BY <1>3, <2>1, FailKeeps DEF LongElement
<1>4. CASE CutElement
  <2>1. header.n \in Nat /\ pos + header.n <= Len(input) /\ header.extra \in Nat
    BY <1>4, GoodHeader DEF CutElement
  <2>2. There \in Nat /\ There <= Len(input) - (pos + header.n)
    BY <2>1, <1>0 DEF There, Asked, Payload, Left
  <2>3. /\ header.n + There \in Nat /\ header.n + There \in 0 .. (header.n + There)
        /\ pos + (header.n + There) <= Len(input)
    BY <2>1, <2>2, <1>0
  <2>4. QED BY <1>4, <2>3, FailKeeps DEF CutElement
<1>5. CASE Element
  BY <1>5, ElementKeeps
<1>6. CASE Finish
  <2>1. Len(SubSeq(input, start + 1, pos)) = pos - start
    BY <1>0, SliceType
  <2>2. QED
    BY <1>6, <2>1 DEF Finish, IInv, TypeOK, KeptIsTaken, RawOfLastCall, RawIsInput, CounterBounded
<1>7. CASE UNCHANGED vars
  BY <1>7 DEF vars, IInv, TypeOK, KeptIsTaken, RawOfLastCall, RawIsInput, CounterBounded
<1>8. QED BY <1>1, <1>2, <1>3, <1>4, <1>5, <1>6, <1>7 DEF Next, Step

-----------------------------------------------------------------------------

\* Every variable keeps its type; in particular no call hands out more of the
\* stream than there is, and none returns a length greater than what it took
\* (utils.go:154-222).
THEOREM TypeCorrect == Spec => []TypeOK
<1>1. IInv => TypeOK
  BY DEF IInv
<1>2. QED BY <1>1, InitIInv, StepIInv, PTL DEF Spec

\* However deep and long the item, Raw holds exactly the bytes the stream lost,
\* although its headers were decoded and encoded again, and the length returned
\* is theirs (utils.go:154-222).
THEOREM AlwaysRawIsInput == Spec => []RawIsInput
<1>1. IInv => RawIsInput
  BY DEF IInv
<1>2. QED BY <1>1, InitIInv, StepIInv, PTL DEF Spec

\* The uint64 that counts the items still to be read stays below a bound that
\* only grows with the bytes read, so it never wraps (utils.go:175, 204-215).
THEOREM AlwaysCounterBounded == Spec => []CounterBounded
<1>1. IInv => CounterBounded
  BY DEF IInv
<1>2. QED BY <1>1, InitIInv, StepIInv, PTL DEF Spec

-----------------------------------------------------------------------------

\* The items of the stream, by the grammar.
Counted == ItemsIn(BoundedHeads(input))

\* While a call reads, the items it waits for from here on are what is left of
\* the one item from its start on.
OneItemLeft == call = "reading" => Counted[start][1] = Counted[pos][remaining]

OneItemIInv ==
  /\ IInv
  /\ OneItemLeft
  /\ ReadsOneItem

LEMMA BoundedHeadsType ==
  ASSUME NEW s \in Seq(Byte), NEW L
  PROVE  IsHeads(L, Len(s), BoundedHeads(s))
<1>1. DOMAIN BoundedHeads(s) = 0 .. Len(s)
  BY DEF BoundedHeads
<1>2. ASSUME NEW p \in 0 .. Len(s) PROVE IsHead(L, p, Len(s), BoundedHeads(s)[p])
  <2>1. BoundedHeads(s)[p] = BoundedHead(s, p)
    BY DEF BoundedHeads
  <2>2. IsHead(L, p, Len(s), BadHead(p + CborReadHeaderBuf(s, p).n))
    <3>1. p + CborReadHeaderBuf(s, p).n \in p .. Len(s)
      BY HeaderHere
    <3>2. QED BY <3>1, EmptySeq DEF IsHead, BadHead
  <2>3. IsHead(L, p, Len(s), ItemHead(s, p))
    BY ItemHeadType
  <2>4. QED BY <2>1, <2>2, <2>3 DEF BoundedHead
<1>3. QED BY <1>1, <1>2 DEF IsHeads

\* What the grammar says of the items that are waited for.
LEMMA CountedHere ==
  ASSUME IInv
  PROVE  /\ Counted[pos][0] = Ends(pos, << >>)
         /\ remaining > 0 =>
              /\ ~BoundedHead(input, pos).ok =>
                   Counted[pos][remaining] = Stops(BoundedHead(input, pos).end, BoundedHead(input, pos).links)
              /\ BoundedHead(input, pos).ok /\ BoundedHead(input, pos).links = << >> =>
                   Counted[pos][remaining]
                     = Counted[BoundedHead(input, pos).end][BoundedHead(input, pos).nested + (remaining - 1)]
<1> DEFINE hs == BoundedHeads(input)
           n == Len(input)
           hd == BoundedHead(input, pos)
<1>1. n \in Nat /\ pos \in 0 .. n /\ remaining \in Nat /\ input \in Seq(Byte)
  BY LenProperties DEF IInv, TypeOK
<1>2. IsHeads(Byte, n, hs) /\ hs[pos] = hd
  BY <1>1, BoundedHeadsType DEF BoundedHeads
<1> HIDE DEF hs, n, hd
<1>0. Counts(ItemsIn(hs), hs, n)
  BY <1>1, <1>2, CountsAsNested
<1>3. ItemsIn(hs)[pos][0] = Ends(pos, << >>)
  BY <1>0, <1>1 DEF Counts
<1>4. ASSUME remaining > 0, ~hd.ok PROVE ItemsIn(hs)[pos][remaining] = Stops(hd.end, hd.links)
  BY <1>0, <1>1, <1>2, <1>4 DEF Counts
<1>5. ASSUME remaining > 0, hd.ok, hd.links = << >>
      PROVE  ItemsIn(hs)[pos][remaining] = ItemsIn(hs)[hd.end][hd.nested + (remaining - 1)]
  <2>1. remaining \in Nat \ {0} /\ remaining - 1 \in Nat
    BY <1>1, <1>5
  <2>2. ItemsIn(hs)[pos][remaining] = Behind(hd.links, ItemsIn(hs)[hd.end][hd.nested + (remaining - 1)])
    BY <1>0, <1>1, <1>2, <1>5, <2>1 DEF Counts
  <2>3. hd.end \in pos .. n /\ hd.end > pos /\ hd.nested \in Nat
    BY <1>1, <1>2, <1>5 DEF IsHeads, IsHead
  <2>4. hd.end \in 0 .. n /\ hd.end \in Nat /\ hd.nested + (remaining - 1) \in Nat
    BY <1>1, <2>1, <2>3
  <2>5. ItemsIn(hs)[hd.end][hd.nested + (remaining - 1)] \in Yields(Byte, hd.end, n)
    BY <1>1, <1>2, <2>4, Recursion DEF Solves
  <2>6. Behind(<< >>, ItemsIn(hs)[hd.end][hd.nested + (remaining - 1)])
          = ItemsIn(hs)[hd.end][hd.nested + (remaining - 1)]
    BY <1>1, <2>4, <2>5, EmptySeq, BehindAll
  <2>7. QED BY <1>5, <2>2, <2>6
<1>6. QED BY <1>3, <1>4, <1>5 DEF hs, n, hd, Counted

LEMMA InitOneItem == Init => OneItemIInv
<1> SUFFICES ASSUME Init PROVE OneItemIInv
  OBVIOUS
<1>1. IInv
  BY InitIInv
<1>2. QED BY <1>1 DEF Init, OneItemIInv, OneItemLeft, ReadsOneItem

\* A call that fails does so where the grammar stops.
LEMMA FailStops ==
  ASSUME OneItemIInv, call = "reading", remaining > 0, NEW taken, NEW counted, Fail(taken, counted),
         ~BoundedHead(input, pos).ok, BoundedHead(input, pos).end = pos + taken,
         BoundedHead(input, pos).links = << >>
  PROVE  OneItemLeft' /\ ReadsOneItem'
<1>1. /\ call' = "error" /\ pos' = pos + taken /\ UNCHANGED <<input, start, Raw>>
      /\ Raw = << >>
  BY DEF Fail, OneItemIInv, IInv, RawOfLastCall
<1>2. Counted[start][1] = Stops(pos + taken, << >>)
  BY CountedHere DEF OneItemIInv, OneItemLeft
<1>3. ItemAt(input, start) = Stops(pos', << >>)
  BY <1>1, <1>2 DEF ItemAt, Counted
<1>4. QED BY <1>1, <1>3 DEF OneItemLeft, ReadsOneItem

LEMMA StepOneItem == OneItemIInv /\ [Next]_vars => OneItemIInv'
<1> SUFFICES ASSUME OneItemIInv, [Next]_vars PROVE OneItemIInv'
  OBVIOUS
<1> USE DEF OneItemIInv
<1>0. IInv'
  BY StepIInv
<1>1. /\ input \in Seq(Byte) /\ Len(input) \in Nat /\ pos \in 0 .. Len(input) /\ pos \in Nat
      /\ remaining \in Nat
  BY LenProperties DEF IInv, TypeOK
<1>2. /\ ~header.ok => ItemHead(input, pos) = BadHead(pos + header.n)
      /\ header.ok /\ (pos + header.n) + Asked <= Len(input) =>
           ItemHead(input, pos)
             = GoodHead((pos + header.n) + Asked, Nested(header.maj, header.extra), << >>)
      /\ header.ok /\ ~((pos + header.n) + Asked <= Len(input)) => ItemHead(input, pos) = BadHead(Len(input))
  BY <1>1, ItemHeadIs DEF header, Asked
<1>3. /\ header.ok /\ TooLong(header.maj, header.extra) =>
           BoundedHead(input, pos) = BadHead(pos + header.n)
      /\ ~(header.ok /\ TooLong(header.maj, header.extra)) =>
           BoundedHead(input, pos) = ItemHead(input, pos)
  BY DEF BoundedHead, header
<1>4. CASE Unmarshal
  <2>1. /\ start' = pos /\ remaining' = 1 /\ Raw' = << >> /\ call' = "reading"
        /\ UNCHANGED <<input, pos>>
    BY <1>4 DEF Unmarshal
  <2>2. OneItemLeft'
    BY <2>1 DEF OneItemLeft, Counted
  <2>3. ReadsOneItem'
    BY <2>1 DEF ReadsOneItem
  <2>4. QED BY <1>0, <2>2, <2>3
<1>5. CASE BadElement
  <2>1. BoundedHead(input, pos) = BadHead(pos + header.n)
    BY <1>2, <1>3, <1>5 DEF BadElement
  <2>2. QED BY <1>0, <1>5, <2>1, FailStops DEF BadElement, BadHead
<1>6. CASE LongElement
  BY <1>0, <1>3, <1>6, FailStops DEF LongElement, BadHead
<1>7. CASE CutElement
  <2>1. header.ok /\ ~TooLong(header.maj, header.extra) /\ There < Asked
    BY <1>7 DEF CutElement
  <2> DEFINE n == header.n
             P == Asked
  <2>2. n \in Nat /\ P \in Nat /\ pos + n <= Len(input)
    BY <2>1, GoodHeader DEF Asked, Payload
  <2>3. There = Len(input) - (pos + n) /\ ~((pos + n) + P <= Len(input)) /\ pos + (n + There) = Len(input)
    <3>1. There = IF P <= Left THEN P ELSE Left
      BY DEF There
    <3>2. Left = Len(input) - (pos + n) /\ There < P
      BY <2>1 DEF Left
    <3> HIDE DEF n, P
    <3>3. QED BY <3>1, <3>2, <2>2, <1>1
  <2>4. BoundedHead(input, pos) = BadHead(pos + (header.n + There))
    BY <1>2, <1>3, <2>1, <2>3
  <2>5. QED BY <1>0, <1>7, <2>4, FailStops DEF CutElement, BadHead
<1>8. CASE Element
  <2>1. /\ call = "reading" /\ remaining > 0 /\ header.ok
        /\ ~TooLong(header.maj, header.extra) /\ There = Asked
        /\ pos' = pos + header.n + Asked
        /\ remaining' = Uint64(Uint64(remaining + Nested(header.maj, header.extra)) - 1)
        /\ UNCHANGED <<input, start, Raw, call>>
    BY <1>8 DEF Element
  <2> DEFINE n == header.n
             P == Asked
             k == Nested(header.maj, header.extra)
  <2>2. n \in Nat \ {0} /\ P \in Nat /\ pos + n <= Len(input) /\ header.extra \in Nat
    BY <2>1, GoodHeader DEF Asked, Payload
  <2>3. k \in Nat /\ (k <= 1 \/ k <= 2 * MaxLength)
    BY <2>1, <2>2, LimitsAssumption DEF Nested, TooLong, IsContainer, MajTag, MajArray, MajMap
  <2>4. (pos + n) + P <= Len(input) /\ bytesRead = pos - start /\ start \in Nat /\ start <= pos
    <3>1. There = IF P <= Left THEN P ELSE Left
      BY DEF There
    <3>2. Left = Len(input) - (pos + n) /\ There = P
      BY <2>1 DEF Left
    <3>3. start \in 0 .. pos /\ bytesRead = pos - start
      BY <2>1 DEF IInv, TypeOK, KeptIsTaken
    <3> HIDE DEF n, P
    <3>4. QED BY <3>1, <3>2, <3>3, <2>2, <1>1
  <2>5. remaining' = k + (remaining - 1)
    <3>1. PICK m \in Nat \ {0} : m = n
      BY <2>2
    <3>2. bytesRead \in Nat /\ bytesRead + m <= Len(input)
      <4> HIDE DEF n
      <4>1. QED BY <2>2, <2>4, <3>1, <1>1
    <3>3. Uint64(Uint64(remaining + k) - 1) = k + (remaining - 1)
      <4> HIDE DEF k
      <4>1. QED BY <2>1, <2>3, <3>2, CounterStep
    <3>4. QED BY <2>1, <3>3
  <2>6. BoundedHead(input, pos) = GoodHead(pos', k, << >>)
    BY <1>2, <1>3, <2>1, <2>4
  <2>7. Counted[pos][remaining] = Counted[pos'][remaining']
    BY <2>1, <2>5, <2>6, CountedHere DEF GoodHead
  <2>8. Counted' = Counted
    BY <2>1 DEF Counted
  <2>9. OneItemLeft'
    BY <2>1, <2>7, <2>8 DEF OneItemLeft
  <2>10. ReadsOneItem'
    BY <2>1 DEF ReadsOneItem, IInv, RawOfLastCall
  <2>11. QED BY <1>0, <2>9, <2>10
<1>9. CASE Finish
  <2>1. /\ call = "reading" /\ remaining = 0 /\ call' = "ok" /\ UNCHANGED <<input, pos, start>>
    BY <1>9 DEF Finish
  <2>2. Counted[start][1] = Ends(pos, << >>)
    BY <2>1, CountedHere DEF OneItemLeft
  <2>3. QED BY <1>0, <2>1, <2>2 DEF OneItemLeft, ReadsOneItem, Counted, ItemAt
<1>10. CASE UNCHANGED vars
  BY <1>0, <1>10 DEF vars, OneItemLeft, ReadsOneItem, Counted
<1>11. QED BY <1>0, <1>4, <1>5, <1>6, <1>7, <1>8, <1>9, <1>10 DEF Next, Step

\* A Deferred takes one item, whatever nests in it, and fails only where the
\* stream stops being one: the counter never loses its place (utils.go:154-222).
THEOREM AlwaysReadsOneItem == Spec => []ReadsOneItem
<1>1. OneItemIInv => ReadsOneItem
  BY DEF OneItemIInv
<1>2. QED BY <1>1, InitOneItem, StepOneItem, PTL DEF Spec

-----------------------------------------------------------------------------

\* While both read, the two loops are at the same byte, and wait for the same
\* items.
InStep ==
  verdict = "reading" => call = "reading" /\ vpos = pos /\ vremaining = remaining

NotCalledYet ==
  verdict = "none" => pos = 0 /\ vpos = 0

\* An item has at least one byte, so that Raw is never left empty by one.
SomethingRead ==
  verdict = "reading" /\ remaining = 0 => bytesRead > 0

BothIInv ==
  /\ IInv
  /\ ValidateTypeOK
  /\ InStep
  /\ NotCalledYet
  /\ SomethingRead

\* Validate has the operators of CborItem under names of its own.
LEMMA SameLimit ==
  /\ V!Radix = Radix
  /\ \A i : V!Limit(i) = Limit(i)
BY DEF V!Radix, Radix, V!Limit, Limit

LEMMA SameArgument ==
  ASSUME NEW s, NEW p, NEW maj, NEW i
  PROVE  V!ReadArgument(s, p, maj, i) = ReadArgument(s, p, maj, i)
BY SameLimit DEF V!ReadArgument, ReadArgument, V!Header, Header, V!BadHeader, BadHeader,
                 V!Canonical, Canonical, V!Fits, Fits

LEMMA SameReader ==
  ASSUME NEW s, NEW p
  PROVE  V!CborReadHeaderBuf(s, p) = CborReadHeaderBuf(s, p)
BY SameArgument DEF V!CborReadHeaderBuf, CborReadHeaderBuf, V!Header, Header, V!BadHeader, BadHeader

LEMMA SamePayload ==
  ASSUME NEW maj, NEW extra
  PROVE  V!Payload(maj, extra) = Payload(maj, extra)
BY DEF V!Payload, Payload, V!IsString, IsString, V!MajByteString, MajByteString,
       V!MajTextString, MajTextString

LEMMA Uint64Type ==
  ASSUME NEW n \in Int
  PROVE  Uint64(n) \in 0 .. (Limit(Len(Widths)) - 1)
BY Sizes, SizesAssumption DEF Uint64

LEMMA Uint64Nat ==
  ASSUME NEW n \in Int
  PROVE  Uint64(n) \in Nat
<1>1. Limit(Len(Widths)) \in Nat
  BY Sizes, SizesAssumption
<1>2. Uint64(n) \in 0 .. (Limit(Len(Widths)) - 1)
  BY Uint64Type
<1>3. QED BY <1>1, <1>2

LEMMA InitBoth == BothInit => BothIInv
<1> SUFFICES ASSUME BothInit PROVE BothIInv
  OBVIOUS
<1>1. IInv
  BY InitIInv DEF BothInit
<1>2. Len(input) \in Nat
  BY <1>1, LenProperties DEF IInv, TypeOK
<1>3. ValidateTypeOK
  BY <1>2, Sizes, SizesAssumption, SameLimit DEF BothInit, V!Init, Init, ValidateTypeOK, V!TypeOK
<1>4. QED
  BY <1>1, <1>3 DEF BothInit, V!Init, Init, BothIInv, InStep, NotCalledYet, SomethingRead

\* The two loops see the same header, and the same payload after it.
LEMMA SameHeader ==
  ASSUME BothIInv, verdict = "reading"
  PROVE  V!header = header /\ V!Asked = Asked /\ V!BytesLeft = Left
<1>1. vpos = pos
  BY DEF BothIInv, InStep
<1>2. V!header = header
  BY <1>1, SameReader DEF V!header, header
<1>3. QED BY <1>1, <1>2, SamePayload DEF V!Asked, Asked, V!BytesLeft, Left

LEMMA StartKeeps ==
  ASSUME BothIInv, Start
  PROVE  BothIInv'
<1>1. IInv'
  BY StepIInv DEF BothIInv, Start, Next
<1>2. /\ verdict = "none" /\ vremaining' = 1 /\ verdict' = "reading" /\ vpos' = vpos
      /\ input' = input /\ pos' = pos /\ start' = pos /\ remaining' = 1 /\ bytesRead' = 0
      /\ Raw' = << >> /\ call' = "reading"
  BY DEF Start, V!ValidateCBOR, Unmarshal
<1>3. pos = 0 /\ vpos = 0
  BY <1>2 DEF BothIInv, NotCalledYet
<1>4. ValidateTypeOK'
  <2>1. 1 \in 0 .. (Limit(Len(Widths)) - 1)
    <3>1. input \in Inputs /\ Len(input) \in Nat
      BY LenProperties DEF BothIInv, IInv, TypeOK
    <3>2. 2 * MaxLength * Len(input) \in Nat
      BY <3>1, LimitsAssumption
    <3>3. 2 + 2 * MaxLength * Len(input) < Limit(Len(Widths)) /\ Limit(Len(Widths)) \in Nat
      BY <3>1, StreamAssumption, Sizes, SizesAssumption
    <3>4. QED BY <3>2, <3>3
  <2>2. QED BY <1>2, <2>1, SameLimit DEF BothIInv, ValidateTypeOK, V!TypeOK
<1>5. QED
  BY <1>1, <1>2, <1>3, <1>4 DEF BothIInv, InStep, NotCalledYet, SomethingRead

\* An iteration that fails in one loop fails in the other.
LEMMA FailKeepsBoth ==
  ASSUME BothIInv, call = "reading", IInv',
         call' = "error", verdict' = "error", UNCHANGED <<input, vremaining, Raw>>,
         vpos' \in 0 .. Len(input)
  PROVE  BothIInv' /\ Agree
<1>1. Raw = << >>
  BY DEF BothIInv, IInv, RawOfLastCall
<1>2. ValidateTypeOK'
  BY DEF BothIInv, ValidateTypeOK, V!TypeOK
<1>3. QED
  BY <1>1, <1>2 DEF BothIInv, InStep, NotCalledYet, SomethingRead, Agree

\* An item has at least one byte.
LEMMA SomethingKept ==
  ASSUME BothIInv, verdict = "reading", remaining = 0
  PROVE  buf # << >>
<1>1. /\ call = "reading" /\ bytesRead > 0
      /\ buf = SubSeq(input, start + 1, pos) /\ bytesRead = pos - start
  BY DEF BothIInv, InStep, SomethingRead, IInv, KeptIsTaken
<1>2. /\ input \in Seq(Byte) /\ Len(input) \in Nat /\ pos \in Nat /\ pos <= Len(input)
      /\ start \in Nat /\ start <= pos
  BY LenProperties DEF BothIInv, IInv, TypeOK
<1>3. Len(buf) = pos - start
  BY <1>1, <1>2, SliceType
<1>4. Len(<< >>) = 0
  BY EmptySeq
<1>5. QED BY <1>1, <1>2, <1>3, <1>4

LEMMA BothStepKeeps ==
  ASSUME BothIInv, BothStep
  PROVE  BothIInv' /\ Agree
<1>1. IInv /\ IInv'
  BY StepIInv DEF BothIInv, BothStep, Next
<1>2. call = "reading" /\ verdict = "reading" /\ vpos = pos /\ vremaining = remaining
  <2>1. verdict = "reading"
    BY DEF BothStep, V!Step, V!BadElement, V!LongElement, V!Element, V!Finish
  <2>2. QED BY <2>1 DEF BothIInv, InStep
<1>3. V!header = header /\ V!Asked = Asked /\ V!BytesLeft = Left
  BY <1>2, SameHeader
<1>4. /\ input \in Seq(Byte) /\ Len(input) \in Nat /\ pos \in Nat /\ pos <= Len(input)
      /\ vpos \in 0 .. Len(input)
  BY <1>1, <1>2, LenProperties DEF IInv, TypeOK
<1>5. header.n \in Nat /\ pos + header.n <= Len(input)
  <2>1. CASE header.ok
    BY <2>1, <1>1, GoodHeader
  <2>2. CASE ~header.ok
    <3>1. pos \in 0 .. Len(input)
      BY <1>4
    <3>2. header.n \in 0 .. (Len(input) - pos)
      BY <2>2, <3>1, <1>4, HeaderTakes DEF header
    <3>3. QED BY <3>2, <1>4
  <2>3. QED BY <2>1, <2>2
<1>6. header.ok => Asked \in Nat /\ Left \in Nat /\ header.n > 0
  <2>1. header.ok => header.n \in Nat \ {0} /\ header.extra \in Nat
    BY <1>1, GoodHeader
  <2>2. Left \in Nat
    BY <1>4, <1>5 DEF Left
  <2>3. QED BY <2>1, <2>2 DEF Asked, Payload
<1>7. ASSUME BadElement \/ LongElement \/ CutElement, V!BadElement \/ V!LongElement
      PROVE  BothIInv' /\ Agree
  <2>1. /\ call' = "error" /\ verdict' = "error" /\ UNCHANGED <<input, vremaining, Raw>>
        /\ vpos' = vpos + header.n
    BY <1>7, <1>3 DEF BadElement, LongElement, CutElement, Fail, V!BadElement, V!LongElement, V!Reject
  <2>2. vpos' \in 0 .. Len(input)
    BY <2>1, <1>2, <1>4, <1>5
  <2>3. QED BY <1>1, <1>2, <2>1, <2>2, FailKeepsBoth
<1>8. ASSUME Element, V!Element
      PROVE  BothIInv' /\ Agree
  <2>1. /\ header.ok
        /\ pos' = pos + header.n + Asked
        /\ bytesRead' = bytesRead + header.n + Asked
        /\ remaining' = Uint64(Uint64(remaining + Nested(header.maj, header.extra)) - 1)
        /\ vpos' = vpos + header.n + Asked
        /\ vremaining' = Uint64(Uint64(vremaining + Nested(header.maj, header.extra)) - 1)
        /\ UNCHANGED <<input, start, Raw, call, verdict>>
    BY <1>8, <1>3, SameLimit
       DEF Element, V!Element, Uint64, Nested, V!Uint64, V!Nested,
           MajTag, MajArray, MajMap, V!MajTag, V!MajArray, V!MajMap
  <2>2. vpos' = pos' /\ vremaining' = remaining'
    BY <2>1, <1>2
  <2>3. bytesRead' > 0
    <3>1. bytesRead \in Nat
      BY <1>1, <1>4 DEF IInv, TypeOK
    <3>2. QED BY <2>1, <1>6, <1>5, <3>1
  <2>4. ValidateTypeOK'
    <3>1. pos' \in 0 .. Len(input)
      BY <1>1, <2>1 DEF IInv, TypeOK
    <3>2. remaining' \in 0 .. (Limit(Len(Widths)) - 1)
      <4>1. Uint64(remaining + Nested(header.maj, header.extra)) - 1 \in Int
        <5>1. header.extra \in Nat /\ remaining \in Nat
          BY <1>1, <2>1, GoodHeader DEF IInv, TypeOK
        <5>2. remaining + Nested(header.maj, header.extra) \in Int
          BY <5>1 DEF Nested
        <5>3. Uint64(remaining + Nested(header.maj, header.extra)) \in Int
          BY <5>2, Uint64Nat
        <5>4. QED BY <5>3
      <4>2. QED BY <2>1, <4>1, Uint64Type
    <3>3. QED BY <3>1, <3>2, <2>1, <2>2, <1>2, SameLimit DEF BothIInv, ValidateTypeOK, V!TypeOK
  <2>5. Raw = << >>
    BY <1>1, <1>2 DEF IInv, RawOfLastCall
  <2>6. QED
    BY <1>1, <1>2, <2>1, <2>2, <2>3, <2>4, <2>5
       DEF BothIInv, InStep, NotCalledYet, SomethingRead, Agree
<1>9. ASSUME Finish, V!Finish
      PROVE  BothIInv' /\ Agree
  <2>1. /\ remaining = 0 /\ Raw' = buf /\ call' = "ok" /\ UNCHANGED <<input, pos, vpos, vremaining>>
        /\ verdict' = IF vpos = Len(input) THEN "ok" ELSE "error"
    BY <1>9 DEF Finish, V!Finish, V!NothingFollows
  <2>2. buf # << >>
    BY <1>2, <2>1, SomethingKept
  <2>3. ValidateTypeOK'
    BY <2>1 DEF BothIInv, ValidateTypeOK, V!TypeOK
  <2>4. QED
    BY <1>1, <1>2, <2>1, <2>2, <2>3 DEF BothIInv, InStep, NotCalledYet, SomethingRead, Agree
<1>10. \/ (BadElement \/ LongElement \/ CutElement) /\ (V!BadElement \/ V!LongElement)
       \/ Element /\ V!Element
       \/ Finish /\ V!Finish
  <2>1. header.ok => (There = Asked <=> Left >= Asked) /\ (There < Asked <=> Left < Asked)
    BY <1>6 DEF There
  <2>2. TooLong(header.maj, header.extra) <=> V!TooLong(header.maj, header.extra)
    BY DEF TooLong, V!TooLong, IsString, V!IsString, IsContainer, V!IsContainer,
           MajByteString, MajTextString, MajArray, MajMap,
           V!MajByteString, V!MajTextString, V!MajArray, V!MajMap
  <2>3. CASE BadElement
    BY <2>3, <1>2, <1>3 DEF BothStep, V!Step, BadElement, V!LongElement, V!BadElement, V!Element, V!Finish
  <2>4. CASE LongElement
    BY <2>4, <1>2, <1>3, <2>2
       DEF BothStep, V!Step, LongElement, V!LongElement, V!BadElement, V!Element, V!Finish
  <2>5. CASE CutElement
    BY <2>5, <1>2, <1>3, <1>6, <2>1
       DEF BothStep, V!Step, CutElement, V!LongElement, V!BadElement, V!Element, V!Finish
  <2>6. CASE Element
    BY <2>6, <1>2, <1>3, <1>6, <2>1, <2>2
       DEF BothStep, V!Step, Element, V!LongElement, V!BadElement, V!Element, V!Finish
  <2>7. CASE Finish
    BY <2>7, <1>2 DEF BothStep, V!Step, Finish, V!LongElement, V!BadElement, V!Element, V!Finish
  <2>8. QED BY <2>3, <2>4, <2>5, <2>6, <2>7 DEF BothStep, Step
<1>11. QED BY <1>7, <1>8, <1>9, <1>10

\* Once there is a verdict, the Deferred does not touch it.
LEMMA AloneKeeps ==
  ASSUME BothIInv, Again \/ StepAlone
  PROVE  BothIInv'
<1>1. IInv'
  BY StepIInv DEF BothIInv, Again, StepAlone, Next
<1>2. Validated /\ UNCHANGED <<vpos, vremaining, verdict>>
  BY DEF Again, StepAlone, validateVars
<1>3. input' = input
  BY DEF Again, StepAlone, Unmarshal, Step, BadElement, LongElement, CutElement, Fail, Element, Finish
<1>4. ValidateTypeOK'
  BY <1>2, <1>3 DEF BothIInv, ValidateTypeOK, V!TypeOK
<1>5. QED
  BY <1>1, <1>2, <1>4 DEF BothIInv, InStep, NotCalledYet, SomethingRead, Validated

LEMMA StepBoth == BothIInv /\ [BothNext]_bothVars => BothIInv'
<1> SUFFICES ASSUME BothIInv, [BothNext]_bothVars PROVE BothIInv'
  OBVIOUS
<1>1. CASE Start
  BY <1>1, StartKeeps
<1>2. CASE BothStep
  BY <1>2, BothStepKeeps
<1>3. CASE Again \/ StepAlone
  BY <1>3, AloneKeeps
<1>4. CASE UNCHANGED bothVars
  <2>1. IInv'
    BY <1>4, StepIInv DEF BothIInv, bothVars
  <2>2. QED
    BY <1>4, <2>1
       DEF bothVars, validateVars, vars, BothIInv, ValidateTypeOK, V!TypeOK, InStep, NotCalledYet,
           SomethingRead
<1>5. QED BY <1>1, <1>2, <1>3, <1>4 DEF BothNext

LEMMA StepAgrees ==
  BothIInv /\ [BothNext]_bothVars => [verdict = "reading" => Agree]_bothVars
<1> SUFFICES ASSUME BothIInv, BothNext, verdict = "reading" PROVE Agree
  OBVIOUS
<1>1. ~Start
  BY DEF Start, V!ValidateCBOR
<1>2. ~(Again \/ StepAlone)
  BY DEF Again, StepAlone, Validated
<1>3. QED BY <1>1, <1>2, BothStepKeeps DEF BothNext

-----------------------------------------------------------------------------

\* ValidateCBOR never skips past the end of the byte array, and its counter never
\* leaves its 64 bits (validate.go:19-54).
THEOREM ValidateTypeCorrect == BothSpec => []ValidateTypeOK
<1>1. BothIInv => ValidateTypeOK
  BY DEF BothIInv
<1>2. QED BY <1>1, InitBoth, StepBoth, PTL DEF BothSpec

\* "Basically identical" (validate.go:11): whatever the bytes, ValidateCBOR and
\* Deferred.UnmarshalCBOR end in the same iteration, and the bytes are valid if
\* and only if they unmarshal and none is left over.
THEOREM AlwaysSameVerdict == BothSpec => SameVerdict
BY InitBoth, StepBoth, StepAgrees, PTL DEF BothSpec, SameVerdict

-----------------------------------------------------------------------------

\* A verdict is about the whole byte array.
ValidIsOneItem ==
  verdict \in {"ok", "error"} => (verdict = "ok" <=> ItemAt(input, 0) = Ends(Len(input), << >>))

ValidIInv ==
  /\ BothIInv
  /\ OneItemIInv
  /\ verdict = "reading" => start = 0
  /\ ValidIsOneItem

LEMMA InitValid == BothInit => ValidIInv
<1> SUFFICES ASSUME BothInit PROVE ValidIInv
  OBVIOUS
<1>1. BothIInv
  BY InitBoth
<1>2. OneItemIInv
  BY InitOneItem DEF BothInit
<1>3. verdict = "none"
  BY DEF BothInit, V!Init
<1>4. QED BY <1>1, <1>2, <1>3 DEF ValidIInv, ValidIsOneItem

LEMMA StepValid == ValidIInv /\ [BothNext]_bothVars => ValidIInv'
<1> SUFFICES ASSUME ValidIInv, [BothNext]_bothVars PROVE ValidIInv'
  OBVIOUS
<1> USE DEF ValidIInv
<1>1. BothIInv'
  BY StepBoth
<1>2. [Next]_vars
  BY DEF BothNext, Start, BothStep, Again, StepAlone, Next, bothVars
<1>3. OneItemIInv'
  BY <1>2, StepOneItem
<1>4. input' = input
  BY <1>2 DEF Next, vars, Unmarshal, Step, BadElement, LongElement, CutElement, Fail, Element, Finish
<1>5. CASE Start
  <2>1. verdict = "none" /\ verdict' = "reading" /\ start' = pos
    BY <1>5 DEF Start, V!ValidateCBOR, Unmarshal
  <2>2. QED BY <1>1, <1>3, <2>1 DEF BothIInv, NotCalledYet, ValidIsOneItem
<1>6. CASE BothStep
  <2>1. verdict = "reading" /\ start = 0 /\ Step /\ V!Step
    BY <1>6 DEF BothStep, V!Step, V!BadElement, V!LongElement, V!Element, V!Finish
  <2>2. start' = start
    BY <2>1 DEF Step, BadElement, LongElement, CutElement, Fail, Element, Finish
  <2>3. Agree
    BY <1>6, BothStepKeeps
  <2>4. call' = "ok" => Raw' # << >>
    <3>1. ASSUME call' = "ok" PROVE remaining = 0 /\ Raw' = buf
      BY <2>1, <3>1 DEF Step, BadElement, LongElement, CutElement, Fail, Element, Finish
    <3>2. QED BY <2>1, <3>1, SomethingKept
  <2>5. call' \in {"reading", "ok", "error"}
    BY <1>1 DEF BothIInv, IInv, TypeOK
  <2>6. ValidIsOneItem'
    <3>1. CASE call' = "reading"
      BY <2>3, <3>1 DEF Agree, ValidIsOneItem
    <3>2. CASE call' = "error"
      <4>1. ItemAt(input', 0) = Stops(pos', << >>)
        BY <1>3, <2>1, <2>2, <3>2 DEF OneItemIInv, ReadsOneItem
      <4>2. Raw' = << >>
        BY <1>1, <3>2 DEF BothIInv, IInv, RawOfLastCall
      <4>3. QED BY <2>3, <4>1, <4>2 DEF Agree, ValidIsOneItem, Stops, Ends
    <3>3. CASE call' = "ok"
      <4>1. ItemAt(input', 0) = Ends(pos', << >>)
        BY <1>3, <2>1, <2>2, <2>4, <3>3 DEF OneItemIInv, ReadsOneItem
      <4>2. Ends(pos', << >>) = Ends(Len(input'), << >>) <=> pos' = Len(input')
        BY DEF Ends
      <4>3. verdict' = "ok" <=> pos' = Len(input')
        BY <1>4, <2>3, <2>4, <3>3 DEF Agree
      <4>4. QED BY <4>1, <4>2, <4>3 DEF ValidIsOneItem
    <3>4. QED BY <2>5, <3>1, <3>2, <3>3
  <2>7. QED BY <1>1, <1>3, <2>1, <2>2, <2>6
<1>7. CASE Again \/ StepAlone
  <2>1. Validated /\ verdict' = verdict
    BY <1>7 DEF Again, StepAlone, validateVars
  <2>2. QED BY <1>1, <1>3, <1>4, <2>1 DEF Validated, ValidIsOneItem
<1>8. CASE UNCHANGED bothVars
  <2>1. UNCHANGED <<input, start, verdict>>
    BY <1>8 DEF bothVars, vars, validateVars
  <2>2. QED BY <1>1, <1>3, <2>1 DEF ValidIsOneItem
<1>9. QED BY <1>5, <1>6, <1>7, <1>8 DEF BothNext

\* ValidateCBOR accepts a byte array if and only if it is one item and nothing
\* after it, however deep the item (validate.go:11-58).
THEOREM AlwaysValidIsOneItem == BothSpec => []ValidIsOneItem
<1>1. ValidIInv => ValidIsOneItem
  BY DEF ValidIInv
<1>2. QED BY <1>1, InitValid, StepValid, PTL DEF BothSpec

-----------------------------------------------------------------------------

IsArrays(xs) == xs \in Seq(Seq(Byte)) /\ xs # << >>

IsSlice(xs, sl) ==
  /\ sl \in [arr : 0 .. Len(xs), len : Nat]
  /\ sl.len <= Capacity(xs, sl)

\* A slice holds these bytes.
Holds(xs, sl, bytes) ==
  /\ IsSlice(xs, sl)
  /\ bytes \in Seq(Byte)
  /\ Len(bytes) = sl.len
  /\ \A j \in 1 .. sl.len : xs[sl.arr][j] = bytes[j]

\* The buffer has grown by these bytes, perhaps into a new array.  Nothing but the
\* places that follow it in its old one has changed.
Untouched(xs, sl, k, ys) ==
  \A i \in 1 .. Len(xs) :
    /\ Len(ys[i]) = Len(xs[i])
    /\ \A j \in 1 .. Len(xs[i]) :
         \/ ys[i][j] = xs[i][j]
         \/ i = sl.arr /\ j > sl.len /\ j <= sl.len + k

Extends(xs, sl, bytes, ys, tl) ==
  /\ IsArrays(ys) /\ Len(xs) <= Len(ys)
  /\ IsSlice(ys, tl)
  /\ tl.arr = sl.arr \/ tl.arr > Len(xs)
  /\ tl.len = sl.len + Len(bytes)
  /\ Untouched(xs, sl, Len(bytes), ys)
  /\ \A j \in 1 .. sl.len : ys[tl.arr][j] = xs[sl.arr][j]
  /\ \A j \in 1 .. Len(bytes) : ys[tl.arr][sl.len + j] = bytes[j]

LEMMA NotZero ==
  ASSUME NEW k \in Nat, NEW n \in 0 .. k, n # 0
  PROVE  n \in 1 .. k
OBVIOUS

LEMMA ArrayType ==
  ASSUME NEW xs, IsArrays(xs)
  PROVE  /\ Len(xs) \in Nat \ {0}
         /\ \A i \in 1 .. Len(xs) : xs[i] \in Seq(Byte) /\ Len(xs[i]) \in Nat
<1>1. Len(xs) \in Nat \ {0} /\ xs \in [1 .. Len(xs) -> Seq(Byte)]
  BY EmptySeq, LenProperties DEF IsArrays
<1>2. \A i \in 1 .. Len(xs) : xs[i] \in Seq(Byte)
  BY <1>1
<1>3. QED BY <1>1, <1>2, LenProperties

LEMMA Slice ==
  ASSUME NEW a \in Seq(Byte), NEW m \in Nat, NEW n \in Nat, m <= n, n <= Len(a)
  PROVE  /\ SubSeq(a, m + 1, n) \in Seq(Byte)
         /\ Len(SubSeq(a, m + 1, n)) = n - m
         /\ \A i \in 1 .. (n - m) : SubSeq(a, m + 1, n)[i] = a[m + i]
<1>1. Len(a) \in Nat /\ \A i \in 1 .. Len(a) : a[i] \in Byte
  BY LenProperties, ElementOfSeq
<1>2. \A i \in (m + 1) .. n : a[i] \in Byte
  BY <1>1
<1>3. \A i \in 1 .. n - (m + 1) + 1 : SubSeq(a, m + 1, n)[i] = a[m + 1 + i - 1]
  BY <1>2, SubSeqProperties, m + 1 \in Int, n \in Int
<1>4. \A i \in 1 .. (n - m) : i \in 1 .. n - (m + 1) + 1 /\ m + 1 + i - 1 = m + i
  OBVIOUS
<1>5. QED BY <1>3, <1>4, SliceType

LEMMA Prefix ==
  ASSUME NEW a \in Seq(Byte), NEW n \in Nat, n <= Len(a)
  PROVE  /\ SubSeq(a, 1, n) \in Seq(Byte)
         /\ Len(SubSeq(a, 1, n)) = n
         /\ \A i \in 1 .. n : SubSeq(a, 1, n)[i] = a[i]
<1>1. /\ SubSeq(a, 0 + 1, n) \in Seq(Byte)
      /\ Len(SubSeq(a, 0 + 1, n)) = n - 0
      /\ \A i \in 1 .. (n - 0) : SubSeq(a, 0 + 1, n)[i] = a[0 + i]
  BY Slice, 0 \in Nat
<1>2. 0 + 1 = 1 /\ n - 0 = n /\ \A i \in 1 .. n : 0 + i = i
  OBVIOUS
<1>3. QED BY <1>1, <1>2

LEMMA HoldsContent ==
  ASSUME NEW xs, IsArrays(xs), NEW sl, NEW bytes, Holds(xs, sl, bytes)
  PROVE  Content(xs, sl) = bytes
<1>1. sl.len \in Nat /\ sl.arr \in 0 .. Len(xs) /\ sl.len <= Capacity(xs, sl)
      /\ bytes \in Seq(Byte) /\ Len(bytes) = sl.len
      /\ \A j \in 1 .. sl.len : xs[sl.arr][j] = bytes[j]
  BY DEF Holds, IsSlice
<1>2. CASE sl.arr = 0
  <2>1. sl.len = 0
    BY <1>1, <1>2 DEF Capacity
  <2>2. bytes = << >>
    BY <1>1, <2>1, EmptySeq
  <2>3. QED BY <1>2, <2>2 DEF Content
<1>3. CASE sl.arr # 0
  <2> DEFINE a == xs[sl.arr]
  <2>1. sl.arr \in 1 .. Len(xs)
    <3>1. Len(xs) \in Nat /\ sl.arr \in 0 .. Len(xs)
      BY <1>1, ArrayType
    <3>2. QED BY <3>1, <1>3, NotZero
  <2>2. a \in Seq(Byte) /\ Len(a) \in Nat /\ sl.len <= Len(a)
    BY <1>1, <1>3, <2>1, ArrayType DEF Capacity
  <2> HIDE DEF a
  <2>4. /\ SubSeq(a, 1, sl.len) \in Seq(Byte)
        /\ Len(SubSeq(a, 1, sl.len)) = sl.len
        /\ \A i \in 1 .. sl.len : SubSeq(a, 1, sl.len)[i] = a[i]
    BY <2>2, <1>1, Prefix
  <2>5. \A i \in 1 .. sl.len : a[i] = bytes[i]
    BY <1>1 DEF a
  <2>6. SubSeq(a, 1, sl.len) = bytes
    BY <2>4, <2>5, <1>1, SeqEqual
  <2>7. QED BY <2>6, <1>3 DEF Content, a
<1>4. QED BY <1>2, <1>3

-----------------------------------------------------------------------------

\* What the operations on a buffer do to the arrays.
LEMMA ZeroBytes ==
  ASSUME NEW k \in Nat
  PROVE  Zeros(k) \in Seq(Byte) /\ Len(Zeros(k)) = k
<1>1. 0 \in Byte
  <2>1. PICK m \in Nat : MajRange = m + 1
    <3>1. MajRange - 1 \in Nat /\ MajRange = (MajRange - 1) + 1
      BY SizesAssumption
    <3>2. QED BY <3>1
  <2>2. LowRange \in Nat \ {0}
    BY Sizes
  <2>3. m * LowRange \in Nat /\ Radix = m * LowRange + LowRange
    BY <2>1, <2>2 DEF Radix
  <2>4. QED BY <2>2, <2>3 DEF Byte
<1>2. Zeros(k) \in [1 .. k -> Byte]
  BY <1>1 DEF Zeros
<1>3. Zeros(k) \in Seq(Byte)
  BY <1>2, SeqDef
<1>4. DOMAIN Zeros(k) = 1 .. k /\ DOMAIN Zeros(k) = 1 .. Len(Zeros(k)) /\ Len(Zeros(k)) \in Nat
  BY <1>2, <1>3, LenProperties
<1>5. QED BY <1>3, <1>4

\* The bytes b written over those of a, from place n + 1 on.
LEMMA Splice ==
  ASSUME NEW a \in Seq(Byte), NEW b \in Seq(Byte), NEW n \in Nat, n + Len(b) <= Len(a)
  PROVE  LET s == SubSeq(a, 1, n) \o b \o SubSeq(a, n + Len(b) + 1, Len(a))
         IN  /\ s \in Seq(Byte) /\ Len(s) = Len(a)
             /\ \A i \in 1 .. n : s[i] = a[i]
             /\ \A i \in 1 .. Len(b) : s[n + i] = b[i]
             /\ \A i \in (n + Len(b) + 1) .. Len(a) : s[i] = a[i]
<1> DEFINE k == Len(b)
           l == Len(a)
           p == SubSeq(a, 1, n)
           q == SubSeq(a, n + k + 1, l)
           s == p \o b \o q
<1>1. k \in Nat /\ l \in Nat /\ n + k <= l
  BY LenProperties
<1>2. p \in Seq(Byte) /\ Len(p) = n /\ \A i \in 1 .. n : p[i] = a[i]
  BY <1>1, Prefix
<1>3. q \in Seq(Byte) /\ Len(q) = l - (n + k) /\ \A i \in 1 .. (l - (n + k)) : q[i] = a[n + k + i]
  BY <1>1, Slice, n + k \in Nat
<1> HIDE DEF p, q
<1>4. /\ p \o b \in Seq(Byte) /\ Len(p \o b) = n + k
      /\ \A i \in 1 .. n + k : (p \o b)[i] = IF i <= n THEN p[i] ELSE b[i - n]
  BY <1>1, <1>2, ConcatProperties
<1>5. /\ s \in Seq(Byte) /\ Len(s) = (n + k) + (l - (n + k))
      /\ \A i \in 1 .. (n + k) + (l - (n + k)) :
           s[i] = IF i <= n + k THEN (p \o b)[i] ELSE q[i - (n + k)]
  BY <1>3, <1>4, ConcatProperties
<1> HIDE DEF s, k, l
<1>6. s \in Seq(Byte) /\ Len(s) = l
  BY <1>1, <1>5
<1>7. ASSUME NEW i \in 1 .. n
      PROVE  s[i] = a[i]
  BY <1>1, <1>2, <1>4, <1>5
<1>8. ASSUME NEW i \in 1 .. k
      PROVE  s[n + i] = b[i]
  <2> DEFINE j == n + i
  <2>1. j \in 1 .. n + k /\ j \in 1 .. (n + k) + (l - (n + k)) /\ ~(j <= n) /\ j <= n + k /\ j - n = i
    BY <1>1
  <2> HIDE DEF j
  <2>2. s[j] = (p \o b)[j]
    BY <2>1, <1>5
  <2>3. (p \o b)[j] = b[j - n]
    BY <2>1, <1>4
  <2>4. QED BY <2>1, <2>2, <2>3 DEF j
<1>9. ASSUME NEW i \in (n + k + 1) .. l
      PROVE  s[i] = a[i]
  <2>1. /\ i \in 1 .. (n + k) + (l - (n + k)) /\ ~(i <= n + k)
        /\ i - (n + k) \in 1 .. (l - (n + k)) /\ n + k + (i - (n + k)) = i
    BY <1>1
  <2>2. QED BY <2>1, <1>3, <1>5
<1>10. QED BY <1>6, <1>7, <1>8, <1>9 DEF s, p, q, k, l

Alike(n, a, b) == \A j \in 1 .. n : a[j] = b[j]

\* The old bytes, and some more room, in a new array.
LEMMA NewArray ==
  ASSUME NEW xs, IsArrays(xs), NEW sl, IsSlice(xs, sl), NEW n \in Nat
  PROVE  /\ Content(xs, sl) \o Zeros(n) \in Seq(Byte)
         /\ Len(Content(xs, sl) \o Zeros(n)) = sl.len + n
         /\ Alike(sl.len, Content(xs, sl) \o Zeros(n), xs[sl.arr])
<1> DEFINE c == Content(xs, sl)
<1>1. sl.len \in Nat /\ sl.arr \in 0 .. Len(xs) /\ sl.len <= Capacity(xs, sl) /\ Len(xs) \in Nat
  BY ArrayType DEF IsSlice
<1>2. c \in Seq(Byte) /\ Len(c) = sl.len /\ \A j \in 1 .. sl.len : c[j] = xs[sl.arr][j]
  <2>1. CASE sl.arr = 0
    BY <2>1, <1>1, EmptySeq DEF Content, Capacity
  <2>2. CASE sl.arr # 0
    <3>1. sl.arr \in 1 .. Len(xs)
      BY <2>2, <1>1, NotZero
    <3>2. xs[sl.arr] \in Seq(Byte) /\ sl.len <= Len(xs[sl.arr])
      BY <3>1, <2>2, <1>1, ArrayType DEF Capacity
    <3>3. QED BY <3>2, <2>2, <1>1, Prefix DEF Content
  <2>3. QED BY <2>1, <2>2
<1>3. Zeros(n) \in Seq(Byte) /\ Len(Zeros(n)) = n
  BY ZeroBytes
<1> HIDE DEF c
<1> DEFINE z == Zeros(n)
<1> HIDE DEF z
<1>4. /\ c \o z \in Seq(Byte) /\ Len(c \o z) = Len(c) + Len(z)
      /\ \A j \in 1 .. Len(c) + Len(z) : (c \o z)[j] = IF j <= Len(c) THEN c[j] ELSE z[j - Len(c)]
  BY <1>2, <1>3, ConcatProperties DEF z
<1>5. \A j \in 1 .. sl.len : (c \o z)[j] = xs[sl.arr][j]
  BY <1>1, <1>2, <1>3, <1>4 DEF z
<1>6. QED BY <1>2, <1>3, <1>4, <1>5 DEF c, z, Alike

LEMMA UntouchedAt ==
  ASSUME NEW xs, NEW sl, NEW k, NEW ys, Untouched(xs, sl, k, ys), NEW i \in 1 .. Len(xs)
  PROVE  /\ Len(ys[i]) = Len(xs[i])
         /\ \A j \in 1 .. Len(xs[i]) :
              \/ ys[i][j] = xs[i][j]
              \/ i = sl.arr /\ j > sl.len /\ j <= sl.len + k
BY DEF Untouched

LEMMA CapacityType ==
  ASSUME NEW xs, IsArrays(xs), NEW sl, IsSlice(xs, sl)
  PROVE  Capacity(xs, sl) \in Nat
<1>1. Len(xs) \in Nat /\ sl.arr \in 0 .. Len(xs)
  BY ArrayType DEF IsSlice
<1>2. sl.arr # 0 => Len(xs[sl.arr]) \in Nat
  BY <1>1, NotZero, ArrayType
<1>3. QED BY <1>2 DEF Capacity

LEMMA RoomExtends ==
  ASSUME NEW m, IsArrays(m.arrays), IsSlice(m.arrays, m.at), NEW k \in Nat, NEW spare \in Nat
  PROVE  LET r == Room(m, k, spare)
         IN  /\ Extends(m.arrays, m.at, << >>, r.arrays, r.at)
             /\ m.at.len + k <= Capacity(r.arrays, r.at)
             /\ Capacity(m.arrays, m.at) <= Capacity(r.arrays, r.at)
<1> DEFINE xs == m.arrays
           sl == m.at
           n == Len(xs)
           r == Room(m, k, spare)
<1>1. /\ n \in Nat \ {0} /\ \A i \in 1 .. n : xs[i] \in Seq(Byte) /\ Len(xs[i]) \in Nat
      /\ sl.arr \in 0 .. n /\ sl.len \in Nat /\ sl \in [arr : 0 .. n, len : Nat]
      /\ sl.len <= Capacity(xs, sl)
  BY ArrayType DEF IsSlice
<1>2. Capacity(xs, sl) \in Nat
  BY <1>1, NotZero DEF Capacity
<1>3. Len(<< >>) = 0
  BY EmptySeq
<1>4. CASE sl.len + k <= Capacity(xs, sl)
  <2>1. r = m
    BY <1>4 DEF Room
  <2>2. Untouched(xs, sl, 0, xs)
    BY DEF Untouched
  <2>3. Extends(xs, sl, << >>, xs, sl)
    BY <1>1, <1>3, <2>2 DEF Extends
  <2>4. QED BY <1>2, <1>4, <2>1, <2>3
<1>5. CASE ~(sl.len + k <= Capacity(xs, sl))
  <2> DEFINE a == Content(xs, sl) \o Zeros(k + spare)
             ys == Append(xs, a)
             tl == [arr |-> n + 1, len |-> sl.len]
  <2>1. r.arrays = ys /\ r.at = tl
    BY <1>5 DEF Room
  <2>2. /\ a \in Seq(Byte) /\ Len(a) = sl.len + (k + spare)
        /\ \A j \in 1 .. sl.len : a[j] = xs[sl.arr][j]
    <3>1. k + spare \in Nat
      OBVIOUS
    <3>2. a \in Seq(Byte) /\ Len(a) = sl.len + (k + spare) /\ Alike(sl.len, a, xs[sl.arr])
      BY <3>1, NewArray
    <3>3. QED BY <3>2 DEF Alike
  <2> HIDE DEF a
  <2>3. /\ ys \in Seq(Seq(Byte)) /\ ys # << >> /\ Len(ys) = n + 1
        /\ \A i \in 1 .. n : ys[i] = xs[i]
        /\ ys[n + 1] = a
    BY <2>2, AppendProperties DEF IsArrays
  <2> HIDE DEF ys, n
  <2>4. tl.arr = n + 1 /\ tl.len = sl.len
    OBVIOUS
  <2>5. Capacity(ys, tl) = sl.len + (k + spare)
    BY <1>1, <2>2, <2>3, <2>4 DEF Capacity
  <2>6. IsSlice(ys, tl)
    <3>1. tl \in [arr : 0 .. Len(ys), len : Nat]
      BY <1>1, <2>3
    <3>2. QED BY <3>1, <1>1, <2>5, <2>4 DEF IsSlice
  <2> HIDE DEF tl
  <2>7. Untouched(xs, sl, 0, ys)
    BY <2>3 DEF Untouched, n
  <2>8. Extends(xs, sl, << >>, ys, tl)
    <3>1. IsArrays(ys) /\ Len(xs) <= Len(ys) /\ tl.arr > Len(xs) /\ tl.len = sl.len + 0
      BY <1>1, <2>3, <2>4 DEF IsArrays, n
    <3>2. \A j \in 1 .. sl.len : ys[tl.arr][j] = xs[sl.arr][j]
      BY <2>2, <2>3, <2>4
    <3>3. QED BY <3>1, <3>2, <1>3, <2>6, <2>7 DEF Extends
  <2>9. sl.len + k <= Capacity(ys, tl) /\ Capacity(xs, sl) <= Capacity(ys, tl)
    BY <1>1, <1>2, <1>5, <2>5
  <2>10. QED BY <2>1, <2>8, <2>9
<1>6. QED BY <1>4, <1>5

LEMMA FillExtends ==
  ASSUME NEW m, IsArrays(m.arrays), IsSlice(m.arrays, m.at), NEW bytes \in Seq(Byte),
         m.at.arr # 0, m.at.len + Len(bytes) <= Capacity(m.arrays, m.at)
  PROVE  LET r == Fill(m, bytes)
         IN  /\ Extends(m.arrays, m.at, bytes, r.arrays, r.at)
             /\ Capacity(r.arrays, r.at) = Capacity(m.arrays, m.at)
             /\ r.at.arr = m.at.arr
<1> DEFINE xs == m.arrays
           sl == m.at
           n == Len(xs)
           k == Len(bytes)
           c == sl.arr
           a == xs[c]
           b == SubSeq(a, 1, sl.len) \o bytes \o SubSeq(a, sl.len + k + 1, Len(a))
           ys == [xs EXCEPT ![c] = b]
           tl == [sl EXCEPT !.len = @ + k]
<1>1. /\ n \in Nat \ {0} /\ \A i \in 1 .. n : xs[i] \in Seq(Byte) /\ Len(xs[i]) \in Nat
      /\ c \in 0 .. n /\ sl.len \in Nat /\ sl \in [arr : 0 .. n, len : Nat] /\ k \in Nat
  BY ArrayType, LenProperties DEF IsSlice
<1>2. c \in 1 .. n
  BY <1>1, NotZero
<1>3. a \in Seq(Byte) /\ Len(a) \in Nat /\ Capacity(xs, sl) = Len(a) /\ sl.len + k <= Len(a)
  BY <1>1, <1>2 DEF Capacity
<1>4. Fill(m, bytes).arrays = ys /\ Fill(m, bytes).at = tl
  BY DEF Fill
<1>5. /\ b \in Seq(Byte) /\ Len(b) = Len(a)
      /\ \A i \in 1 .. sl.len : b[i] = a[i]
      /\ \A i \in 1 .. k : b[sl.len + i] = bytes[i]
      /\ \A i \in (sl.len + k + 1) .. Len(a) : b[i] = a[i]
  <2> HIDE DEF a
  <2>1. QED BY <1>1, <1>3, Splice
<1>6. tl.arr = c /\ tl.len = sl.len + k /\ tl \in [arr : 0 .. n, len : Nat]
  BY <1>1
<1> HIDE DEF a, b, tl, k
<1>7. /\ ys \in Seq(Seq(Byte)) /\ Len(ys) = n
      /\ \A i \in 1 .. n : ys[i] = IF i = c THEN b ELSE xs[i]
  BY <1>2, <1>5, ExceptSeq DEF IsArrays
<1> HIDE DEF ys, c, n
<1>8. ys[c] = b
  BY <1>2, <1>7
<1>9. IsArrays(ys)
  BY <1>1, <1>7, EmptySeq DEF IsArrays
<1>10. Capacity(ys, tl) = Len(a)
  BY <1>1, <1>2, <1>5, <1>6, <1>8 DEF Capacity
<1>11. IsSlice(ys, tl)
  BY <1>3, <1>6, <1>7, <1>10 DEF IsSlice
<1>12. Untouched(xs, sl, k, ys)
  <2>1. ASSUME NEW i \in 1 .. n
        PROVE  /\ Len(ys[i]) = Len(xs[i])
               /\ \A j \in 1 .. Len(xs[i]) :
                    \/ ys[i][j] = xs[i][j]
                    \/ (i = c /\ j > sl.len /\ j <= sl.len + k)
    <3>1. CASE i # c
      BY <3>1, <1>7
    <3>2. CASE i = c
      <4>1. ys[i] = b /\ xs[i] = a
        BY <3>2, <1>8 DEF a
      <4>2. ASSUME NEW j \in 1 .. Len(a)
            PROVE  b[j] = a[j] \/ (j > sl.len /\ j <= sl.len + k)
        <5>1. \/ j \in 1 .. sl.len
              \/ j \in (sl.len + k + 1) .. Len(a)
              \/ j > sl.len /\ j <= sl.len + k
          BY <1>1, <1>3
        <5>2. QED BY <5>1, <1>5
      <4>3. QED BY <4>1, <4>2, <1>5, <3>2
    <3>3. QED BY <3>1, <3>2
  <2>2. QED BY <2>1 DEF Untouched, n, c
<1>13. Extends(xs, sl, bytes, ys, tl)
  <2>1. Len(xs) <= Len(ys)
    BY <1>1, <1>7 DEF n
  <2>2. \A j \in 1 .. sl.len : ys[tl.arr][j] = xs[sl.arr][j]
    BY <1>5, <1>6, <1>8 DEF a, c
  <2>3. \A j \in 1 .. k : ys[tl.arr][sl.len + j] = bytes[j]
    BY <1>5, <1>6, <1>8
  <2>4. QED BY <2>1, <2>2, <2>3, <1>6, <1>9, <1>11, <1>12 DEF Extends, k, c
<1>14. QED BY <1>3, <1>4, <1>6, <1>10, <1>13 DEF c

LEMMA ExtendsTwice ==
  ASSUME NEW xs, NEW sl, NEW b \in Seq(Byte), NEW ys, NEW tl, NEW c \in Seq(Byte), NEW zs, NEW ul,
         IsArrays(xs), IsSlice(xs, sl), Extends(xs, sl, b, ys, tl), Extends(ys, tl, c, zs, ul)
  PROVE  Extends(xs, sl, b \o c, zs, ul)
<1> DEFINE k == Len(b)
           l == Len(c)
           n == sl.len
<1>1. /\ Len(xs) \in Nat /\ Len(ys) \in Nat /\ Len(zs) \in Nat /\ k \in Nat /\ l \in Nat /\ n \in Nat
      /\ sl.arr \in 0 .. Len(xs) /\ tl.arr \in 0 .. Len(ys) /\ ul.arr \in 0 .. Len(zs)
      /\ \A i \in 1 .. Len(xs) : Len(xs[i]) \in Nat
  BY ArrayType, LenProperties DEF Extends, IsSlice
<1>2. /\ Len(xs) <= Len(ys) /\ Len(ys) <= Len(zs) /\ IsArrays(zs) /\ IsSlice(zs, ul)
      /\ tl.arr = sl.arr \/ tl.arr > Len(xs)
      /\ ul.arr = tl.arr \/ ul.arr > Len(ys)
      /\ tl.len = n + k /\ ul.len = tl.len + l
  BY DEF Extends
<1>3. /\ b \o c \in Seq(Byte) /\ Len(b \o c) = k + l
      /\ \A i \in 1 .. k + l : (b \o c)[i] = IF i <= k THEN b[i] ELSE c[i - k]
  BY ConcatProperties
<1>4. /\ \A j \in 1 .. n : ys[tl.arr][j] = xs[sl.arr][j]
      /\ \A j \in 1 .. k : ys[tl.arr][n + j] = b[j]
      /\ \A j \in 1 .. (n + k) : zs[ul.arr][j] = ys[tl.arr][j]
      /\ \A j \in 1 .. l : zs[ul.arr][n + k + j] = c[j]
  BY <1>2 DEF Extends
<1>5. Untouched(xs, sl, k + l, zs)
  <2>1. Untouched(xs, sl, k, ys) /\ Untouched(ys, tl, l, zs)
    BY DEF Extends
  <2>2. ASSUME NEW i \in 1 .. Len(xs)
        PROVE  /\ Len(zs[i]) = Len(xs[i])
               /\ \A j \in 1 .. Len(xs[i]) :
                    \/ zs[i][j] = xs[i][j]
                    \/ i = sl.arr /\ j > n /\ j <= n + (k + l)
    <3>1. /\ Len(ys[i]) = Len(xs[i])
          /\ \A j \in 1 .. Len(xs[i]) :
               ys[i][j] = xs[i][j] \/ (i = sl.arr /\ j > n /\ j <= n + k)
      BY <2>1, UntouchedAt
    <3>2. i \in 1 .. Len(ys)
      BY <1>1, <1>2
    <3>3. /\ Len(zs[i]) = Len(ys[i])
          /\ \A j \in 1 .. Len(ys[i]) :
               zs[i][j] = ys[i][j] \/ (i = tl.arr /\ j > n + k /\ j <= n + k + l)
      BY <2>1, <3>2, <1>2, UntouchedAt DEF n
    <3>4. i = tl.arr => i = sl.arr
      BY <1>1, <1>2
    <3>5. ASSUME NEW j \in 1 .. Len(xs[i])
          PROVE  zs[i][j] = xs[i][j] \/ (i = sl.arr /\ j > n /\ j <= n + (k + l))
      <4>1. ys[i][j] = xs[i][j] \/ (i = sl.arr /\ j > n /\ j <= n + k)
        BY <3>1
      <4>2. zs[i][j] = ys[i][j] \/ (i = tl.arr /\ j > n + k /\ j <= n + k + l)
        BY <3>1, <3>3
      <4>3. j \in Int
        BY <1>1
      <4>4. (j > n /\ j <= n + k) \/ (j > n + k /\ j <= n + k + l) => j > n /\ j <= n + (k + l)
        BY <4>3, <1>1
      <4>5. QED BY <4>1, <4>2, <4>4, <3>4
    <3>6. QED BY <3>1, <3>3, <3>5
  <2>3. QED BY <2>2 DEF Untouched
<1>6. \A j \in 1 .. n : zs[ul.arr][j] = xs[sl.arr][j]
  BY <1>1, <1>4
<1>7. \A j \in 1 .. k + l : zs[ul.arr][n + j] = (b \o c)[j]
  <2>1. ASSUME NEW j \in 1 .. k + l
        PROVE  zs[ul.arr][n + j] = (b \o c)[j]
    <3>1. CASE j <= k
      <4> DEFINE i == n + j
      <4>1. j \in 1 .. k /\ i \in 1 .. (n + k)
        BY <3>1, <1>1
      <4>2. ys[tl.arr][n + j] = b[j] /\ (b \o c)[j] = b[j]
        BY <4>1, <3>1, <1>3, <1>4
      <4>3. zs[ul.arr][i] = ys[tl.arr][i]
        <5> HIDE DEF i
        <5>1. QED BY <4>1, <1>4
      <4>4. QED BY <4>2, <4>3
    <3>2. CASE ~(j <= k)
      <4> DEFINE i == j - k
      <4>1. i \in 1 .. l /\ n + k + i = n + j
        BY <3>2, <1>1
      <4>2. (b \o c)[j] = c[i]
        BY <3>2, <1>3
      <4>3. zs[ul.arr][n + k + i] = c[i]
        <5> HIDE DEF i
        <5>1. QED BY <4>1, <1>4
      <4>4. QED BY <4>1, <4>2, <4>3
    <3>3. QED BY <3>1, <3>2
  <2>2. QED BY <2>1
<1> DEFINE w == b \o c
<1>8. Len(w) = k + l /\ ul.len = n + (k + l)
  BY <1>1, <1>2, <1>3
<1> HIDE DEF w
<1>9. ul.arr = sl.arr \/ ul.arr > Len(xs)
  BY <1>1, <1>2
<1>10. Len(xs) <= Len(zs)
  BY <1>1, <1>2
<1>11. QED BY <1>2, <1>5, <1>6, <1>7, <1>8, <1>9, <1>10 DEF Extends, w

LEMMA ExtendsHolds ==
  ASSUME NEW xs, NEW sl, NEW a, NEW w \in Seq(Byte), NEW ys, NEW tl,
         Holds(xs, sl, a), Extends(xs, sl, w, ys, tl)
  PROVE  Holds(ys, tl, a \o w)
<1> DEFINE n == sl.len
           k == Len(w)
           b == a \o w
<1>1. n \in Nat /\ k \in Nat /\ a \in Seq(Byte) /\ Len(a) = n
  BY LenProperties DEF Holds, IsSlice
<1>2. /\ IsSlice(ys, tl) /\ tl.len = n + k
      /\ \A j \in 1 .. n : ys[tl.arr][j] = a[j]
      /\ \A j \in 1 .. k : ys[tl.arr][n + j] = w[j]
  BY DEF Extends, Holds
<1>3. /\ b \in Seq(Byte) /\ Len(b) = n + k
      /\ \A j \in 1 .. n + k : b[j] = IF j <= n THEN a[j] ELSE w[j - n]
  <2>1. /\ b \in Seq(Byte) /\ Len(b) = Len(a) + k
        /\ \A j \in 1 .. Len(a) + k : b[j] = IF j <= Len(a) THEN a[j] ELSE w[j - Len(a)]
    BY <1>1, ConcatProperties
  <2> HIDE DEF b, k
  <2>2. QED BY <1>1, <2>1
<1> HIDE DEF n, k, b
<1>4. ASSUME NEW j \in 1 .. n + k
      PROVE  ys[tl.arr][j] = b[j]
  <2>1. CASE j <= n
    BY <2>1, <1>1, <1>2, <1>3
  <2>2. CASE ~(j <= n)
    <3> DEFINE i == j - n
    <3>1. i \in 1 .. k /\ n + i = j
      BY <2>2, <1>1
    <3>2. b[j] = w[i]
      BY <2>2, <1>3
    <3> HIDE DEF i
    <3>3. QED BY <3>1, <3>2, <1>2
  <2>3. QED BY <2>1, <2>2
<1>5. QED BY <1>2, <1>3, <1>4 DEF Holds, b

\* What is kept in another array than that of the buffer.
LEMMA OthersHold ==
  ASSUME NEW xs, NEW sl, NEW k, NEW ys, NEW ul, NEW a, IsArrays(xs), Len(ys) \in Nat,
         Len(xs) <= Len(ys), Untouched(xs, sl, k, ys), Holds(xs, ul, a), ul.arr # 0, ul.arr # sl.arr
  PROVE  Holds(ys, ul, a)
<1>1. /\ ul.arr \in 0 .. Len(xs) /\ ul \in [arr : 0 .. Len(xs), len : Nat] /\ Len(xs) \in Nat
      /\ ul.len <= Len(xs[ul.arr]) /\ ul.len \in Nat
      /\ \A j \in 1 .. ul.len : xs[ul.arr][j] = a[j]
  BY ArrayType DEF Holds, IsSlice, Capacity
<1>2. ul.arr \in 1 .. Len(xs)
  BY <1>1, NotZero
<1>3. Len(xs[ul.arr]) \in Nat
  BY <1>2, ArrayType
<1>4. Len(ys[ul.arr]) = Len(xs[ul.arr]) /\ \A j \in 1 .. Len(xs[ul.arr]) : ys[ul.arr][j] = xs[ul.arr][j]
  BY <1>2, UntouchedAt
<1>5. \A j \in 1 .. ul.len : ys[ul.arr][j] = a[j]
  BY <1>1, <1>3, <1>4
<1>6. ul \in [arr : 0 .. Len(ys), len : Nat]
  BY <1>1
<1>7. IsSlice(ys, ul)
  BY <1>1, <1>4, <1>6 DEF IsSlice, Capacity
<1>8. QED BY <1>5, <1>7 DEF Holds

LEMMA HasArray ==
  ASSUME NEW xs, NEW sl, sl.len \in Nat, NEW k \in Nat \ {0}, sl.len + k <= Capacity(xs, sl)
  PROVE  sl.arr # 0
BY DEF Capacity

LEMMA SomeBytes ==
  ASSUME NEW xs, NEW sl, IsSlice(xs, sl), sl.len > 0
  PROVE  sl.arr # 0
BY DEF Capacity, IsSlice

-----------------------------------------------------------------------------

\* A buffer that has grown by w since the iteration began.
Grew(m, w) == Extends(arrays, buffer, w, m.arrays, m.at)

LEMMA RoomGrew ==
  ASSUME IsArrays(arrays), IsSlice(arrays, buffer), NEW m, NEW w \in Seq(Byte), Grew(m, w),
         NEW k \in Nat, NEW spare \in Spares
  PROVE  /\ Grew(Room(m, k, spare), w)
         /\ m.at.len + k <= Capacity(Room(m, k, spare).arrays, Room(m, k, spare).at)
         /\ Capacity(m.arrays, m.at) <= Capacity(Room(m, k, spare).arrays, Room(m, k, spare).at)
         /\ Room(m, k, spare).at.len = m.at.len
<1> DEFINE r == Room(m, k, spare)
<1>1. IsArrays(m.arrays) /\ IsSlice(m.arrays, m.at) /\ m.at.len \in Nat
  BY DEF Grew, Extends, IsSlice
<1>2. spare \in Nat
  BY SharedAssumption
<1>3. /\ Extends(m.arrays, m.at, << >>, r.arrays, r.at)
      /\ m.at.len + k <= Capacity(r.arrays, r.at)
      /\ Capacity(m.arrays, m.at) <= Capacity(r.arrays, r.at)
  BY <1>1, <1>2, RoomExtends
<1> HIDE DEF r
<1>4. w \o << >> = w /\ << >> \in Seq(Byte) /\ Len(<< >>) = 0
  BY ConcatEmptySeq, EmptySeq
<1>5. Extends(arrays, buffer, w \o << >>, r.arrays, r.at)
  BY <1>3, <1>4, ExtendsTwice DEF Grew
<1>6. r.at.len = m.at.len
  BY <1>1, <1>3, <1>4 DEF Extends
<1>7. QED BY <1>3, <1>4, <1>5, <1>6 DEF Grew, r

LEMMA FillGrew ==
  ASSUME IsArrays(arrays), IsSlice(arrays, buffer), NEW m, NEW w \in Seq(Byte), Grew(m, w),
         NEW bytes \in Seq(Byte), m.at.arr # 0, m.at.len + Len(bytes) <= Capacity(m.arrays, m.at)
  PROVE  Grew(Fill(m, bytes), w \o bytes)
<1>1. IsArrays(m.arrays) /\ IsSlice(m.arrays, m.at)
  BY DEF Grew, Extends
<1>2. Extends(m.arrays, m.at, bytes, Fill(m, bytes).arrays, Fill(m, bytes).at)
  BY <1>1, FillExtends
<1>3. QED BY <1>2, ExtendsTwice DEF Grew

\* What an iteration puts into the buffer.
Gets == IF IsPayload THEN FromScratch \o payload ELSE FromScratch

\* An iteration puts the header, and what there is of the payload, after the bytes
\* of the buffer.
LEMMA StoredGrew ==
  ASSUME IsArrays(arrays), IsSlice(arrays, buffer), FromScratch \in Seq(Byte), FromScratch # << >>,
         payload \in Seq(Byte), Asked \in Nat, Len(payload) <= Asked, NEW m \in Stored
  PROVE  Grew(m, Gets)
<1> DEFINE m0 == [arrays |-> arrays, at |-> buffer]
           f == FromScratch
<1>1. f \in Seq(Byte) /\ Len(f) \in Nat \ {0}
  BY EmptySeq
<1>2. buffer.len \in Nat /\ Len(payload) \in Nat /\ MinRead \in Nat
  BY LenProperties, SharedAssumption DEF IsSlice
<1>3. m0.arrays = arrays /\ m0.at = buffer
  OBVIOUS
<1> HIDE DEF m0, f
<1>4. Grew(m0, << >>) /\ << >> \in Seq(Byte) /\ << >> \o f = f
  <2>1. Untouched(arrays, buffer, 0, arrays)
    BY DEF Untouched
  <2>2. Len(<< >>) = 0 /\ << >> \in Seq(Byte) /\ << >> \o f = f
    BY EmptySeq, ConcatEmptySeq, <1>1
  <2>3. Len(arrays) \in Nat
    BY ArrayType
  <2>4. QED BY <1>2, <1>3, <2>1, <2>2, <2>3 DEF Grew, Extends
<1>5. ASSUME NEW h \in Written
      PROVE  Grew(h, f)
  <2>1. PICK s \in Spares : h = Fill(Room(m0, Len(f), s), f)
    BY DEF Written, m0, f
  <2> DEFINE r == Room(m0, Len(f), s)
  <2>2. Grew(r, << >>) /\ m0.at.len + Len(f) <= Capacity(r.arrays, r.at) /\ r.at.len = m0.at.len
    BY <1>1, <1>4, RoomGrew
  <2> HIDE DEF r
  <2>3. r.at.len + Len(f) <= Capacity(r.arrays, r.at) /\ r.at.len \in Nat
    BY <2>2, <1>2, <1>3
  <2>4. r.at.arr # 0
    BY <2>3, <1>1, HasArray
  <2>5. Grew(Fill(r, f), << >> \o f)
    BY <2>2, <2>3, <2>4, <1>1, <1>4, FillGrew
  <2>6. QED BY <2>1, <2>5, <1>4 DEF r
<1>6. CASE ~IsPayload
  BY <1>5, <1>6 DEF Stored, Gets, f
<1>7. CASE IsPayload
  <2>1. PICK h \in Written : m \in Copies(h)
    BY <1>7 DEF Stored
  <2>2. PICK t \in Spares : m \in UNION { Grown(Fill(g, payload), MinRead) : g \in Grown(Room(h, Asked, t), MinRead) }
    BY <2>1 DEF Copies, Grown
  <2> DEFINE q == Room(h, Asked, t)
  <2>3. PICK u \in Spares : m \in Grown(Fill(Room(q, MinRead, u), payload), MinRead)
    BY <2>2 DEF Grown
  <2> DEFINE g == Room(q, MinRead, u)
  <2>4. PICK v \in Spares : m = Room(Fill(g, payload), MinRead, v)
    BY <2>3 DEF Grown
  <2>5. Grew(h, f)
    BY <1>5
  <2>6. h.at.len = buffer.len + Len(f)
    BY <2>5 DEF Grew, Extends
  <2>7. Grew(q, f) /\ h.at.len + Asked <= Capacity(q.arrays, q.at) /\ q.at.len = h.at.len
    BY <2>5, <1>1, RoomGrew
  <2> HIDE DEF q
  <2>8. Grew(g, f) /\ Capacity(q.arrays, q.at) <= Capacity(g.arrays, g.at) /\ g.at.len = q.at.len
    BY <2>7, <1>1, <1>2, RoomGrew
  <2> HIDE DEF g
  <2>9. IsSlice(g.arrays, g.at) /\ IsSlice(q.arrays, q.at) /\ IsArrays(g.arrays) /\ IsArrays(q.arrays)
    BY <2>7, <2>8 DEF Grew, Extends
  <2>10. g.at.len \in Nat /\ g.at.len > 0
    BY <2>6, <2>7, <2>8, <1>1, <1>2
  <2>11. g.at.arr # 0
    BY <2>9, <2>10, SomeBytes
  <2>12. g.at.len + Len(payload) <= Capacity(g.arrays, g.at)
    <3>1. Capacity(g.arrays, g.at) \in Nat /\ Capacity(q.arrays, q.at) \in Nat
      BY <2>9, CapacityType
    <3>2. QED BY <3>1, <2>7, <2>8, <2>10, <1>2
  <2>13. Grew(Fill(g, payload), f \o payload)
    BY <2>8, <2>11, <2>12, <1>1, FillGrew
  <2>14. f \o payload \in Seq(Byte)
    BY <1>1, ConcatProperties
  <2>15. Grew(m, f \o payload)
    BY <2>4, <2>13, <2>14, <1>2, RoomGrew
  <2>16. QED BY <2>15, <1>7 DEF Gets, f
<1>8. QED BY <1>6, <1>7

-----------------------------------------------------------------------------

\* Memory stands still for the streams that are not followed.
StandsStill ==
  input \notin Followed =>
    arrays = << input >> /\ raw = Nowhere /\ buffer = Nowhere /\ calls = << >> /\ kept = << >>

NoCallYet ==
  input \in Followed /\ calls = << >> => verdict = "none" /\ call = "ok" /\ Raw = << >>

BufferHoldsBuf ==
  input \in Followed /\ call = "reading" => Holds(arrays, buffer, buf)

RawIsGone == call # "ok" => raw = Nowhere

RawHoldsRaw ==
  input \in Followed /\ call = "ok" /\ calls # << >> => Holds(arrays, raw, Raw)

KeptType ==
  /\ kept \in Seq([slice : [arr : Nat, len : Nat], bytes : Seq(Byte), call : Nat])
  /\ \A k \in DOMAIN kept :
       /\ kept[k].call \in 1 .. Len(calls)
       /\ kept[k].slice.arr \in 1 .. Len(arrays)

\* Until its Deferred is read again, the array of a slice that is kept is neither the
\* buffer nor, if that is the Raw of another Deferred, the next one.
Owned(k) ==
  /\ Holds(arrays, kept[k].slice, kept[k].bytes)
  /\ call = "reading" => buffer.arr # kept[k].slice.arr
  /\ raw.arr = kept[k].slice.arr => calls[kept[k].call] = calls[Len(calls)]

KeptIsOwned == \A k \in DOMAIN kept : ~ReadAgain(k) => Owned(k)

MemoryType ==
  /\ IsArrays(arrays) /\ Len(arrays[1]) = Len(input)
  /\ IsSlice(arrays, raw)
  /\ calls \in Seq(Nat)

MInv ==
  /\ MemoryType
  /\ StandsStill
  /\ NoCallYet
  /\ BufferHoldsBuf
  /\ RawIsGone
  /\ RawHoldsRaw
  /\ UnreadIntact
  /\ KeptType
  /\ KeptIsOwned

LEMMA InitMInv == SharedInit => MInv
<1> SUFFICES ASSUME SharedInit PROVE MInv
  OBVIOUS
<1>1. input \in Seq(Byte) /\ Len(input) \in Nat
  BY InputsAssumption, LenProperties DEF SharedInit, BothInit, Init
<1>2. arrays \in Seq(Seq(Byte)) /\ Len(arrays) = 1 /\ arrays[1] = input /\ arrays # << >>
  BY <1>1 DEF SharedInit
<1>3. MemoryType
  <2>1. IsSlice(arrays, Nowhere)
    BY <1>2 DEF IsSlice, Nowhere, Capacity
  <2>2. IsSlice(arrays, [arr |-> 1, len |-> Len(input)])
    BY <1>1, <1>2 DEF IsSlice, Capacity
  <2>3. QED BY <1>2, <2>1, <2>2, EmptySeq DEF SharedInit, MemoryType, IsArrays
<1>4. KeptType /\ KeptIsOwned
  <2>1. kept = << >> /\ DOMAIN kept = {}
    BY DEF SharedInit
  <2>2. QED BY <2>1, EmptySeq DEF KeptType, KeptIsOwned
<1>5. QED
  BY <1>2, <1>3, <1>4 DEF SharedInit, BothInit, Init, V!Init, MInv, StandsStill, NoCallYet,
       BufferHoldsBuf, RawIsGone, RawHoldsRaw, UnreadIntact

\* A slice that is kept stays with the calls before it, whatever call comes next.
LEMMA NextCall ==
  ASSUME MInv, NEW d \in Nat, calls' = Append(calls, d), kept' = kept
  PROVE  /\ calls' \in Seq(Nat) /\ Len(calls') = Len(calls) + 1 /\ calls' # << >>
         /\ \A c \in 1 .. Len(calls) : calls'[c] = calls[c]
         /\ calls'[Len(calls')] = d
         /\ \A k \in DOMAIN kept :
              ~ReadAgain(k)' => ~ReadAgain(k) /\ d # calls[kept[k].call]
<1>1. /\ calls' \in Seq(Nat) /\ Len(calls') = Len(calls) + 1 /\ calls' # << >>
      /\ \A c \in 1 .. Len(calls) : calls'[c] = calls[c]
      /\ calls'[Len(calls) + 1] = d
      /\ Len(calls) \in Nat
  BY AppendProperties, LenProperties DEF MInv, MemoryType
<1>2. ASSUME NEW k \in DOMAIN kept, ~ReadAgain(k)'
      PROVE  ~ReadAgain(k) /\ d # calls[kept[k].call]
  <2> DEFINE b == kept[k].call
             n == Len(calls)
  <2>1. b \in 1 .. n
    BY DEF MInv, KeptType
  <2>2. \A c \in (b + 1) .. (n + 1) : calls'[c] # calls'[b]
    BY <1>1, <1>2 DEF ReadAgain
  <2> HIDE DEF b, n
  <2>3. n \in Nat /\ (\A c \in 1 .. n : calls'[c] = calls[c]) /\ calls'[n + 1] = d
    BY <1>1 DEF n
  <2>4. calls'[b] = calls[b]
    BY <2>1, <2>3
  <2>4a. n + 1 \in (b + 1) .. (n + 1)
    BY <2>1, <2>3
  <2>5. d # calls[b]
    BY <2>2, <2>3, <2>4, <2>4a
  <2>6. ASSUME NEW c \in (b + 1) .. n
        PROVE  calls[c] # calls[b]
    <3>1. c \in 1 .. n /\ c \in (b + 1) .. (n + 1)
      BY <2>1, <2>3
    <3>2. QED BY <3>1, <2>2, <2>3, <2>4
  <2>7. QED BY <2>5, <2>6 DEF ReadAgain, b, n
<1>3. QED BY <1>1, <1>2

LEMMA BeginKeeps ==
  ASSUME MInv, input \in Followed, Unmarshal, NEW d \in Nat, BeginIn(d)
  PROVE  MInv'
<1>1. /\ input' = input /\ pos' = pos /\ buf' = << >> /\ Raw' = << >> /\ call' = "reading"
      /\ call # "reading"
  BY DEF Unmarshal
<1>2. /\ buffer' = reusedBuf(d) /\ raw' = Nowhere /\ calls' = Append(calls, d)
      /\ arrays' = arrays /\ kept' = kept
  BY DEF BeginIn
<1>3. /\ calls' \in Seq(Nat) /\ Len(calls') = Len(calls) + 1 /\ calls' # << >>
      /\ \A c \in 1 .. Len(calls) : calls'[c] = calls[c]
      /\ calls'[Len(calls')] = d /\ Len(calls) \in Nat
      /\ \A k \in DOMAIN kept :
           ~ReadAgain(k)' => ~ReadAgain(k) /\ d # calls[kept[k].call]
  BY <1>2, NextCall, LenProperties DEF MInv, MemoryType
<1>4. IsArrays(arrays) /\ Len(arrays) \in Nat
  BY ArrayType DEF MInv, MemoryType
<1>5. IsSlice(arrays, Nowhere)
  BY <1>4 DEF IsSlice, Nowhere, Capacity
<1>6. MemoryType'
  BY <1>1, <1>2, <1>3, <1>5 DEF MInv, MemoryType
<1>7. \/ buffer' = Nowhere
      \/ d = calls[Len(calls)] /\ buffer' = [raw EXCEPT !.len = 0]
      \/ calls = << >> /\ buffer' = [raw EXCEPT !.len = 0]
  BY <1>2 DEF reusedBuf
<1>8. IsSlice(arrays, buffer') /\ buffer'.len = 0
  <2>1. IsSlice(arrays, [raw EXCEPT !.len = 0]) /\ [raw EXCEPT !.len = 0].len = 0
    <3>1. raw \in [arr : 0 .. Len(arrays), len : Nat] /\ Capacity(arrays, raw) \in Nat
      BY <1>4, CapacityType DEF MInv, MemoryType, IsSlice
    <3>2. /\ [raw EXCEPT !.len = 0] \in [arr : 0 .. Len(arrays), len : Nat]
          /\ [raw EXCEPT !.len = 0].len = 0 /\ [raw EXCEPT !.len = 0].arr = raw.arr
      BY <3>1
    <3>3. QED BY <3>1, <3>2 DEF IsSlice, Capacity
  <2>2. Nowhere.len = 0
    BY DEF Nowhere
  <2>3. QED BY <1>5, <1>7, <2>1, <2>2
<1>9. BufferHoldsBuf'
  BY <1>1, <1>2, <1>8, EmptySeq DEF BufferHoldsBuf, Holds
<1>10. KeptType'
  <2>1. kept' = kept /\ arrays' = arrays
    BY <1>2
  <2>2. \A n \in 1 .. Len(calls) : n \in 1 .. Len(calls')
    <3>1. Len(calls') = Len(calls) + 1 /\ Len(calls) \in Nat
      BY <1>3
    <3>2. QED BY <3>1
  <2>3. KeptType
    BY DEF MInv
  <2>4. QED BY <2>1, <2>2, <2>3 DEF KeptType
<1>11. KeptIsOwned'
  <2>1. ASSUME NEW k \in DOMAIN kept, ~ReadAgain(k)'
        PROVE  Owned(k)'
    <3>1. ~ReadAgain(k) /\ d # calls[kept[k].call] /\ Owned(k)
      BY <1>3, <2>1 DEF MInv, KeptIsOwned
    <3>2. kept[k].slice.arr \in 1 .. Len(arrays) /\ kept[k].slice.arr # 0 /\ calls # << >>
      <4>1. kept[k].slice.arr \in 1 .. Len(arrays) /\ kept[k].call \in 1 .. Len(calls)
        BY DEF MInv, KeptType
      <4>2. calls # << >>
        BY <4>1, EmptySeq DEF MInv, MemoryType
      <4>3. QED BY <4>1, <4>2, <1>4
    <3>3. Nowhere.arr = 0
      BY DEF Nowhere
    <3>4. buffer'.arr # kept[k].slice.arr
      <4>1. CASE buffer' = Nowhere
        BY <4>1, <3>2, <3>3
      <4>2. CASE d = calls[Len(calls)] /\ buffer' = [raw EXCEPT !.len = 0]
        <5>1. raw.arr # kept[k].slice.arr
          BY <4>2, <3>1 DEF Owned
        <5>2. buffer'.arr = raw.arr
          BY <4>2 DEF MInv, MemoryType, IsSlice
        <5>3. QED BY <5>1, <5>2
      <4>3. QED BY <1>7, <3>2, <4>1, <4>2
    <3>5. raw'.arr # kept[k].slice.arr
      BY <1>2, <3>2, <3>3
    <3>6. QED BY <1>2, <3>1, <3>4, <3>5 DEF Owned
  <2>2. QED BY <1>2, <2>1 DEF KeptIsOwned
<1>12. StandsStill' /\ NoCallYet' /\ RawIsGone' /\ RawHoldsRaw' /\ UnreadIntact'
  BY <1>1, <1>2, <1>3 DEF MInv, StandsStill, NoCallYet, RawIsGone, RawHoldsRaw, UnreadIntact
<1>13. QED BY <1>6, <1>9, <1>10, <1>11, <1>12 DEF MInv

\* The bytes an iteration puts into the buffer are those it takes from the stream.
LEMMA GetsWhatIsTaken ==
  ASSUME IInv, Step, remaining > 0, header.ok
  PROVE  /\ FromScratch \in Seq(Byte) /\ FromScratch # << >>
         /\ payload \in Seq(Byte) /\ Asked \in Nat /\ Len(payload) <= Asked
         /\ Gets \in Seq(Byte) /\ Len(Gets) \in Nat /\ pos' = pos + Len(Gets)
         /\ input' = input /\ Raw' = Raw /\ call' \in {"reading", "error"}
         /\ call' = "reading" => buf' = buf \o Gets
<1> DEFINE n == header.n
<1>1. /\ n \in Nat \ {0} /\ pos + n <= Len(input)
      /\ header.maj \in Majors /\ header.extra \in Nat
      /\ SubSeq(input, pos + 1, pos + n) = FromScratch
  BY GoodHeader DEF FromScratch
<1>2. input \in Seq(Byte) /\ Len(input) \in Nat /\ pos \in Nat
  BY LenProperties DEF IInv, TypeOK
<1>3. FromScratch \in Seq(Byte) /\ Len(FromScratch) = n /\ FromScratch # << >>
  <2>1. FromScratch \in Seq(Byte) /\ Len(FromScratch) = (pos + n) - pos
    <3>1. pos + n \in Nat /\ pos <= pos + n
      BY <1>1, <1>2
    <3> HIDE DEF n
    <3>2. QED BY <3>1, <1>1, <1>2, SliceType
  <2>2. QED BY <2>1, <1>1, <1>2, EmptySeq
<1>4. Asked \in Nat /\ There \in Nat /\ There <= Asked /\ pos + n + There <= Len(input)
      /\ (~IsPayload /\ ~TooLong(header.maj, header.extra) => Asked = 0)
      /\ (TooLong(header.maj, header.extra) => ~IsPayload)
  <2>1. Asked \in Nat
    BY <1>1 DEF Asked, Payload
  <2>2. Left \in Nat /\ Left = Len(input) - (pos + n)
    BY <1>1, <1>2 DEF Left
  <2>3. QED BY <2>1, <2>2, <1>1, <1>2 DEF There, Asked, Payload, IsPayload
<1> HIDE DEF n
<1>5. payload \in Seq(Byte) /\ Len(payload) = There
  <2>1. payload = SubSeq(input, pos + n + 1, pos + n + There)
    BY DEF payload, n
  <2>2. /\ SubSeq(input, (pos + n) + 1, pos + n + There) \in Seq(Byte)
        /\ Len(SubSeq(input, (pos + n) + 1, pos + n + There)) = (pos + n + There) - (pos + n)
    <3>1. pos + n \in Nat /\ pos + n + There \in Nat /\ pos + n <= pos + n + There
      BY <1>1, <1>2, <1>4
    <3>2. QED BY <3>1, <1>2, <1>4, SliceType
  <2>3. (pos + n + There) - (pos + n) = There
    BY <1>1, <1>2, <1>4
  <2>4. QED BY <2>1, <2>2, <2>3
<1>6. Gets \in Seq(Byte) /\ Len(Gets) = IF IsPayload THEN n + There ELSE n
  BY <1>3, <1>5, ConcatProperties DEF Gets
<1>7. Copied = FromScratch \o SubSeq(input, pos + n + 1, pos + n + Asked)
  BY DEF Copied, FromScratch, n
<1>8. CASE LongElement
  <2>1. pos' = pos + n /\ call' = "error" /\ input' = input /\ Raw' = Raw /\ ~IsPayload
    BY <1>8, <1>4 DEF LongElement, Fail, n
  <2>2. QED BY <2>1, <1>1, <1>3, <1>4, <1>5, <1>6
<1>9. CASE CutElement
  <2>1. pos' = pos + (n + There) /\ call' = "error" /\ input' = input /\ Raw' = Raw /\ IsPayload
    BY <1>9, <1>4 DEF CutElement, Fail, n
  <2>2. QED BY <2>1, <1>1, <1>3, <1>4, <1>5, <1>6
<1>10. CASE Element
  <2>1. /\ pos' = pos + n + Asked /\ call' = call /\ call = "reading" /\ input' = input /\ Raw' = Raw
        /\ ~TooLong(header.maj, header.extra) /\ There = Asked /\ buf' = buf \o Copied
    BY <1>10 DEF Element, n
  <2>2. Gets = Copied
    <3>1. CASE IsPayload
      BY <3>1, <2>1, <1>7 DEF Gets, payload, n
    <3>2. CASE ~IsPayload
      <4>1. SubSeq(input, pos + n + 1, pos + n + Asked) = << >>
        <5>1. pos + n + 1 \in Int /\ pos + n + Asked \in Int /\ pos + n + Asked < pos + n + 1
          BY <3>2, <2>1, <1>1, <1>2, <1>4
        <5>2. QED BY <5>1, SubSeqEmpty
      <4>2. FromScratch \o << >> = FromScratch
        BY <1>3, ConcatEmptySeq
      <4>3. QED BY <3>2, <4>1, <4>2, <1>7 DEF Gets
    <3>3. QED BY <3>1, <3>2
  <2>3. pos' = pos + Len(Gets) /\ Len(Gets) \in Nat
    <3>1. CASE IsPayload
      BY <3>1, <2>1, <1>1, <1>2, <1>4, <1>6
    <3>2. CASE ~IsPayload
      BY <3>2, <2>1, <1>1, <1>2, <1>4, <1>6
    <3>3. QED BY <3>1, <3>2
  <2>4. QED BY <2>1, <2>2, <2>3, <1>3, <1>4, <1>5, <1>6
<1>11. QED
  BY <1>8, <1>9, <1>10 DEF Step, BadElement, Finish

LEMMA StoreKeeps ==
  ASSUME MInv, IInv, input \in Followed, Step, Store
  PROVE  MInv'
<1>1. /\ call = "reading" /\ raw = Nowhere /\ Holds(arrays, buffer, buf) /\ calls # << >>
      /\ calls' = calls /\ kept' = kept /\ Len(calls) \in Nat
  <2>1. call = "reading"
    BY DEF Step, BadElement, LongElement, CutElement, Element, Finish
  <2>2. QED
    BY <2>1, LenProperties DEF Store, MInv, MemoryType, RawIsGone, BufferHoldsBuf, NoCallYet
<1>2. IsArrays(arrays) /\ Len(arrays) \in Nat \ {0} /\ IsSlice(arrays, buffer)
  BY <1>1, ArrayType DEF MInv, MemoryType, Holds
<1>3. \A k \in DOMAIN kept :
        /\ kept[k].slice.arr \in 1 .. Len(arrays) /\ kept[k].slice.arr # 0
        /\ ~ReadAgain(k)' => ~ReadAgain(k) /\ Owned(k)
  <2>1. ASSUME NEW k \in DOMAIN kept
        PROVE  ReadAgain(k)' <=> ReadAgain(k)
    BY <1>1 DEF ReadAgain
  <2>2. \A k \in DOMAIN kept : kept[k].slice.arr \in 1 .. Len(arrays)
    BY DEF MInv, KeptType
  <2>3. \A k \in DOMAIN kept : kept[k].slice.arr # 0
    BY <2>2, <1>2
  <2>4. \A k \in DOMAIN kept : ~ReadAgain(k) => Owned(k)
    BY DEF MInv, KeptIsOwned
  <2>5. QED BY <2>1, <2>2, <2>3, <2>4
<1>4. CASE remaining > 0 /\ header.ok
  <2>1. /\ FromScratch \in Seq(Byte) /\ FromScratch # << >>
        /\ payload \in Seq(Byte) /\ Asked \in Nat /\ Len(payload) <= Asked
        /\ Gets \in Seq(Byte) /\ Len(Gets) \in Nat /\ pos' = pos + Len(Gets)
        /\ input' = input /\ Raw' = Raw /\ call' \in {"reading", "error"}
        /\ call' = "reading" => buf' = buf \o Gets
    BY <1>4, GetsWhatIsTaken
  <2>2. PICK m \in Stored : arrays' = m.arrays /\ buffer' = m.at
    BY <1>4 DEF Store
  <2>3. raw' = raw
    BY <1>4 DEF Store
  <2>4. Extends(arrays, buffer, Gets, arrays', buffer')
    <3>1. Grew(m, Gets)
      BY <1>2, <2>1, StoredGrew
    <3>2. QED BY <3>1, <2>2 DEF Grew
  <2>5. /\ IsArrays(arrays') /\ Len(arrays) <= Len(arrays') /\ Len(arrays') \in Nat \ {0}
        /\ Untouched(arrays, buffer, Len(Gets), arrays')
        /\ buffer'.arr = buffer.arr \/ buffer'.arr > Len(arrays)
    BY <2>4, ArrayType DEF Extends
  <2>6. Len(arrays'[1]) = Len(arrays[1]) /\ 1 \in 1 .. Len(arrays)
    BY <1>2, <2>5, UntouchedAt
  <2>7. MemoryType'
    <3>1. IsSlice(arrays', Nowhere)
      BY <2>5 DEF IsSlice, Nowhere, Capacity
    <3>2. QED BY <3>1, <1>1, <2>1, <2>3, <2>5, <2>6 DEF MInv, MemoryType
  <2>8. BufferHoldsBuf'
    <3>1. Holds(arrays', buffer', buf \o Gets)
      BY <1>1, <2>1, <2>4, ExtendsHolds
    <3>2. QED BY <3>1, <2>1 DEF BufferHoldsBuf
  <2>9. UnreadIntact'
    <3>1. ASSUME NEW j \in (pos' + 1) .. Len(input)
          PROVE  arrays'[1][j] = input[j]
      <4>1. pos \in Nat /\ Len(input) \in Nat /\ buffer.len \in Nat /\ buffer.len <= pos
        <5>1. /\ input \in Seq(Byte) /\ Len(input) \in Nat /\ pos \in Nat /\ start \in Nat
              /\ start <= pos /\ pos <= Len(input) /\ buf = SubSeq(input, start + 1, pos)
          BY <1>1, LenProperties DEF IInv, TypeOK, KeptIsTaken
        <5>2. Len(buf) = pos - start
          BY <5>1, SliceType
        <5>3. buffer.len = Len(buf)
          BY <1>1 DEF Holds
        <5>4. QED BY <5>1, <5>2, <5>3
      <4>2. j \in 1 .. Len(input) /\ j \in (pos + 1) .. Len(input) /\ ~(j <= buffer.len + Len(Gets))
        BY <4>1, <2>1
      <4>3. arrays[1][j] = input[j]
        BY <4>2 DEF MInv, UnreadIntact
      <4>4. j \in 1 .. Len(arrays[1])
        BY <4>2 DEF MInv, MemoryType
      <4>5. arrays'[1][j] = arrays[1][j]
        BY <4>2, <4>4, <2>5, <2>6, UntouchedAt
      <4>6. QED BY <4>3, <4>5
    <3>2. QED BY <3>1, <2>1 DEF UnreadIntact
  <2>10. KeptType'
    <3>1. \A k \in DOMAIN kept : kept[k].slice.arr \in 1 .. Len(arrays')
      BY <1>2, <1>3, <2>5
    <3>2. QED BY <3>1, <1>1 DEF MInv, KeptType
  <2>11. KeptIsOwned'
    <3>1. ASSUME NEW k \in DOMAIN kept, ~ReadAgain(k)'
          PROVE  Owned(k)'
      <4> DEFINE sl == kept[k].slice
      <4>1. Owned(k) /\ sl.arr \in 1 .. Len(arrays) /\ sl.arr # 0
        BY <1>3, <3>1
      <4>2. sl.arr # buffer.arr /\ Holds(arrays, sl, kept[k].bytes)
        BY <4>1, <1>1 DEF Owned
      <4>3. Holds(arrays', sl, kept[k].bytes)
        BY <4>1, <4>2, <1>2, <2>5, OthersHold
      <4>4. buffer'.arr # sl.arr
        BY <4>1, <4>2, <1>2, <2>5
      <4>5. raw'.arr # sl.arr
        BY <4>1, <1>1, <2>3 DEF Nowhere
      <4>6. QED BY <4>3, <4>4, <4>5, <1>1 DEF Owned
    <3>2. QED BY <3>1, <1>1 DEF KeptIsOwned
  <2>12. StandsStill' /\ NoCallYet' /\ RawIsGone' /\ RawHoldsRaw'
    BY <1>1, <2>1, <2>3 DEF StandsStill, NoCallYet, RawIsGone, RawHoldsRaw
  <2>13. QED BY <2>7, <2>8, <2>9, <2>10, <2>11, <2>12 DEF MInv
<1>5. CASE remaining > 0 /\ ~header.ok
  <2>1. /\ UNCHANGED <<arrays, raw, buffer, input, buf, Raw>>
        /\ call' = "error" /\ pos' = pos + header.n
    BY <1>5 DEF Store, Step, BadElement, LongElement, CutElement, Element, Finish, Fail
  <2>2. header.n \in Nat /\ pos \in Nat /\ Len(input) \in Nat
    <3>1. input \in Seq(Byte) /\ pos \in 0 .. Len(input) /\ Len(input) \in Nat
      BY LenProperties DEF IInv, TypeOK
    <3>2. header.n \in 0 .. (Len(input) - pos)
      BY <1>5, <3>1, HeaderTakes DEF header
    <3>3. QED BY <3>1, <3>2
  <2>3. UnreadIntact'
    <3>1. \A j \in (pos' + 1) .. Len(input) : j \in (pos + 1) .. Len(input)
      BY <2>1, <2>2
    <3>2. QED BY <3>1, <2>1 DEF MInv, UnreadIntact
  <2>4. KeptIsOwned'
    BY <1>1, <1>3, <2>1 DEF KeptIsOwned, Owned
  <2>5. MemoryType' /\ KeptType'
    BY <1>1, <2>1 DEF MInv, MemoryType, KeptType
  <2>6. StandsStill' /\ NoCallYet' /\ BufferHoldsBuf' /\ RawIsGone' /\ RawHoldsRaw'
    BY <1>1, <2>1 DEF StandsStill, NoCallYet, BufferHoldsBuf, RawIsGone, RawHoldsRaw
  <2>7. QED BY <2>3, <2>4, <2>5, <2>6 DEF MInv
<1>6. CASE remaining = 0
  <2>1. /\ UNCHANGED <<arrays, buffer, input, pos, buf>> /\ raw' = buffer
        /\ call' = "ok" /\ Raw' = buf
    BY <1>6 DEF Store, Step, BadElement, LongElement, CutElement, Element, Finish
  <2>2. KeptIsOwned'
    <3>1. ASSUME NEW k \in DOMAIN kept, ~ReadAgain(k)'
          PROVE  Owned(k)'
      BY <3>1, <1>1, <1>3, <2>1 DEF Owned
    <3>2. QED BY <3>1, <1>1 DEF KeptIsOwned
  <2>3. MemoryType' /\ KeptType' /\ UnreadIntact'
    BY <1>1, <1>2, <2>1 DEF MInv, MemoryType, KeptType, UnreadIntact
  <2>4. StandsStill' /\ NoCallYet' /\ BufferHoldsBuf' /\ RawIsGone' /\ RawHoldsRaw'
    BY <1>1, <2>1 DEF StandsStill, NoCallYet, BufferHoldsBuf, RawIsGone, RawHoldsRaw
  <2>5. QED BY <2>2, <2>3, <2>4 DEF MInv
<1>7. remaining \in Nat
  BY DEF IInv, TypeOK
<1>8. QED BY <1>4, <1>5, <1>6, <1>7

LEMMA KeepKeeps ==
  ASSUME MInv, IInv, Keep
  PROVE  MInv'
<1> DEFINE n == Len(kept)
           new == [slice |-> raw, bytes |-> Raw, call |-> Len(calls)]
<1>1. /\ call = "ok" /\ calls # << >> /\ raw # Nowhere /\ kept' = Append(kept, new)
      /\ UNCHANGED <<bothVars, arrays, raw, buffer, calls>>
  BY DEF Keep
<1>2. UNCHANGED <<input, pos, buf, Raw, call, verdict>>
  BY <1>1 DEF bothVars, vars, validateVars
<1>3. input \in Followed /\ Holds(arrays, raw, Raw) /\ Len(calls) \in Nat \ {0}
  BY <1>1, EmptySeq DEF MInv, MemoryType, StandsStill, RawHoldsRaw
<1>4. raw \in [arr : 0 .. Len(arrays), len : Nat] /\ Len(arrays) \in Nat /\ raw.arr # 0
  <2>1. raw \in [arr : 0 .. Len(arrays), len : Nat] /\ Len(arrays) \in Nat
    BY ArrayType DEF MInv, MemoryType, IsSlice
  <2>2. raw.arr = 0 => raw.len = 0
    BY <1>3, <2>1 DEF Holds, IsSlice, Capacity
  <2>3. raw = [arr |-> raw.arr, len |-> raw.len]
    BY <2>1
  <2>4. QED BY <1>1, <2>1, <2>2, <2>3 DEF Nowhere
<1>5. raw.arr \in 1 .. Len(arrays) /\ raw \in [arr : Nat, len : Nat]
  BY <1>4, NotZero
<1>6. new \in [slice : [arr : Nat, len : Nat], bytes : Seq(Byte), call : Nat]
  BY <1>3, <1>5 DEF IInv, TypeOK
<1>6a. new.slice = raw /\ new.bytes = Raw /\ new.call = Len(calls)
  OBVIOUS
<1> HIDE DEF new
<1>7. /\ kept' \in Seq([slice : [arr : Nat, len : Nat], bytes : Seq(Byte), call : Nat])
      /\ n \in Nat /\ DOMAIN kept = 1 .. n /\ DOMAIN kept' = 1 .. (n + 1)
      /\ \A k \in 1 .. n : kept'[k] = kept[k]
      /\ kept'[n + 1] = new
  BY <1>1, <1>6, AppendProperties, LenProperties DEF MInv, KeptType
<1> HIDE DEF n
<1>8. \A k \in 1 .. (n + 1) : k \in 1 .. n \/ k = n + 1
  BY <1>7
<1>9. KeptType'
  <2>1. ASSUME NEW k \in 1 .. (n + 1)
        PROVE  kept'[k].call \in 1 .. Len(calls) /\ kept'[k].slice.arr \in 1 .. Len(arrays)
    <3>1. CASE k \in 1 .. n
      BY <3>1, <1>7 DEF MInv, KeptType
    <3>2. CASE k = n + 1
      BY <3>2, <1>3, <1>5, <1>6a, <1>7
    <3>3. QED BY <3>1, <3>2, <1>8
  <2>2. QED BY <2>1, <1>1, <1>7 DEF KeptType
<1>10. KeptIsOwned'
  <2>1. ASSUME NEW k \in 1 .. (n + 1), ~ReadAgain(k)'
        PROVE  Owned(k)'
    <3>1. CASE k \in 1 .. n
      <4>1. kept'[k] = kept[k]
        BY <3>1, <1>7
      <4>2. ~ReadAgain(k)
        BY <2>1, <4>1, <1>1 DEF ReadAgain
      <4>3. Owned(k)
        BY <4>2, <3>1, <1>7 DEF MInv, KeptIsOwned
      <4>4. QED BY <4>1, <4>3, <1>1, <1>2 DEF Owned
    <3>2. CASE k = n + 1
      BY <3>2, <1>1, <1>2, <1>3, <1>6a, <1>7 DEF Owned
    <3>3. QED BY <3>1, <3>2, <1>8
  <2>2. QED BY <2>1, <1>7 DEF KeptIsOwned
<1>11. MemoryType' /\ StandsStill' /\ NoCallYet'
  BY <1>1, <1>2, <1>3 DEF MInv, MemoryType, StandsStill, NoCallYet
<1>12. BufferHoldsBuf' /\ RawIsGone' /\ RawHoldsRaw' /\ UnreadIntact'
  BY <1>1, <1>2 DEF MInv, BufferHoldsBuf, RawIsGone, RawHoldsRaw, UnreadIntact
<1>13. QED BY <1>9, <1>10, <1>11, <1>12 DEF MInv

\* Streams that are not followed have the arrays they began with.
LEMMA OthersKeep ==
  ASSUME MInv, UNCHANGED memory, input' = input,
         input \in Followed => UNCHANGED <<pos, buf, Raw, call, verdict>>,
         raw = Nowhere \/ UNCHANGED call
  PROVE  MInv'
<1>1. UNCHANGED <<arrays, raw, buffer, calls, kept, input>>
  BY DEF memory
<1>2. MemoryType' /\ StandsStill' /\ NoCallYet' /\ BufferHoldsBuf' /\ RawIsGone' /\ RawHoldsRaw' /\ KeptType'
  BY <1>1 DEF MInv, MemoryType, StandsStill, NoCallYet, BufferHoldsBuf, RawIsGone, RawHoldsRaw, KeptType
<1>3. CASE input \in Followed
  <2>1. UnreadIntact'
    BY <1>1, <1>3 DEF MInv, UnreadIntact
  <2>2. ASSUME NEW k \in DOMAIN kept
        PROVE  (ReadAgain(k)' <=> ReadAgain(k)) /\ (Owned(k)' <=> Owned(k))
    BY <1>1, <1>3 DEF ReadAgain, Owned
  <2>3. KeptIsOwned'
    BY <1>1, <2>2 DEF MInv, KeptIsOwned
  <2>4. QED BY <1>2, <2>1, <2>3 DEF MInv
<1>4. CASE input \notin Followed
  <2>1. arrays = << input >> /\ kept = << >>
    BY <1>4 DEF MInv, StandsStill
  <2>2. UnreadIntact'
    BY <1>1, <2>1 DEF UnreadIntact
  <2>3. KeptIsOwned'
    BY <1>1, <2>1 DEF KeptIsOwned
  <2>4. QED BY <1>2, <2>2, <2>3 DEF MInv
<1>5. QED BY <1>3, <1>4

SharedIInv == BothIInv /\ MInv

LEMMA SharedStepBoth == [SharedNext]_allVars => [BothNext]_bothVars
BY DEF SharedNext, StartIn, BothStepIn, AgainIn, StepAloneIn, Keep, BothNext, allVars

LEMMA StepShared == SharedIInv /\ [SharedNext]_allVars => SharedIInv'
<1> SUFFICES ASSUME BothIInv, MInv, [SharedNext]_allVars PROVE SharedIInv'
  BY DEF SharedIInv
<1>1. BothIInv'
  BY SharedStepBoth, StepBoth
<1>2. IInv
  BY DEF BothIInv
<1>3. ASSUME UNCHANGED memory, input \notin Followed, input' = input
      PROVE  MInv'
  <2>1. raw = Nowhere
    BY <1>3 DEF MInv, StandsStill
  <2>2. QED BY <1>3, <2>1, OthersKeep
<1>4. ASSUME Step PROVE input' = input
  BY <1>4 DEF Step, BadElement, LongElement, CutElement, Element, Finish, Fail
<1>5. CASE StartIn
  <2>1. /\ Unmarshal /\ input' = input
        /\ IF input \in Followed THEN BeginIn(1) ELSE UNCHANGED memory
    BY <1>5 DEF StartIn, Start, Unmarshal, Follow
  <2>2. CASE input \in Followed
    BY <2>1, <2>2, <1>1, BeginKeeps DEF SharedIInv
  <2>3. CASE input \notin Followed
    BY <2>1, <2>3, <1>1, <1>3 DEF SharedIInv
  <2>4. QED BY <2>2, <2>3
<1>6. CASE BothStepIn \/ StepAloneIn
  <2>1. /\ Step /\ input' = input
        /\ IF input \in Followed THEN Store ELSE UNCHANGED memory
    BY <1>4, <1>6 DEF BothStepIn, BothStep, StepAloneIn, StepAlone, Follow
  <2>2. CASE input \in Followed
    BY <2>1, <2>2, <1>1, <1>2, StoreKeeps DEF SharedIInv
  <2>3. CASE input \notin Followed
    BY <2>1, <2>3, <1>1, <1>3 DEF SharedIInv
  <2>4. QED BY <2>2, <2>3
<1>7. CASE AgainIn
  <2>1. Unmarshal /\ input' = input /\ verdict # "none"
    BY <1>7 DEF AgainIn, Again, Unmarshal, Validated
  <2>2. CASE input \in Followed
    <3>1. PICK d \in {calls[Len(calls)], calls[Len(calls)] + 1} : BeginIn(d)
      BY <1>7, <2>2 DEF AgainIn, Follow
    <3>2. calls # << >>
      BY <2>1, <2>2 DEF MInv, NoCallYet
    <3>3. d \in Nat
      <4>1. calls \in Seq(Nat) /\ Len(calls) \in Nat \ {0}
        BY <3>2, EmptySeq DEF MInv, MemoryType
      <4>2. Len(calls) \in 1 .. Len(calls)
        BY <4>1
      <4>3. calls[Len(calls)] \in Nat
        BY <4>1, <4>2, ElementOfSeq
      <4>4. QED BY <4>3
    <3>4. QED BY <2>1, <2>2, <3>1, <3>3, <1>1, BeginKeeps DEF SharedIInv
  <2>3. CASE input \notin Followed
    BY <1>7, <2>1, <2>3, <1>1, <1>3 DEF AgainIn, Follow, SharedIInv
  <2>4. QED BY <2>2, <2>3
<1>8. CASE Keep
  BY <1>8, <1>1, <1>2, KeepKeeps DEF SharedIInv
<1>9. CASE UNCHANGED allVars
  BY <1>9, <1>1, OthersKeep DEF allVars, bothVars, vars, validateVars, SharedIInv
<1>10. QED BY <1>5, <1>6, <1>7, <1>8, <1>9 DEF SharedNext

LEMMA InitShared == SharedInit => SharedIInv
BY InitMInv, InitBoth DEF SharedInit, SharedIInv

-----------------------------------------------------------------------------

\* Whatever is done to arrays, Deferred and ValidateCBOR do what they do by
\* themselves, so that all that is proved of them holds here (utils.go:154-222).
THEOREM SharedIsBoth == SharedSpec => BothSpec
<1>1. SharedInit => BothInit
  BY DEF SharedInit
<1>2. QED BY <1>1, SharedStepBoth, PTL DEF SharedSpec, BothSpec

\* The Raw of a Deferred is the item that was read last, whatever array it is in and
\* however often the buffer has moved to a longer one (utils.go:158-160, 220).
THEOREM AlwaysHoldsRaw == SharedSpec => []HoldsRaw
<1>1. SharedIInv => HoldsRaw
  <2> SUFFICES ASSUME SharedIInv, input \in Followed, Raw # << >>
               PROVE  Content(arrays, raw) = Raw
    BY DEF HoldsRaw
  <2>1. call = "ok" /\ calls # << >>
    BY DEF SharedIInv, BothIInv, IInv, RawOfLastCall, MInv, NoCallYet
  <2>2. Holds(arrays, raw, Raw) /\ IsArrays(arrays)
    BY <2>1 DEF SharedIInv, MInv, RawHoldsRaw, MemoryType
  <2>3. QED BY <2>2, HoldsContent
<1>2. QED BY <1>1, InitShared, StepShared, PTL DEF SharedSpec

\* A Deferred may be unmarshalled from a reader over its own Raw: it never writes
\* over a byte that is still to be read (utils.go:158, 182, 196).
THEOREM AlwaysUnreadIntact == SharedSpec => []UnreadIntact
<1>1. SharedIInv => UnreadIntact
  BY DEF SharedIInv, MInv
<1>2. QED BY <1>1, InitShared, StepShared, PTL DEF SharedSpec

\* What a caller keeps of Raw changes only when that same Deferred is unmarshalled
\* again (utils.go:157-160).
THEOREM AlwaysKeptUnchanged == SharedSpec => []KeptUnchanged
<1>1. SharedIInv => KeptUnchanged
  <2> SUFFICES ASSUME SharedIInv, NEW k \in DOMAIN kept, ~ReadAgain(k)
               PROVE  Content(arrays, kept[k].slice) = kept[k].bytes
    BY DEF KeptUnchanged
  <2>1. Holds(arrays, kept[k].slice, kept[k].bytes) /\ IsArrays(arrays)
    BY DEF SharedIInv, MInv, KeptIsOwned, Owned, MemoryType
  <2>2. QED BY <2>1, HoldsContent
<1>2. QED BY <1>1, InitShared, StepShared, PTL DEF SharedSpec
=============================================================================
