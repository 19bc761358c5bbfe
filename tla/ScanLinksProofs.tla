--------------------------- MODULE ScanLinksProofs ---------------------------
(***************************************************************************)
(* For every wire format and stream, and whatever a link is: ScanForLinks  *)
(* stays within its stream, returns what it took, and calls back for       *)
(* nothing but tagged byte strings of the item, in their order and none of *)
(* them twice.                                                             *)
(***************************************************************************)
EXTENDS ScanLinks, CborProofs

\* A link as it stands in a stream: the tag, and the byte string.
LinkItem(l) ==
  WriteMajorTypeHeader(MajTag, LinkTag) \o WriteMajorTypeHeader(MajByteString, Len(l)) \o l

\* The links called back with stand, tags and all, in the part of the stream that
\* this call has taken, one behind the other; cid.Cast accepts each.
LinkAt(k, from, to) ==
  /\ from[k] <= to[k]
  /\ SubSeq(input, from[k] + 1, to[k]) = LinkItem(links[k])
  /\ IsCid(Tail(links[k]))
  /\ \A j \in 1 .. (k - 1) : to[j] <= from[k]

LinksInPlace ==
  \E from, to \in [1 .. Len(links) -> start .. pos] :
    \A k \in 1 .. Len(links) : LinkAt(k, from, to)

\* The count is the position, until a call fails.
CountsWhatItTook == call \in {"reading", "ok"} => bytesRead = pos - start

ScanIInv ==
  /\ input \in Inputs
  /\ links \in Seq(Seq(Byte))
  /\ TypeOK
  /\ CountsWhatItTook
  /\ LinksInPlace

-----------------------------------------------------------------------------

LEMMA Positions ==
  ASSUME ScanIInv
  PROVE  /\ input \in Seq(Byte) /\ Len(input) \in Nat
         /\ start \in Nat /\ pos \in Nat /\ start <= pos /\ pos <= Len(input)
         /\ bytesRead \in Nat /\ bytesRead <= pos - start
         /\ Len(links) \in Nat /\ MaxLink \in Nat /\ remaining \in Nat
BY InputsAssumption, LenProperties DEF ScanIInv, TypeOK

\* What a header that is good promises, and that a bad one ends within the stream.
LEMMA GoodHeaderAt ==
  ASSUME ScanIInv, NEW p \in Nat, CborReadHeaderBuf(input, p).ok
  PROVE  LET h == CborReadHeaderBuf(input, p) IN
         /\ h.n \in Nat \ {0} /\ p + h.n <= Len(input)
         /\ h.maj \in Majors /\ h.extra \in Arguments /\ h.extra \in Nat
         /\ SubSeq(input, p + 1, p + h.n) = WriteMajorTypeHeader(h.maj, h.extra)
<1>1. /\ CborReadHeaderBuf(input, p).n \in Nat \ {0}
      /\ p + CborReadHeaderBuf(input, p).n <= Len(input)
      /\ CborReadHeaderBuf(input, p).maj \in Majors
      /\ CborReadHeaderBuf(input, p).extra \in Arguments
      /\ SubSeq(input, p + 1, p + CborReadHeaderBuf(input, p).n)
           = WriteMajorTypeHeader(CborReadHeaderBuf(input, p).maj, CborReadHeaderBuf(input, p).extra)
  BY Positions, WritesWhatIsRead
<1>2. CborReadHeaderBuf(input, p).extra \in Nat
  <2>1. Limit(Len(Widths)) \in Nat
    BY Sizes, SizesAssumption
  <2>2. QED BY <1>1, <2>1 DEF Arguments
<1>3. QED BY <1>1, <1>2

LEMMA BadHeaderAt ==
  ASSUME ScanIInv, NEW p \in Nat, p <= Len(input), ~CborReadHeaderBuf(input, p).ok
  PROVE  /\ CborReadHeaderBuf(input, p).n \in Nat
         /\ p + CborReadHeaderBuf(input, p).n <= Len(input)
<1>1. input \in Seq(Byte) /\ Len(input) \in Nat
  BY Positions
<1>2. CborReadHeaderBuf(input, p).n \in 0 .. (Len(input) - p)
  BY <1>1, HeaderTakes
<1>3. QED BY <1>1, <1>2

LEMMA Outer ==
  ASSUME ScanIInv, header.ok
  PROVE  /\ header.n \in Nat \ {0} /\ header.maj \in Majors
         /\ header.extra \in Nat /\ header.extra \in Arguments
         /\ body = pos + header.n /\ body \in Nat /\ body <= Len(input)
         /\ SubSeq(input, pos + 1, body) = WriteMajorTypeHeader(header.maj, header.extra)
<1>1. pos \in Nat
  BY Positions
<1>2. QED BY <1>1, GoodHeaderAt DEF header, body

LEMMA Inner ==
  ASSUME ScanIInv, header.ok, inner.ok
  PROVE  /\ inner.n \in Nat \ {0} /\ inner.maj \in Majors /\ inner.extra \in Nat
         /\ first = body + inner.n /\ first \in Nat /\ first <= Len(input)
         /\ SubSeq(input, body + 1, first) = WriteMajorTypeHeader(inner.maj, inner.extra)
<1>1. body \in Nat
  BY Outer
<1>2. QED BY <1>1, GoodHeaderAt DEF inner, first

-----------------------------------------------------------------------------

\* Links stay in their places when the call goes on.
LEMMA StayInPlace ==
  ASSUME ScanIInv, UNCHANGED <<input, start, links>>, pos' \in Nat, pos <= pos'
  PROVE  LinksInPlace'
<1>0. start \in Nat /\ pos \in Nat /\ Len(links) \in Nat
  BY Positions
<1>1. PICK from, to \in [1 .. Len(links) -> start .. pos] :
        \A k \in 1 .. Len(links) : LinkAt(k, from, to)
  BY DEF ScanIInv, LinksInPlace
<1>2. from \in [1 .. Len(links) -> start .. pos'] /\ to \in [1 .. Len(links) -> start .. pos']
  BY <1>0, <1>1
<1>3. \A k \in 1 .. Len(links) : LinkAt(k, from, to)'
  BY <1>1 DEF LinkAt
<1>4. QED BY <1>2, <1>3 DEF LinksInPlace

\* A call that ends, however it does, took something more at most.
LEMMA EndKeeps ==
  ASSUME ScanIInv, call = "reading", NEW how \in {"error", "panic"}, NEW p \in Nat, NEW k \in Nat,
         p <= Len(input), k <= p - pos, End(how, p, k)
  PROVE  ScanIInv'
<1>1. /\ call' = how /\ pos' = p /\ bytesRead' = bytesRead + k
      /\ UNCHANGED <<input, start, remaining, links>>
  BY DEF End
<1>2. /\ start \in Nat /\ pos \in Nat /\ start <= pos /\ Len(input) \in Nat /\ bytesRead \in Nat
      /\ bytesRead <= pos - start
  BY Positions
<1>3. TypeOK'
  <2>1. /\ p \in 0 .. Len(input) /\ start \in 0 .. p /\ bytesRead + k \in 0 .. (p - start)
    BY <1>2
  <2>2. QED BY <1>1, <2>1 DEF ScanIInv, TypeOK
<1>4. LinksInPlace'
  BY <1>1, <1>2, StayInPlace
<1>5. QED BY <1>1, <1>3, <1>4 DEF ScanIInv, CountsWhatItTook

LEMMA Uint64Type ==
  ASSUME NEW n \in Int
  PROVE  Uint64(n) \in Nat
BY Sizes, SizesAssumption DEF Uint64

LEMMA ElementKeeps ==
  ASSUME ScanIInv, Element
  PROVE  ScanIInv'
<1> DEFINE n == header.n
           P == Asked
<1>1. /\ call = "reading" /\ header.ok /\ body + P <= Len(input)
      /\ pos' = body + P
      /\ bytesRead' = bytesRead + n + P
      /\ remaining' = Uint64(Uint64(remaining + Nested(header.maj, header.extra)) - 1)
      /\ UNCHANGED <<input, start, links, call>>
  BY DEF Element
<1>2. n \in Nat /\ header.extra \in Nat /\ body = pos + n /\ body \in Nat
  BY <1>1, Outer
<1>3. P \in Nat
  BY <1>2 DEF Asked, Payload
<1>4. remaining' \in Nat
  <2>0. Nested(header.maj, header.extra) \in Nat
    BY <1>2 DEF Nested
  <2>1. remaining + Nested(header.maj, header.extra) \in Int
    BY <2>0, Positions
  <2>2. Uint64(remaining + Nested(header.maj, header.extra)) \in Nat
    BY <2>1, Uint64Type
  <2>3. Uint64(remaining + Nested(header.maj, header.extra)) - 1 \in Int
    BY <2>2
  <2>4. QED BY <1>1, <2>3, Uint64Type
<1>5. /\ start \in Nat /\ pos \in Nat /\ start <= pos /\ Len(input) \in Nat
      /\ bytesRead = pos - start
  BY <1>1, Positions DEF ScanIInv, CountsWhatItTook
<1>6. /\ pos' \in Nat /\ pos <= pos' /\ pos' <= Len(input) /\ bytesRead' = pos' - start
  <2> HIDE DEF n, P
  <2>1. QED BY <1>1, <1>2, <1>3, <1>5
<1>7. LinksInPlace'
  BY <1>1, <1>6, StayInPlace
<1>8. TypeOK'
  <2>1. pos' \in 0 .. Len(input) /\ start \in 0 .. pos' /\ bytesRead' \in 0 .. (pos' - start)
    <3>1. start <= pos' /\ pos' \in Nat /\ bytesRead' = pos' - start
      BY <1>5, <1>6
    <3>2. QED BY <3>1, <1>5, <1>6, Intervals
  <2>2. QED BY <1>1, <1>4, <2>1 DEF ScanIInv, TypeOK
<1>9. QED BY <1>1, <1>6, <1>7, <1>8 DEF ScanIInv, CountsWhatItTook

\* The link that is found stands behind all that were taken before.
LEMMA LinkKeeps ==
  ASSUME ScanIInv, Link
  PROVE  ScanIInv'
<1> DEFINE m == Len(links)
<1>1. call = "reading" /\ header.ok /\ Announces(header) /\ inner.ok /\ MayBeLink(inner)
  BY DEF Link
<1>2. end <= Len(input) /\ inner.extra > 0 /\ pos' = end /\ bytesRead' = bytesRead + LinkBytes
  BY DEF Link
<1>3. IsCid(Tail(found)) /\ links' = Append(links, found) /\ remaining' = Uint64(remaining - 1)
  BY DEF Link
<1>4. UNCHANGED <<input, start, call>>
  BY DEF Link
<1>5. /\ start \in Nat /\ pos \in Nat /\ start <= pos /\ m \in Nat /\ MaxLink \in Nat
      /\ bytesRead = pos - start /\ remaining \in Nat /\ Len(input) \in Nat
  BY <1>1, Positions DEF ScanIInv, CountsWhatItTook
<1>6. input \in Seq(Byte) /\ links \in Seq(Seq(Byte))
  BY Positions DEF ScanIInv
<1>7. header.n \in Nat \ {0} /\ body = pos + header.n /\ body \in Nat
  BY <1>1, Outer
<1>8. SubSeq(input, pos + 1, body) = WriteMajorTypeHeader(MajTag, LinkTag)
  BY <1>1, Outer DEF Announces
<1>9. /\ inner.n \in Nat \ {0} /\ first = body + inner.n /\ first \in Nat
      /\ inner.extra \in Nat /\ inner.extra <= MaxLink
  BY <1>1, Inner DEF MayBeLink
<1>10. SubSeq(input, body + 1, first) = WriteMajorTypeHeader(MajByteString, inner.extra)
  BY <1>1, Inner DEF MayBeLink
<1>11. end = first + inner.extra /\ LinkBytes = header.n + inner.n + inner.extra
  BY DEF end, LinkBytes
<1> DEFINE a == header.n
           b == inner.n
           x == inner.extra
           w == LinkBytes
<1>12. /\ end \in Nat /\ first <= end /\ pos < end /\ start <= end
       /\ pos <= body /\ body <= first /\ pos <= first /\ first <= Len(input)
       /\ bytesRead' = end - start /\ end - first = inner.extra
  <2>1. /\ a \in Nat /\ a > 0 /\ b \in Nat /\ b > 0 /\ x \in Nat
        /\ body \in Nat /\ body = pos + a /\ first \in Nat /\ first = body + b
        /\ end = first + x /\ w = a + b + x /\ bytesRead' = bytesRead + w
    BY <1>2, <1>7, <1>9, <1>11
  <2> HIDE DEF a, b, x, w, m
  <2>2. end \in Nat /\ first <= end /\ pos < end /\ start <= end
    BY <2>1, <1>5
  <2>3. pos <= body /\ body <= first /\ pos <= first /\ first <= Len(input)
    BY <2>1, <2>2, <1>2, <1>5
  <2>4. bytesRead' = end - start /\ end - first = x
    BY <2>1, <1>5
  <2>5. QED BY <2>2, <2>3, <2>4 DEF x
<1>13. found \in Seq(Byte) /\ Len(found) = inner.extra
  <2>1. found \in Seq(Byte) /\ Len(found) = end - first
    BY <1>2, <1>6, <1>9, <1>12, SliceType DEF found
  <2>2. QED BY <2>1, <1>12
<1>14. SubSeq(input, pos + 1, end) = LinkItem(found)
  <2>0. body \in Nat /\ first \in Nat
    BY <1>7, <1>9
  <2>1. SubSeq(input, pos + 1, body) \o SubSeq(input, body + 1, first) = SubSeq(input, pos + 1, first)
    BY <1>5, <1>6, <1>12, <2>0, SliceConcat
  <2>2. SubSeq(input, pos + 1, first) \o SubSeq(input, first + 1, end) = SubSeq(input, pos + 1, end)
    BY <1>2, <1>5, <1>6, <1>12, <2>0, SliceConcat
  <2>3. QED BY <2>1, <2>2, <1>8, <1>10, <1>13 DEF LinkItem, found
<1>15. /\ links' \in Seq(Seq(Byte)) /\ Len(links') = m + 1 /\ links'[m + 1] = found
       /\ \A k \in 1 .. m : links'[k] = links[k]
  BY <1>3, <1>6, <1>13, AppendProperties
<1>16. LinksInPlace'
  <2>1. PICK c \in Nat, p \in Nat, e \in Nat : c = Len(links) /\ p = pos /\ e = end
    BY <1>5, <1>12
  <2>2. PICK from, to \in [1 .. c -> start .. p] : \A k \in 1 .. c : LinkAt(k, from, to)
    BY <2>1 DEF ScanIInv, LinksInPlace
  <2> DEFINE f == [k \in 1 .. (c + 1) |-> IF k = c + 1 THEN p ELSE from[k]]
             t == [k \in 1 .. (c + 1) |-> IF k = c + 1 THEN e ELSE to[k]]
  <2>3. \A k \in 1 .. (c + 1) : k # c + 1 => k \in 1 .. c
    BY <2>1
  <2>4. \A k \in 1 .. c : from[k] \in start .. p /\ to[k] \in start .. p
    BY <2>2
  <2>5. /\ \A n \in start .. p : n \in start .. e
        /\ p \in start .. e /\ e \in start .. e
    BY <2>1, <1>5, <1>12
  <2>6. f \in [1 .. (c + 1) -> start .. e] /\ t \in [1 .. (c + 1) -> start .. e]
    BY <2>3, <2>4, <2>5
  <2>7. c + 1 \in 1 .. (c + 1) /\ \A k \in 1 .. c : k \in 1 .. (c + 1) /\ k # c + 1
    BY <2>1
  <2>8. /\ f[c + 1] = p /\ t[c + 1] = e
        /\ \A k \in 1 .. c : f[k] = from[k] /\ t[k] = to[k]
    BY <2>7
  <2>9. \A k \in 1 .. c : to[k] <= p
    BY <2>4, <2>1, <1>5
  <2> HIDE DEF f, t
  <2>10. ASSUME NEW k \in 1 .. c PROVE LinkAt(k, f, t)'
    <3>1. /\ from[k] <= to[k] /\ SubSeq(input, from[k] + 1, to[k]) = LinkItem(links[k])
          /\ IsCid(Tail(links[k])) /\ \A j \in 1 .. (k - 1) : to[j] <= from[k]
      BY <2>2 DEF LinkAt
    <3>2. \A j \in 1 .. (k - 1) : j \in 1 .. c
      BY <2>1
    <3>3. f[k] = from[k] /\ t[k] = to[k] /\ links'[k] = links[k] /\ input' = input
      BY <2>1, <2>8, <1>4, <1>15
    <3>4. \A j \in 1 .. (k - 1) : t[j] <= f[k]
      BY <3>1, <3>2, <3>3, <2>8
    <3>5. /\ f[k] <= t[k] /\ SubSeq(input', f[k] + 1, t[k]) = LinkItem(links'[k])
          /\ IsCid(Tail(links'[k]))
      BY <3>1, <3>3
    <3>6. QED BY <3>4, <3>5 DEF LinkAt, LinkItem
  <2>11. LinkAt(c + 1, f, t)'
    <3>1. \A j \in 1 .. ((c + 1) - 1) : j \in 1 .. c
      BY <2>1
    <3>2. \A j \in 1 .. ((c + 1) - 1) : t[j] <= f[c + 1]
      BY <3>1, <2>8, <2>9
    <3>3. f[c + 1] <= t[c + 1]
      BY <2>8, <2>1, <1>5, <1>12
    <3>4. /\ SubSeq(input', f[c + 1] + 1, t[c + 1]) = LinkItem(links'[c + 1])
          /\ IsCid(Tail(links'[c + 1]))
      BY <2>1, <2>8, <1>3, <1>4, <1>14, <1>15
    <3>5. QED BY <3>2, <3>3, <3>4 DEF LinkAt, LinkItem
  <2>12. \A k \in 1 .. (c + 1) : LinkAt(k, f, t)'
    BY <2>3, <2>10, <2>11
  <2>13. start' = start /\ pos' = e /\ Len(links') = c + 1
    BY <2>1, <1>2, <1>4, <1>15
  <2>14. QED BY <2>6, <2>12, <2>13 DEF LinksInPlace
<1>17. TypeOK'
  <2>1. end \in 0 .. Len(input) /\ start \in 0 .. end /\ end - start \in 0 .. (end - start)
    BY <1>2, <1>5, <1>12, Intervals
  <2>2. remaining' \in Nat
    BY <1>3, <1>5, Uint64Type
  <2>3. \A k \in 1 .. (m + 1) : Len(links'[k]) \in 1 .. MaxLink
    <3>1. \A k \in 1 .. m : Len(links[k]) \in 1 .. MaxLink
      BY DEF ScanIInv, TypeOK
    <3>2. Len(found) \in 1 .. MaxLink
      BY <1>2, <1>5, <1>9, <1>13
    <3>3. \A k \in 1 .. (m + 1) : k # m + 1 => k \in 1 .. m
      BY <1>5
    <3> HIDE DEF m
    <3>4. QED BY <3>1, <3>2, <3>3, <1>15
  <2>4. QED BY <1>1, <1>2, <1>4, <1>12, <1>15, <2>1, <2>2, <2>3 DEF TypeOK
<1>18. CountsWhatItTook'
  BY <1>1, <1>2, <1>4, <1>12 DEF CountsWhatItTook
<1>19. QED BY <1>4, <1>15, <1>16, <1>17, <1>18 DEF ScanIInv

LEMMA NowhereYet ==
  ASSUME NEW S
  PROVE  \E f \in [1 .. 0 -> S] : TRUE
<1> DEFINE f == [k \in 1 .. 0 |-> 0]
<1>1. f \in [1 .. 0 -> S]
  OBVIOUS
<1>2. QED BY <1>1

LEMMA StepIInv == ScanIInv /\ [Next]_vars => ScanIInv'
<1> SUFFICES ASSUME ScanIInv, [Next]_vars PROVE ScanIInv'
  OBVIOUS
<1>0. /\ pos \in Nat /\ pos <= Len(input) /\ Len(input) \in Nat /\ start \in Nat
  BY Positions
<1>1. CASE ScanForLinks
  <2>1. /\ start' = pos /\ remaining' = 1 /\ bytesRead' = 0 /\ links' = << >> /\ call' = "reading"
        /\ UNCHANGED <<input, pos>>
    BY <1>1 DEF ScanForLinks
  <2>2. links' \in Seq(Seq(Byte)) /\ Len(links') = 0
    BY <2>1, EmptySeq
  <2>3. TypeOK'
    <3>1. pos \in 0 .. pos /\ pos \in 0 .. Len(input) /\ 0 \in 0 .. (pos - pos)
      BY <1>0
    <3>2. QED BY <2>1, <2>2, <3>1 DEF TypeOK
  <2>4. LinksInPlace'
    <3>1. PICK f \in [1 .. 0 -> pos .. pos] : TRUE
      BY NowhereYet
    <3>2. \A k \in 1 .. 0 : LinkAt(k, f, f)'
      OBVIOUS
    <3>3. QED BY <2>1, <2>2, <3>2 DEF LinksInPlace
  <2>5. CountsWhatItTook'
    BY <2>1, <1>0 DEF CountsWhatItTook
  <2>6. QED BY <2>1, <2>2, <2>3, <2>4, <2>5 DEF ScanIInv
<1>2. CASE BadElement
  <2>1. call = "reading" /\ ~header.ok /\ End("error", body, 0)
    BY <1>2 DEF BadElement
  <2>2. header.n \in Nat /\ body = pos + header.n /\ pos + header.n <= Len(input)
    BY <2>1, <1>0, BadHeaderAt DEF header, body
  <2> DEFINE n == header.n
  <2>3. body \in Nat /\ body <= Len(input) /\ 0 <= body - pos
    <3>1. n \in Nat /\ body = pos + n /\ pos + n <= Len(input)
      BY <2>2
    <3> HIDE DEF n
    <3>2. QED BY <3>1, <1>0
  <2>4. QED BY <2>1, <2>3, EndKeeps
<1>3. CASE CutElement
  <2>1. call = "reading" /\ header.ok /\ End("error", Len(input), header.n)
    BY <1>3 DEF CutElement
  <2>2. header.n \in Nat /\ body = pos + header.n /\ body <= Len(input)
    BY <2>1, Outer
  <2> DEFINE n == header.n
  <2>3. n \in Nat /\ n <= Len(input) - pos
    <3>1. n \in Nat /\ body = pos + n /\ body <= Len(input)
      BY <2>2
    <3> HIDE DEF n
    <3>2. QED BY <3>1, <1>0
  <2> HIDE DEF n
  <2>4. End("error", Len(input), n)
    BY <2>1 DEF n
  <2>5. Len(input) <= Len(input)
    BY <1>0
  <2>6. QED BY <2>1, <2>3, <2>4, <2>5, <1>0, EndKeeps
<1>4. CASE Element
  BY <1>4, ElementKeeps
<1>5. CASE BadLinkHeader
  <2>1. call = "reading" /\ header.ok /\ ~inner.ok /\ End("error", first, header.n)
    BY <1>5 DEF BadLinkHeader
  <2>2. body \in Nat /\ body <= Len(input)
    BY <2>1, Outer
  <2>3. inner.n \in Nat /\ first = body + inner.n /\ body + inner.n <= Len(input)
    BY <2>1, <2>2, BadHeaderAt DEF inner, first
  <2>4. header.n \in Nat /\ body = pos + header.n
    BY <2>1, Outer
  <2> DEFINE n == header.n
             m == inner.n
  <2>5. first \in Nat /\ first <= Len(input) /\ n \in Nat /\ n <= first - pos
    <3>1. n \in Nat /\ body = pos + n /\ m \in Nat /\ first = body + m /\ body + m <= Len(input)
      BY <2>3, <2>4
    <3> HIDE DEF n, m
    <3>2. QED BY <3>1, <2>2, <1>0
  <2> HIDE DEF n
  <2>6. End("error", first, n)
    BY <2>1 DEF n
  <2>7. QED BY <2>1, <2>5, <2>6, EndKeeps
<1>6. ASSUME NEW e \in Nat, NEW how \in {"error", "panic"}, NEW k \in Nat,
             header.ok, inner.ok, first <= e, e <= Len(input), k <= e - first, call = "reading",
             End(how, e, header.n + inner.n + k)
      PROVE  ScanIInv'
  <2> DEFINE n == header.n
             m == inner.n
             w == n + m + k
  <2>1. /\ n \in Nat /\ body = pos + n /\ body \in Nat
        /\ m \in Nat /\ first = body + m /\ first \in Nat
    BY <1>6, Outer, Inner
  <2> HIDE DEF n, m
  <2>2. w \in Nat /\ w <= e - pos
    BY <2>1, <1>6, <1>0
  <2>3. End(how, e, w)
    BY <1>6 DEF n, m
  <2> HIDE DEF w
  <2>4. QED BY <2>2, <2>3, <1>6, EndKeeps
<1>7. ASSUME header.ok, inner.ok
      PROVE  /\ first \in Nat /\ first <= Len(input)
             /\ header.n + inner.n = header.n + inner.n + 0
  <2> DEFINE n == header.n
             m == inner.n
  <2>1. n \in Nat /\ m \in Nat /\ first \in Nat /\ first <= Len(input)
    BY <1>7, Outer, Inner
  <2> HIDE DEF n, m
  <2>2. n + m = n + m + 0
    BY <2>1
  <2>3. QED BY <2>1, <2>2 DEF n, m
<1>8. CASE NoByteString \/ EmptyLink
  <2>1. PICK how \in {"error", "panic"} :
          call = "reading" /\ header.ok /\ inner.ok /\ End(how, first, header.n + inner.n)
    BY <1>8 DEF NoByteString, EmptyLink
  <2>2. End(how, first, header.n + inner.n + 0)
    BY <2>1, <1>7
  <2>3. first \in Nat /\ first <= Len(input) /\ first <= first /\ 0 <= first - first
    BY <2>1, <1>7
  <2>4. QED BY <2>1, <2>2, <2>3, <1>6
<1>9. CASE CutLink
  <2>1. call = "reading" /\ header.ok /\ inner.ok /\ End("error", Len(input), header.n + inner.n)
    BY <1>9 DEF CutLink
  <2>2. End("error", Len(input), header.n + inner.n + 0)
    BY <2>1, <1>7
  <2>3. first <= Len(input) /\ Len(input) <= Len(input) /\ 0 <= Len(input) - first
    BY <2>1, <1>7, <1>0
  <2>4. QED BY <2>1, <2>2, <2>3, <1>0, <1>6
<1>10. CASE NotALink
  <2>1. /\ call = "reading" /\ header.ok /\ inner.ok /\ end <= Len(input)
        /\ End("error", end, header.n + inner.n + inner.extra)
    BY <1>10 DEF NotALink
  <2> DEFINE x == inner.extra
  <2>2. x \in Nat /\ end = first + x
    BY <2>1, Inner DEF end
  <2>3. End("error", end, header.n + inner.n + x)
    BY <2>1
  <2> HIDE DEF x
  <2>4. end \in Nat /\ first <= end /\ x <= end - first
    BY <2>1, <2>2, <1>7
  <2>5. QED BY <2>1, <2>2, <2>3, <2>4, <1>6
<1>11. CASE Link
  BY <1>11, LinkKeeps
<1>12. CASE Finish
  <2>1. call' = "ok" /\ call = "reading" /\ UNCHANGED <<input, pos, start, remaining, bytesRead, links>>
    BY <1>12 DEF Finish
  <2>2. LinksInPlace'
    BY <2>1, <1>0, StayInPlace
  <2>3. TypeOK' /\ CountsWhatItTook'
    BY <2>1 DEF ScanIInv, TypeOK, CountsWhatItTook
  <2>4. QED BY <2>1, <2>2, <2>3 DEF ScanIInv
<1>13. CASE UNCHANGED vars
  <2>1. UNCHANGED <<input, pos, start, remaining, bytesRead, links, call>>
    BY <1>13 DEF vars
  <2>2. LinksInPlace'
    BY <2>1, <1>0, StayInPlace
  <2>3. TypeOK' /\ CountsWhatItTook'
    BY <2>1 DEF ScanIInv, TypeOK, CountsWhatItTook
  <2>4. QED BY <2>1, <2>2, <2>3 DEF ScanIInv
<1>14. QED
  BY <1>1, <1>2, <1>3, <1>4, <1>5, <1>8, <1>9, <1>10, <1>11, <1>12, <1>13 DEF Next, Step

LEMMA InitIInv == Init => ScanIInv
<1> SUFFICES ASSUME Init PROVE ScanIInv
  OBVIOUS
<1>1. /\ input \in Inputs /\ pos = 0 /\ start = 0 /\ remaining = 0 /\ bytesRead = 0
      /\ links = << >> /\ call = "ok"
  BY DEF Init
<1>2. Len(input) \in Nat /\ 0 \in 0 .. Len(input) /\ 0 \in 0 .. 0 /\ 0 \in 0 .. (0 - 0)
  BY <1>1, InputsAssumption, LenProperties
<1>3. links \in Seq(Seq(Byte)) /\ Len(links) = 0
  BY <1>1, EmptySeq
<1>4. TypeOK
  BY <1>1, <1>2, <1>3 DEF TypeOK
<1>5. LinksInPlace
  <2>1. PICK f \in [1 .. 0 -> 0 .. 0] : TRUE
    BY NowhereYet
  <2>2. \A k \in 1 .. 0 : LinkAt(k, f, f)
    OBVIOUS
  <2>3. QED BY <1>1, <1>3, <2>2 DEF LinksInPlace
<1>6. QED BY <1>1, <1>3, <1>4, <1>5 DEF ScanIInv, CountsWhatItTook

-----------------------------------------------------------------------------

\* However wide the headers and deep the items, the reader stays within the
\* stream, no call returns more than it took, and no link is longer than
\* maxCidLength (utils.go:48-107).
THEOREM TypeCorrect == Spec => []TypeOK
<1>1. ScanIInv => TypeOK
  BY DEF ScanIInv
<1>2. QED BY <1>1, InitIInv, StepIInv, PTL DEF Spec

\* What ScanForLinks returns without an error is the number of bytes it has taken
\* (utils.go:53-106), the header of a link included although the variables it was
\* read into are assigned again (utils.go:69).
THEOREM AlwaysCounts == Spec => []CountsWhatItTook
<1>1. ScanIInv => CountsWhatItTook
  BY DEF ScanIInv
<1>2. QED BY <1>1, InitIInv, StepIInv, PTL DEF Spec

\* Whatever a CID is, the callback sees tagged byte strings of this item only, each
\* once, in their order, and none that cid.Cast refused (utils.go:67-94).
THEOREM AlwaysInPlace == Spec => []LinksInPlace
<1>1. ScanIInv => LinksInPlace
  BY DEF ScanIInv
<1>2. QED BY <1>1, InitIInv, StepIInv, PTL DEF Spec

-----------------------------------------------------------------------------

\* The items of the stream, by the grammar.
Counted == ItemsIn(LinkedHeads(input))

\* While a call reads, the links it has called back for and what it waits for from
\* here on are the one item from its start on.
OneItemLeft == call = "reading" => Counted[start][1] = Behind(links, Counted[pos][remaining])

OneItemIInv ==
  /\ ScanIInv
  /\ OneItemLeft
  /\ ScansOneItem

LEMMA LinkHeadIs ==
  ASSUME NEW s \in Seq(Byte), NEW q \in 0 .. Len(s)
  PROVE  LET hd   == CborReadHeaderBuf(s, q)
             from == q + hd.n
             to   == from + hd.extra
             link == SubSeq(s, from + 1, to)
         IN
         /\ ~hd.ok => LinkHead(s, q) = BadHead(from)
         /\ hd.ok /\ ~MayBeLink(hd) => LinkHead(s, q) = BadHead(from)
         /\ hd.ok /\ MayBeLink(hd) /\ ~(hd.extra > 0) => LinkHead(s, q) = PanicHead(from)
         /\ hd.ok /\ MayBeLink(hd) /\ hd.extra > 0 /\ to > Len(s) => LinkHead(s, q) = BadHead(Len(s))
         /\ hd.ok /\ MayBeLink(hd) /\ hd.extra > 0 /\ to <= Len(s) =>
              LinkHead(s, q) = IF IsCid(Tail(link)) THEN GoodHead(to, 0, << link >>) ELSE BadHead(to)
<1> DEFINE hd == CborReadHeaderBuf(s, q)
           from == q + hd.n
           to == from + hd.extra
           link == SubSeq(s, from + 1, to)
<1>1. CASE ~hd.ok
  BY <1>1 DEF LinkHead
<1>2. CASE hd.ok
  <2>1. hd.extra \in Nat /\ from \in q .. Len(s) /\ Len(s) \in Nat /\ MaxLink \in Nat
    BY <1>2, HeaderHere, LenProperties, InputsAssumption
  <2>2. /\ hd.extra \in 1 .. MaxLink <=> hd.extra > 0 /\ hd.extra <= MaxLink
        /\ hd.extra \in 0 .. MaxLink <=> hd.extra <= MaxLink
        /\ hd.extra = 0 <=> ~(hd.extra > 0)
    BY <2>1
  <2>3. /\ MayBeLink(hd) /\ hd.extra > 0 <=> hd.maj = MajByteString /\ hd.extra \in 1 .. MaxLink
        /\ MayBeLink(hd) <=> hd.maj = MajByteString /\ hd.extra \in 0 .. MaxLink
        /\ MayBeLink(hd) /\ ~(hd.extra > 0) <=> hd.maj = MajByteString /\ hd.extra = 0 /\ hd.extra \in 0 .. MaxLink
    BY <2>2 DEF MayBeLink
  <2>4. to \in Nat
    <3> DEFINE x == hd.extra
    <3>1. x \in Nat /\ from \in Nat /\ to = from + x
      BY <2>1
    <3> HIDE DEF from, x
    <3>2. QED BY <3>1
  <2>5. to > Len(s) <=> ~(to <= Len(s))
    <3> HIDE DEF to
    <3>1. QED BY <2>1, <2>4
  <2>6. CASE ~MayBeLink(hd)
    <3>1. /\ ~(hd.maj = MajByteString /\ hd.extra \in 0 .. MaxLink)
          /\ ~(hd.maj = MajByteString /\ hd.extra = 0)
          /\ ~(hd.maj = MajByteString /\ hd.extra \in 1 .. MaxLink)
      BY <2>1, <2>3, <2>6
    <3>2. LinkHead(s, q) = BadHead(from)
      BY <1>2, <3>1 DEF LinkHead
    <3>3. QED BY <1>2, <2>6, <3>2
  <2>7. CASE MayBeLink(hd) /\ ~(hd.extra > 0)
    <3>1. hd.maj = MajByteString /\ hd.extra = 0 /\ hd.extra \in 0 .. MaxLink
      BY <2>3, <2>7
    <3>2. LinkHead(s, q) = PanicHead(from)
      BY <1>2, <3>1 DEF LinkHead
    <3>3. QED BY <1>2, <2>7, <3>2
  <2>8. CASE MayBeLink(hd) /\ hd.extra > 0
    <3>1. hd.maj = MajByteString /\ hd.extra \in 1 .. MaxLink /\ hd.extra \in 0 .. MaxLink /\ hd.extra # 0
      BY <2>2, <2>3, <2>8
    <3>2. LinkHead(s, q) = IF to > Len(s) THEN BadHead(Len(s))
                           ELSE IF IsCid(Tail(link)) THEN GoodHead(to, 0, << link >>) ELSE BadHead(to)
      BY <1>2, <3>1 DEF LinkHead
    <3>3. QED BY <1>2, <2>5, <2>8, <3>2
  <2>9. QED BY <2>6, <2>7, <2>8
<1>3. QED BY <1>1, <1>2

LEMMA LinkHeadType ==
  ASSUME NEW s \in Seq(Byte), NEW p \in 0 .. Len(s), NEW q \in 0 .. Len(s), p < q
  PROVE  IsHead(Seq(Byte), p, Len(s), LinkHead(s, q))
<1> DEFINE hd == CborReadHeaderBuf(s, q)
           from == q + hd.n
           to == from + hd.extra
           link == SubSeq(s, from + 1, to)
<1>1. Len(s) \in Nat /\ p \in Nat /\ from \in q .. Len(s) /\ from \in p .. Len(s) /\ Len(s) \in p .. Len(s)
  <2>1. Len(s) \in Nat /\ p \in Nat /\ q \in Nat /\ from \in q .. Len(s)
    BY HeaderHere, LenProperties
  <2> HIDE DEF from
  <2>2. QED BY <2>1
<1>2. CASE ~hd.ok \/ ~(MayBeLink(hd) /\ hd.extra > 0)
  <2>1. LinkHead(s, q) = BadHead(from) \/ LinkHead(s, q) = PanicHead(from)
    BY <1>2, LinkHeadIs
  <2>2. << << >> >> \in Seq(Seq(Byte))
    OBVIOUS
  <2>3. CASE LinkHead(s, q) = BadHead(from)
    BY <2>3, <1>1, EmptySeq DEF IsHead, BadHead
  <2>4. CASE LinkHead(s, q) = PanicHead(from)
    <3> HIDE DEF from
    <3>1. LinkHead(s, q) = [ok |-> FALSE, end |-> from, nested |-> 0, links |-> << << >> >>]
      BY <2>4 DEF PanicHead
    <3>2. QED BY <2>2, <3>1, <1>1 DEF IsHead
  <2>5. QED BY <2>1, <2>3, <2>4
<1>3. CASE hd.ok /\ MayBeLink(hd) /\ hd.extra > 0 /\ to > Len(s)
  <2>1. LinkHead(s, q) = BadHead(Len(s))
    BY <1>3, LinkHeadIs
  <2>2. QED BY <2>1, <1>1, EmptySeq DEF IsHead, BadHead
<1>4. CASE hd.ok /\ MayBeLink(hd) /\ hd.extra > 0 /\ to <= Len(s)
  <2>1. LinkHead(s, q) = IF IsCid(Tail(link)) THEN GoodHead(to, 0, << link >>) ELSE BadHead(to)
    BY <1>4, LinkHeadIs
  <2>2. /\ to \in p .. Len(s) /\ to > p /\ from <= to
        /\ from \in Nat /\ to \in Nat
    <3> DEFINE x == hd.extra
    <3>1. x \in Nat /\ to = from + x /\ to <= Len(s)
      BY <1>4, HeaderHere
    <3> HIDE DEF from, to, x
    <3>2. QED BY <3>1, <1>1
  <2>3. link \in Seq(Byte)
    <3> HIDE DEF from, to
    <3>1. QED BY <1>4, <2>2, SliceType DEF link
  <2>4. << link >> \in Seq(Seq(Byte)) /\ 0 \in Nat
    <3> HIDE DEF link
    <3>1. QED BY <2>3
  <2> HIDE DEF link, to
  <2>5. QED BY <2>1, <2>2, <2>4, EmptySeq DEF IsHead, BadHead, GoodHead
<1>5. to \in Nat \/ ~hd.ok
  <2>1. ASSUME hd.ok PROVE to \in Nat
    <3> DEFINE x == hd.extra
    <3>1. x \in Nat /\ from \in Nat /\ to = from + x
      BY <1>1, <2>1, HeaderHere
    <3> HIDE DEF from, x, to
    <3>2. QED BY <3>1
  <2>2. QED BY <2>1
<1>6. to \in Nat => to > Len(s) \/ to <= Len(s)
  <2> HIDE DEF to
  <2>1. QED BY <1>1
<1>7. QED BY <1>2, <1>3, <1>4, <1>5, <1>6

LEMMA LinkedHeadsType ==
  ASSUME NEW s \in Seq(Byte)
  PROVE  IsHeads(Seq(Byte), Len(s), LinkedHeads(s))
<1>1. DOMAIN LinkedHeads(s) = 0 .. Len(s)
  BY DEF LinkedHeads
<1>2. ASSUME NEW p \in 0 .. Len(s) PROVE IsHead(Seq(Byte), p, Len(s), LinkedHeads(s)[p])
  <2> DEFINE hd == CborReadHeaderBuf(s, p)
  <2>1. LinkedHeads(s)[p] = LinkedHead(s, p)
    BY DEF LinkedHeads
  <2>2. ASSUME hd.ok PROVE IsHead(Seq(Byte), p, Len(s), LinkHead(s, p + hd.n))
    <3>1. p + hd.n \in p .. Len(s) /\ p + hd.n > p
      BY <2>2, HeaderHere
    <3>2. p + hd.n \in 0 .. Len(s) /\ p < p + hd.n
      <4> DEFINE q == p + hd.n
      <4>1. q \in p .. Len(s) /\ q > p /\ p \in Nat /\ Len(s) \in Nat
        BY <3>1, LenProperties
      <4> HIDE DEF q
      <4>2. q \in 0 .. Len(s) /\ p < q
        BY <4>1
      <4>3. QED BY <4>2 DEF q
    <3>3. QED BY <3>2, LinkHeadType
  <2>3. IsHead(Seq(Byte), p, Len(s), ItemHead(s, p))
    BY ItemHeadType
  <2>4. QED BY <2>1, <2>2, <2>3 DEF LinkedHead
<1>3. QED BY <1>1, <1>2 DEF IsHeads

\* What the grammar says of the items that are waited for.
LEMMA CountedHere ==
  ASSUME ScanIInv
  PROVE  LET hd == LinkedHead(input, pos) IN
         /\ Counted[pos][0] = Ends(pos, << >>)
         /\ Behind(<< >>, Counted[pos][1]) = Counted[pos][1]
         /\ remaining > 0 /\ ~hd.ok => Counted[pos][remaining] = Stops(hd.end, hd.links)
         /\ remaining > 0 /\ hd.ok =>
              Behind(links, Counted[pos][remaining])
                = Behind(links \o hd.links, Counted[hd.end][hd.nested + (remaining - 1)])
<1> DEFINE hs == LinkedHeads(input)
           n == Len(input)
           hd == LinkedHead(input, pos)
           F == ItemsIn(hs)
<1>1. n \in Nat /\ pos \in 0 .. n /\ pos \in Nat /\ remaining \in Nat /\ links \in Seq(Seq(Byte))
  BY Positions DEF ScanIInv
<1>2. IsHeads(Seq(Byte), n, hs) /\ hs[pos] = hd
  BY <1>1, Positions, LinkedHeadsType DEF LinkedHeads
<1> HIDE DEF hs, n, hd
<1>3. Counts(F, hs, n) /\ Solves(Seq(Byte), n, hs, F, 0)
  BY <1>1, <1>2, CountsAsNested, Recursion
<1> HIDE DEF F
<1>4. F[pos][0] = Ends(pos, << >>)
  BY <1>1, <1>3 DEF Counts
<1>5. Behind(<< >>, F[pos][1]) = F[pos][1]
  <2>1. F[pos][1] \in Yields(Seq(Byte), pos, n)
    BY <1>1, <1>3 DEF Solves
  <2>2. QED BY <1>1, <2>1, EmptySeq, BehindAll
<1>6. ASSUME remaining > 0, ~hd.ok PROVE F[pos][remaining] = Stops(hd.end, hd.links)
  BY <1>1, <1>2, <1>3, <1>6 DEF Counts
<1>7. ASSUME remaining > 0, hd.ok
      PROVE  Behind(links, F[pos][remaining])
               = Behind(links \o hd.links, F[hd.end][hd.nested + (remaining - 1)])
  <2>1. remaining \in Nat \ {0} /\ remaining - 1 \in Nat
    BY <1>1, <1>7
  <2>2. F[pos][remaining] = Behind(hd.links, F[hd.end][hd.nested + (remaining - 1)])
    BY <1>1, <1>2, <1>3, <1>7, <2>1 DEF Counts
  <2>3. hd.end \in pos .. n /\ hd.nested \in Nat /\ hd.links \in Seq(Seq(Byte))
    BY <1>1, <1>2, <1>7 DEF IsHeads, IsHead
  <2>4. hd.end \in 0 .. n /\ hd.end \in Nat /\ hd.nested + (remaining - 1) \in Nat
    BY <1>1, <2>1, <2>3
  <2>5. F[hd.end][hd.nested + (remaining - 1)] \in Yields(Seq(Byte), hd.end, n)
    BY <1>1, <1>3, <2>4 DEF Solves
  <2>6. QED BY <1>1, <2>2, <2>3, <2>4, <2>5, BehindAll
<1>8. QED BY <1>4, <1>5, <1>6, <1>7 DEF hs, n, hd, F, Counted

LEMMA HeadHere ==
  ASSUME ScanIInv
  PROVE  LET hd == LinkedHead(input, pos) IN
         /\ ~header.ok => hd = BadHead(body)
         /\ header.ok /\ ~Announces(header) /\ body + Asked <= Len(input) =>
              hd = GoodHead(body + Asked, Nested(header.maj, header.extra), << >>)
         /\ header.ok /\ ~Announces(header) /\ ~(body + Asked <= Len(input)) => hd = BadHead(Len(input))
         /\ header.ok /\ Announces(header) =>
              /\ ~inner.ok => hd = BadHead(first)
              /\ inner.ok /\ ~MayBeLink(inner) => hd = BadHead(first)
              /\ inner.ok /\ MayBeLink(inner) /\ ~(inner.extra > 0) => hd = PanicHead(first)
              /\ inner.ok /\ MayBeLink(inner) /\ inner.extra > 0 /\ end > Len(input) => hd = BadHead(Len(input))
              /\ inner.ok /\ MayBeLink(inner) /\ inner.extra > 0 /\ end <= Len(input) =>
                   hd = IF IsCid(Tail(found)) THEN GoodHead(end, 0, << found >>) ELSE BadHead(end)
<1>1. input \in Seq(Byte) /\ pos \in 0 .. Len(input)
  BY Positions DEF ScanIInv, TypeOK
<1>2. CASE header.ok /\ Announces(header)
  <2>1. LinkedHead(input, pos) = LinkHead(input, body)
    BY <1>2 DEF LinkedHead, header, body, Announces
  <2>2. body \in 0 .. Len(input)
    BY <1>2, Outer, Positions
  <2>3. QED BY <1>1, <1>2, <2>1, <2>2, LinkHeadIs DEF inner, first, end, found
<1>3. CASE ~(header.ok /\ Announces(header))
  <2>1. LinkedHead(input, pos) = ItemHead(input, pos)
    BY <1>3 DEF LinkedHead, header, Announces
  <2>2. QED BY <1>1, <1>3, <2>1, ItemHeadIs DEF header, body, Asked
<1>4. QED BY <1>2, <1>3

LEMMA FoundType ==
  ASSUME ScanIInv, header.ok, inner.ok, end <= Len(input)
  PROVE  found \in Seq(Byte)
<1> DEFINE x == inner.extra
<1>1. input \in Seq(Byte) /\ x \in Nat /\ first \in Nat /\ end = first + x
  BY Positions, Inner DEF end
<1>2. end \in Nat /\ first <= end
  <2> HIDE DEF x
  <2>1. QED BY <1>1
<1>3. QED BY <1>1, <1>2, SliceType DEF found

\* A call that ends in an error does so where the grammar stops, and so does one that
\* ends in a panic, which the grammar tells from it.
LEMMA EndStops ==
  ASSUME OneItemIInv, call = "reading", remaining > 0, NEW p, NEW k,
         End("error", p, k), LinkedHead(input, pos) = BadHead(p)
  PROVE  OneItemLeft' /\ ScansOneItem'
<1>1. call' = "error" /\ pos' = p /\ UNCHANGED <<input, start, links>>
  BY DEF End
<1>2. links \in Seq(Seq(Byte))
  BY DEF OneItemIInv, ScanIInv
<1>3. Counted[pos][remaining] = Stops(p, << >>)
  BY CountedHere DEF OneItemIInv, BadHead
<1>4. Counted[start][1] = Behind(links, Stops(p, << >>))
  BY <1>3 DEF OneItemIInv, OneItemLeft
<1>5. Counted[start][1] = Stops(p, links)
  BY <1>2, <1>4, ConcatEmptySeq DEF Behind, Stops
<1>6. LinkedItemAt(input, start)' = Stops(pos', links')
  BY <1>1, <1>5 DEF LinkedItemAt, Counted
<1>7. QED BY <1>1, <1>6 DEF OneItemLeft, ScansOneItem

LEMMA PanicStops ==
  ASSUME OneItemIInv, call = "reading", remaining > 0, NEW p, NEW k,
         End("panic", p, k), LinkedHead(input, pos) = PanicHead(p)
  PROVE  OneItemLeft' /\ ScansOneItem'
<1>1. call' = "panic" /\ pos' = p /\ UNCHANGED <<input, start, links>>
  BY DEF End
<1>2. links \in Seq(Seq(Byte)) /\ << >> \in Seq(Byte)
  BY EmptySeq DEF OneItemIInv, ScanIInv
<1>3. Counted[pos][remaining] = Stops(p, << << >> >>)
  BY CountedHere DEF OneItemIInv, PanicHead
<1>4. Counted[start][1] = Behind(links, Stops(p, << << >> >>))
  BY <1>3 DEF OneItemIInv, OneItemLeft
<1>5. Counted[start][1] = Stops(p, Append(links, << >>))
  <2>1. links \o << << >> >> = Append(links, << >>)
    BY <1>2, AppendIsConcat
  <2>2. QED BY <1>4, <2>1 DEF Behind, Stops
<1>6. LinkedItemAt(input, start)' = Stops(pos', Append(links', << >>))
  BY <1>1, <1>5 DEF LinkedItemAt, Counted
<1>7. QED BY <1>1, <1>6 DEF OneItemLeft, ScansOneItem

LEMMA InitOneItem == Init => OneItemIInv
<1> SUFFICES ASSUME Init PROVE OneItemIInv
  OBVIOUS
<1>1. ScanIInv
  BY InitIInv
<1>2. QED BY <1>1 DEF Init, OneItemIInv, OneItemLeft, ScansOneItem

\* An item that is no link, while the counter does not wrap.
LEMMA CountsOn ==
  ASSUME NEW r \in Nat \ {0}, NEW k \in Nat, r + k < Limit(Len(Widths))
  PROVE  Uint64(Uint64(r + k) - 1) = k + (r - 1)
<1> DEFINE L == Limit(Len(Widths))
<1>1. L \in Nat /\ r + k < L
  BY Sizes, SizesAssumption
<1> HIDE DEF L
<1>2. Uint64(r + k) = r + k
  <2>1. r + k \in 0 .. (L - 1)
    BY <1>1
  <2>2. QED BY <2>1, <1>1 DEF Uint64, L
<1>3. Uint64((r + k) - 1) = (r + k) - 1
  <2>1. (r + k) - 1 \in 0 .. (L - 1)
    BY <1>1
  <2>2. QED BY <2>1, <1>1 DEF Uint64, L
<1>4. (r + k) - 1 = k + (r - 1)
  OBVIOUS
<1>5. QED BY <1>2, <1>3, <1>4

LEMMA StepOneItem == OneItemIInv /\ CounterFits /\ [Next]_vars => OneItemIInv'
<1> SUFFICES ASSUME OneItemIInv, CounterFits, [Next]_vars PROVE OneItemIInv'
  OBVIOUS
<1> USE DEF OneItemIInv
<1>0. ScanIInv'
  BY StepIInv
<1>1. /\ Len(input) \in Nat /\ pos \in Nat /\ remaining \in Nat /\ links \in Seq(Seq(Byte))
  BY Positions DEF ScanIInv
<1>2. CASE ScanForLinks
  <2>1. /\ start' = pos /\ remaining' = 1 /\ links' = << >> /\ call' = "reading"
        /\ UNCHANGED <<input, pos>>
    BY <1>2 DEF ScanForLinks
  <2>2. OneItemLeft'
    BY <2>1, CountedHere DEF OneItemLeft, Counted
  <2>3. ScansOneItem'
    BY <2>1 DEF ScansOneItem
  <2>4. QED BY <1>0, <2>2, <2>3
<1>3. CASE BadElement
  BY <1>0, <1>3, HeadHere, EndStops DEF BadElement
<1>4. CASE CutElement
  <2>1. header.ok /\ body + Asked > Len(input) /\ body \in Nat /\ body <= Len(input) /\ header.extra \in Nat
    BY <1>4, Outer DEF CutElement
  <2>2. Asked \in Nat
    BY <2>1 DEF Asked, Payload
  <2>3. ~(body + Asked <= Len(input))
    BY <2>1, <2>2, <1>1
  <2>4. ~Announces(header)
    <3>1. ASSUME Announces(header) PROVE Asked = 0
      BY <3>1 DEF Announces, Asked, Payload, IsString, MajTag, MajByteString, MajTextString
    <3>2. QED BY <3>1, <2>1, <2>3
  <2>5. LinkedHead(input, pos) = BadHead(Len(input))
    BY <2>1, <2>3, <2>4, HeadHere
  <2>6. QED BY <1>0, <1>4, <2>5, EndStops DEF CutElement
<1>5. CASE Element
  <2>1. /\ call = "reading" /\ remaining > 0 /\ header.ok /\ ~Announces(header)
        /\ body + Asked <= Len(input)
        /\ pos' = body + Asked
        /\ remaining' = Uint64(Uint64(remaining + Nested(header.maj, header.extra)) - 1)
        /\ UNCHANGED <<input, start, links, call>>
    BY <1>5 DEF Element
  <2> DEFINE k == Nested(header.maj, header.extra)
  <2>2. k \in Nat /\ remaining + k < Limit(Len(Widths))
    BY <2>1, Outer DEF Nested, CounterFits
  <2>3. remaining' = k + (remaining - 1)
    <3>1. remaining \in Nat \ {0}
      BY <1>1, <2>1
    <3>2. Uint64(Uint64(remaining + k) - 1) = k + (remaining - 1)
      <4> HIDE DEF k
      <4>1. QED BY <2>2, <3>1, CountsOn
    <3>3. QED BY <2>1, <3>2
  <2>4. LinkedHead(input, pos) = GoodHead(pos', k, << >>)
    BY <2>1, HeadHere
  <2>5. Behind(links, Counted[pos][remaining]) = Behind(links \o << >>, Counted[pos'][remaining'])
    BY <2>1, <2>3, <2>4, CountedHere DEF GoodHead
  <2>6. links \o << >> = links' /\ Counted' = Counted
    BY <2>1, <1>1, ConcatEmptySeq DEF Counted
  <2>7. OneItemLeft'
    BY <2>1, <2>5, <2>6 DEF OneItemLeft
  <2>8. ScansOneItem'
    BY <2>1 DEF ScansOneItem
  <2>9. QED BY <1>0, <2>7, <2>8
<1>6. CASE BadLinkHeader
  BY <1>0, <1>6, HeadHere, EndStops DEF BadLinkHeader
<1>7. CASE NoByteString
  BY <1>0, <1>7, HeadHere, EndStops DEF NoByteString
<1>8. CASE EmptyLink
  <2>1. ~(inner.extra > 0)
    BY <1>8 DEF EmptyLink
  <2>2. QED BY <1>0, <1>8, <2>1, HeadHere, PanicStops DEF EmptyLink
<1>9. CASE CutLink
  <2>1. header.ok /\ Announces(header) /\ inner.ok /\ MayBeLink(inner) /\ end > Len(input)
    BY <1>9 DEF CutLink
  <2>2. inner.extra > 0
    <3> DEFINE x == inner.extra
    <3>1. x \in Nat /\ end = first + x /\ first \in Nat /\ first <= Len(input)
      BY <2>1, Inner DEF end
    <3> HIDE DEF x
    <3>2. x > 0
      BY <3>1, <2>1, <1>1
    <3>3. QED BY <3>2 DEF x
  <2>3. QED BY <1>0, <1>9, <2>1, <2>2, HeadHere, EndStops DEF CutLink
<1>10. CASE NotALink
  BY <1>0, <1>10, HeadHere, EndStops DEF NotALink
<1>11. CASE Link
  <2>1. /\ call = "reading" /\ remaining > 0 /\ header.ok /\ Announces(header) /\ inner.ok
        /\ MayBeLink(inner) /\ inner.extra > 0 /\ end <= Len(input) /\ IsCid(Tail(found))
        /\ pos' = end /\ links' = Append(links, found) /\ remaining' = Uint64(remaining - 1)
        /\ UNCHANGED <<input, start, call>>
    BY <1>11 DEF Link
  <2>2. remaining' = 0 + (remaining - 1)
    <3> DEFINE L == Limit(Len(Widths))
               k == Nested(header.maj, header.extra)
    <3>1. L \in Nat /\ k \in Nat /\ remaining + k < L
      <4>1. L \in Nat
        BY Sizes, SizesAssumption
      <4>2. k \in Nat
        BY <2>1, Outer DEF Nested
      <4>3. remaining + k < L
        BY <2>1 DEF CounterFits
      <4>4. QED BY <4>1, <4>2, <4>3
    <3> HIDE DEF L, k
    <3>2. remaining - 1 \in 0 .. (L - 1)
      BY <3>1, <2>1, <1>1
    <3>3. Uint64(remaining - 1) = remaining - 1
      BY <3>1, <3>2 DEF Uint64, L
    <3>4. QED BY <2>1, <3>2, <3>3
  <2>3. LinkedHead(input, pos) = GoodHead(pos', 0, << found >>)
    BY <2>1, HeadHere
  <2>4. Behind(links, Counted[pos][remaining]) = Behind(links \o << found >>, Counted[pos'][remaining'])
    BY <2>1, <2>2, <2>3, CountedHere DEF GoodHead
  <2>5. links \o << found >> = links' /\ Counted' = Counted
    <3>1. found \in Seq(Byte)
      BY <2>1, FoundType
    <3>2. QED BY <2>1, <3>1, <1>1, AppendIsConcat DEF Counted
  <2>6. OneItemLeft'
    BY <2>1, <2>4, <2>5 DEF OneItemLeft
  <2>7. ScansOneItem'
    BY <2>1 DEF ScansOneItem
  <2>8. QED BY <1>0, <2>6, <2>7
<1>12. CASE Finish
  <2>1. /\ call = "reading" /\ remaining = 0 /\ call' = "ok"
        /\ UNCHANGED <<input, pos, start, bytesRead, links>>
    BY <1>12 DEF Finish
  <2>2. Counted[start][1] = Behind(links, Ends(pos, << >>))
    BY <2>1, CountedHere DEF OneItemLeft
  <2>3. Counted[start][1] = Ends(pos, links)
    BY <1>1, <2>2, ConcatEmptySeq DEF Behind, Ends
  <2>4. bytesRead = pos - start
    BY <2>1 DEF ScanIInv, CountsWhatItTook
  <2>5. LinkedItemAt(input, start)' = Ends(pos', links')
    BY <2>1, <2>3 DEF LinkedItemAt, Counted
  <2>6. QED BY <1>0, <2>1, <2>4, <2>5 DEF OneItemLeft, ScansOneItem
<1>13. CASE UNCHANGED vars
  <2>1. UNCHANGED <<input, pos, start, remaining, bytesRead, links, call>>
    BY <1>13 DEF vars
  <2>2. OneItemLeft'
    BY <2>1 DEF OneItemLeft, Counted
  <2>3. ScansOneItem'
    BY <2>1 DEF ScansOneItem
  <2>4. QED BY <1>0, <2>2, <2>3
<1>14. QED
  BY <1>2, <1>3, <1>4, <1>5, <1>6, <1>7, <1>8, <1>9, <1>10, <1>11, <1>12, <1>13 DEF Next, Step

\* As long as the counter fits, a scan takes one item, whatever nests in it, and has
\* called back for its links and for no others, in their order (utils.go:48-107).
THEOREM AlwaysScansOneItem == Spec => ([]CounterFits => []ScansOneItem)
<1>1. OneItemIInv => ScansOneItem
  BY DEF OneItemIInv
<1>2. QED BY <1>1, InitOneItem, StepOneItem, PTL DEF Spec

-----------------------------------------------------------------------------

\* If every byte of a stream of l announced m items, the counter would hold them.
Holds(m, l) == 2 + m * l < Limit(Len(Widths))
PaidFor(r, m, b) == r <= 1 + m * b

\* No header so far has announced more than m items, and what is still to be read
\* came out of the bytes that were.
CounterSmall ==
  call = "reading" =>
    \E m \in Nat : (m = 0 \/ Holds(m, Len(input))) /\ PaidFor(remaining, m, bytesRead)

CountableIInv ==
  /\ ScanIInv
  /\ CounterSmall

\* The arithmetic of one element: of the b bytes, n were its header, and it announces
\* k items.
LEMMA CountsUp ==
  ASSUME NEW l \in Nat, NEW m \in Nat, NEW r \in Nat, NEW b \in Nat,
         NEW n \in Nat \ {0}, NEW k \in Nat,
         m = 0 \/ Holds(m, l), PaidFor(r, m, b), b + n <= l, Holds(k, l)
  PROVE  /\ r + k < Limit(Len(Widths))
         /\ \E m2 \in Nat : /\ Holds(m2, l)
                            /\ \A c \in Nat : b + n <= c => PaidFor(k + (r - 1), m2, c)
<1> DEFINE L == Limit(Len(Widths))
<1>0. L \in Nat
  BY Sizes, SizesAssumption
<1>1. PICK m2 \in Nat : m <= m2 /\ k <= m2 /\ Holds(m2, l)
  <2>1. CASE k <= m
    <3>1. CASE m = 0
      <4>1. k = m
        BY <2>1, <3>1
      <4>2. QED BY <4>1
    <3>2. CASE m # 0
      BY <2>1, <3>2
    <3>3. QED BY <3>1, <3>2
  <2>2. CASE k > m
    BY <2>2
  <2>3. QED BY <2>1, <2>2
<1>2. m * b \in Nat /\ m2 * b \in Nat /\ m * b <= m2 * b
  <2> DEFINE d == m2 - m
  <2>1. d \in Nat /\ m2 = m + d
    BY <1>1
  <2> HIDE DEF d
  <2>2. m2 * b = m * b + d * b /\ d * b \in Nat /\ m * b \in Nat
    BY <2>1
  <2>3. QED BY <2>2
<1>3. m2 * n \in Nat /\ k <= m2 * n
  <2>1. m2 * n = m2 + m2 * (n - 1) /\ m2 * (n - 1) \in Nat
    BY <1>1
  <2>2. QED BY <2>1, <1>1
<1>4. ASSUME NEW c \in Nat, b + n <= c
      PROVE  m2 * c \in Nat /\ r + k <= 1 + m2 * c
  <2> DEFINE d == c - (b + n)
  <2>1. d \in Nat /\ c = (b + n) + d
    BY <1>4
  <2> HIDE DEF d
  <2>2. m2 * c = (m2 * b + m2 * n) + m2 * d /\ m2 * d \in Nat
    BY <2>1
  <2>3. r <= 1 + m * b
    BY DEF PaidFor
  <2>4. QED BY <2>2, <2>3, <1>2, <1>3
<1>5. r + k < L
  <2>1. m2 * l \in Nat /\ r + k <= 1 + m2 * l
    BY <1>4
  <2>2. 2 + m2 * l < L
    BY <1>1 DEF Holds
  <2> HIDE DEF L
  <2>3. QED BY <2>1, <2>2, <1>0
<1>6. ASSUME NEW c \in Nat, b + n <= c PROVE PaidFor(k + (r - 1), m2, c)
  <2>1. r + k <= 1 + m2 * c /\ m2 * c \in Nat
    BY <1>4, <1>6
  <2>2. k + (r - 1) <= 1 + m2 * c
    BY <2>1
  <2>3. QED BY <2>2 DEF PaidFor
<1>7. QED BY <1>1, <1>5, <1>6

\* What the next header announces in a stream that can be counted.
LEMMA CountedUp ==
  ASSUME CountableIInv, Countable(input), call = "reading", remaining > 0, header.ok
  PROVE  LET k == Nested(header.maj, header.extra) IN
         /\ remaining + k < Limit(Len(Widths))
         /\ \E m \in Nat :
              /\ Holds(m, Len(input))
              /\ \A c \in Nat : bytesRead + header.n <= c => PaidFor(k + (remaining - 1), m, c)
<1> DEFINE k == Nested(header.maj, header.extra)
           n == header.n
           l == Len(input)
<1>1. /\ l \in Nat /\ pos \in 0 .. l /\ remaining \in Nat /\ bytesRead \in Nat
      /\ bytesRead <= pos - start /\ start \in Nat
  BY Positions DEF CountableIInv, ScanIInv, TypeOK
<1>2. n \in Nat \ {0} /\ header.extra \in Nat /\ body = pos + n /\ body <= l
  BY Outer DEF CountableIInv
<1>3. k \in Nat
  BY <1>2 DEF Nested
<1>4. Holds(k, l)
  BY <1>1 DEF Countable, Holds, header
<1>5. PICK m \in Nat : (m = 0 \/ Holds(m, l)) /\ PaidFor(remaining, m, bytesRead)
  BY DEF CountableIInv, CounterSmall
<1> HIDE DEF k, n, l
<1>6. bytesRead + n <= l
  BY <1>1, <1>2
<1>7. QED BY <1>1, <1>2, <1>3, <1>4, <1>5, <1>6, CountsUp DEF k, n, l

LEMMA FitsWhenCountable ==
  ASSUME CountableIInv, Countable(input)
  PROVE  CounterFits
BY CountedUp DEF CounterFits

LEMMA InitCountable == Init => CountableIInv
<1> SUFFICES ASSUME Init PROVE CountableIInv
  OBVIOUS
<1>1. ScanIInv
  BY InitIInv
<1>2. call # "reading"
  BY DEF Init
<1>3. QED BY <1>1, <1>2 DEF CountableIInv, CounterSmall

LEMMA StepCountable ==
  ASSUME \A s \in Inputs : Countable(s)
  PROVE  CountableIInv /\ [Next]_vars => CountableIInv'
<1> SUFFICES ASSUME CountableIInv, [Next]_vars PROVE CountableIInv'
  OBVIOUS
<1>0. ScanIInv' /\ ScanIInv
  BY StepIInv DEF CountableIInv
<1>1. Countable(input)
  BY DEF CountableIInv, ScanIInv
<1>2. CASE ScanForLinks
  <2>1. remaining' = 1 /\ bytesRead' = 0
    BY <1>2 DEF ScanForLinks
  <2>2. 0 \in Nat /\ 0 = 0 /\ remaining' <= 1 + 0 * bytesRead'
    BY <2>1
  <2>3. QED BY <1>0, <2>2 DEF CountableIInv, CounterSmall, PaidFor
<1>3. CASE BadElement \/ CutElement \/ BadLinkHeader \/ NoByteString \/ CutLink \/ EmptyLink \/ NotALink \/ Finish
  <2>1. call' # "reading"
    BY <1>3 DEF BadElement, CutElement, BadLinkHeader, NoByteString, CutLink, EmptyLink, NotALink, Finish, End
  <2>2. QED BY <1>0, <2>1 DEF CountableIInv, CounterSmall
<1>4. ASSUME call = "reading", remaining > 0, header.ok, input' = input,
             remaining' = Nested(header.maj, header.extra) + (remaining - 1) \/ remaining' = remaining - 1,
             bytesRead' \in Nat, bytesRead + header.n <= bytesRead'
      PROVE  CountableIInv'
  <2> DEFINE k == Nested(header.maj, header.extra)
  <2>1. PICK m \in Nat :
          /\ Holds(m, Len(input))
          /\ \A c \in Nat : bytesRead + header.n <= c => PaidFor(k + (remaining - 1), m, c)
    BY <1>1, <1>4, CountedUp
  <2>2. k \in Nat /\ remaining \in Nat
    <3>1. remaining \in Nat /\ header.extra \in Nat
      BY <1>0, <1>4, Outer, Positions
    <3>2. QED BY <3>1 DEF Nested
  <2>3. PICK c \in Nat : c = bytesRead'
    BY <1>4
  <2>4. PaidFor(k + (remaining - 1), m, c)
    BY <2>1, <2>3, <1>4
  <2>5. PaidFor(remaining', m, c)
    <3> HIDE DEF k
    <3>1. remaining' = k + (remaining - 1) \/ remaining' = remaining - 1
      BY <1>4 DEF k
    <3>2. remaining - 1 <= k + (remaining - 1)
      BY <2>2
    <3>3. m * c \in Nat
      OBVIOUS
    <3>4. QED BY <2>2, <2>4, <3>1, <3>2, <3>3 DEF PaidFor
  <2>6. CounterSmall'
    BY <1>4, <2>1, <2>3, <2>5 DEF CounterSmall, Holds, PaidFor
  <2>7. QED BY <1>0, <2>6 DEF CountableIInv
<1>5. /\ remaining \in Nat /\ bytesRead \in Nat /\ bytesRead' \in Nat
  <2>1. bytesRead' \in 0 .. (pos' - start') /\ pos' \in 0 .. Len(input') /\ start' \in 0 .. pos'
    BY <1>0 DEF ScanIInv, TypeOK
  <2>2. QED BY <1>0, <2>1, Positions
<1>6. CASE Element
  <2>1. /\ call = "reading" /\ remaining > 0 /\ header.ok /\ input' = input
        /\ bytesRead' = bytesRead + header.n + Asked
        /\ remaining' = Uint64(Uint64(remaining + Nested(header.maj, header.extra)) - 1)
    BY <1>6 DEF Element
  <2> DEFINE k == Nested(header.maj, header.extra)
             n == header.n
             P == Asked
  <2>2. k \in Nat /\ n \in Nat /\ P \in Nat
    BY <1>0, <2>1, Outer DEF Nested, Asked, Payload
  <2>3. remaining + k < Limit(Len(Widths))
    BY <1>1, <2>1, CountedUp
  <2>4. remaining \in Nat \ {0}
    BY <1>5, <2>1
  <2>5. remaining' = k + (remaining - 1)
    <3>1. Uint64(Uint64(remaining + k) - 1) = k + (remaining - 1)
      <4> HIDE DEF k
      <4>1. QED BY <2>2, <2>3, <2>4, CountsOn
    <3>2. QED BY <2>1, <3>1
  <2>6. bytesRead + n <= bytesRead'
    <3>1. bytesRead' = bytesRead + n + P
      BY <2>1
    <3> HIDE DEF n, P
    <3>2. QED BY <2>2, <1>5, <3>1
  <2>7. QED BY <1>4, <1>5, <2>1, <2>5, <2>6
<1>7. CASE Link
  <2>1. /\ call = "reading" /\ remaining > 0 /\ header.ok /\ inner.ok /\ input' = input
        /\ bytesRead' = bytesRead + LinkBytes /\ LinkBytes = header.n + inner.n + inner.extra
        /\ remaining' = Uint64(remaining - 1)
    BY <1>7 DEF Link, LinkBytes
  <2> DEFINE k == Nested(header.maj, header.extra)
             n == header.n
             a == inner.n
             x == inner.extra
             L == Limit(Len(Widths))
  <2>2. k \in Nat /\ n \in Nat
    BY <1>0, <2>1, Outer DEF Nested
  <2>3. a \in Nat /\ x \in Nat
    BY <1>0, <2>1, Inner
  <2>4. remaining + k < L /\ L \in Nat
    BY <1>1, <2>1, CountedUp, Sizes, SizesAssumption
  <2>5. remaining' = remaining - 1
    <3> HIDE DEF k, L
    <3>1. remaining - 1 \in 0 .. (L - 1)
      BY <2>1, <2>2, <2>4, <1>5
    <3>2. Uint64(remaining - 1) = remaining - 1
      BY <3>1, <2>4 DEF Uint64, L
    <3>3. QED BY <2>1, <3>2
  <2>6. bytesRead + n <= bytesRead'
    <3>1. bytesRead' = bytesRead + (n + a + x)
      BY <2>1
    <3> HIDE DEF n, a, x
    <3>2. QED BY <2>2, <2>3, <1>5, <3>1
  <2>7. QED BY <1>4, <1>5, <2>1, <2>5, <2>6
<1>8. CASE UNCHANGED vars
  <2>1. UNCHANGED <<input, pos, start, remaining, bytesRead, links, call>>
    BY <1>8 DEF vars
  <2>2. CounterSmall'
    BY <2>1 DEF CountableIInv, CounterSmall, Holds, PaidFor
  <2>3. QED BY <1>0, <2>2 DEF CountableIInv
<1>9. QED BY <1>2, <1>3, <1>6, <1>7, <1>8 DEF Next, Step

\* The counter fits in every stream none of whose headers announces so much that it
\* might not, if every byte did: with 64 bits, 2^32 items in a stream of less than
\* 4 GiB (utils.go:100-102).
THEOREM CountableFits ==
  ASSUME \A s \in Inputs : Countable(s)
  PROVE  Spec => []ScansOneItem
<1>1. Init => CountableIInv
  BY InitCountable
<1>2. CountableIInv /\ [Next]_vars => CountableIInv'
  BY StepCountable
<1>3. CountableIInv => CounterFits
  <2> SUFFICES ASSUME CountableIInv PROVE CounterFits
    OBVIOUS
  <2>1. Countable(input)
    BY DEF CountableIInv, ScanIInv
  <2>2. QED BY <2>1, FitsWhenCountable
<1>4. Spec => []CounterFits
  BY <1>1, <1>2, <1>3, PTL DEF Spec
<1>5. QED BY <1>4, AlwaysScansOneItem, PTL
=============================================================================
