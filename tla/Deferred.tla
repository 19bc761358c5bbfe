------------------------------ MODULE Deferred ------------------------------
(***************************************************************************)
(* A cbg.Deferred (utils.go) that a caller unmarshals from one stream,     *)
(* time after time: one CBOR item of any type is taken from the stream and *)
(* its bytes are kept in Raw.  What nests inside an item is not kept on a  *)
(* stack: one counter holds how many items are still to be read.           *)
(***************************************************************************)
EXTENDS BoundedItem

CONSTANT Inputs  \* the streams

ASSUME InputsAssumption == Inputs \subseteq Seq(Byte)

\* 64 bits count more items than the longest stream can announce: 2^50 bytes of
\* it would be needed to get near.
ASSUME StreamAssumption ==
  \A s \in Inputs : 2 + 2 * MaxLength * Len(s) < Limit(Len(Widths))

VARIABLES
  input,      \* the stream
  pos,        \* how many of its bytes the reader has handed out
  start,      \* pos when UnmarshalCBOR was called
  remaining,  \* items still to be read
  bytesRead,  \* what UnmarshalCBOR will return
  buf,        \* the bytes kept so far
  Raw,        \* d.Raw; << >> for nil, which no item leaves behind
  call        \* "reading", or how the last call ended: "ok", "error"

vars == <<input, pos, start, remaining, bytesRead, buf, Raw, call>>

Init ==
  /\ input \in Inputs
  /\ pos = 0
  /\ start = 0
  /\ remaining = 0
  /\ bytesRead = 0
  /\ buf = << >>
  /\ Raw = << >>
  /\ call = "ok"

\* (Mutant of Unmarshal: bytesRead goes on from the last call.)
StillCounting ==
  /\ call # "reading"
  /\ start' = pos
  /\ remaining' = 1
  /\ buf' = << >>
  /\ Raw' = << >>
  /\ call' = "reading"
  /\ UNCHANGED <<input, pos, bytesRead>>

\* UnmarshalCBOR is called: Raw is gone until an item is complete, even if the
\* call fails.
Unmarshal ==
  /\ call # "reading"
  /\ start' = pos
  /\ remaining' = 1
  /\ bytesRead' = 0
  /\ buf' = << >>
  /\ Raw' = << >>
  /\ call' = "reading"
  /\ UNCHANGED <<input, pos>>

-----------------------------------------------------------------------------

header == CborReadHeaderBuf(input, pos)

\* The payload bytes that follow the header, and those that the stream still has.
Asked == Payload(header.maj, header.extra)
Left == Len(input) - (pos + header.n)
There == IF Asked <= Left THEN Asked ELSE Left

Fail(taken, counted) ==
  /\ pos' = pos + taken
  /\ bytesRead' = bytesRead + counted
  /\ call' = "error"
  /\ UNCHANGED <<input, start, remaining, buf, Raw>>

\* (Mutant of BadElement: the error of the header is dropped, as generated code
\* drops that of ScanForLinks.)
DropBadHeader ==
  /\ call = "reading"
  /\ remaining > 0
  /\ ~header.ok
  /\ pos' = pos + header.n
  /\ UNCHANGED <<input, start, remaining, bytesRead, buf, Raw, call>>

BadElement ==
  /\ call = "reading"
  /\ remaining > 0
  /\ ~header.ok
  /\ Fail(header.n, 0)

LongElement ==
  /\ call = "reading"
  /\ remaining > 0
  /\ header.ok
  /\ TooLong(header.maj, header.extra)
  /\ Fail(header.n, header.n)

\* The LimitedReader ends before the string does: what there was of it counts.
CutElement ==
  /\ call = "reading"
  /\ remaining > 0
  /\ header.ok
  /\ ~TooLong(header.maj, header.extra)
  /\ There < Asked
  /\ Fail(header.n + There, header.n + There)

\* The header is encoded again, the payload copied.  (Mutant: the header is lost.)
PayloadOnly == SubSeq(input, pos + header.n + 1, pos + header.n + Asked)
Copied == WriteMajorTypeHeader(header.maj, header.extra)
            \o SubSeq(input, pos + header.n + 1, pos + header.n + Asked)

Element ==
  /\ call = "reading"
  /\ remaining > 0
  /\ header.ok
  /\ ~TooLong(header.maj, header.extra)
  /\ There = Asked
  /\ pos' = pos + header.n + Asked
  /\ bytesRead' = bytesRead + header.n + Asked
  /\ buf' = buf \o Copied
  /\ remaining' = Uint64(Uint64(remaining + Nested(header.maj, header.extra)) - 1)
  /\ UNCHANGED <<input, start, Raw, call>>

Finish ==
  /\ call = "reading"
  /\ remaining = 0
  /\ Raw' = buf
  /\ call' = "ok"
  /\ UNCHANGED <<input, pos, start, remaining, bytesRead, buf>>

Step == BadElement \/ LongElement \/ CutElement \/ Element \/ Finish

Next == Unmarshal \/ Step

Spec == Init /\ [][Next]_vars

\* The loop goes on by itself; whether it is called again is up to the caller.
FairSpec == Spec /\ WF_vars(Step)

-----------------------------------------------------------------------------

TypeOK ==
  /\ input \in Seq(Byte)
  /\ pos \in 0 .. Len(input)
  /\ start \in 0 .. pos
  /\ remaining \in Nat
  /\ bytesRead \in 0 .. (pos - start)
  /\ buf \in Seq(Byte)
  /\ Raw \in Seq(Byte)
  /\ call \in {"reading", "ok", "error"}

\* Raw is what the stream held, byte for byte, although it is put together from
\* headers that were decoded and encoded again; and the length returned is its
\* length, and what the stream lost (utils.go:154-222).
RawIsInput ==
  Raw # << >> =>
    /\ Raw = SubSeq(input, start + 1, pos)
    /\ bytesRead = Len(Raw)

\* Every byte that is read adds at most 2 * MaxLength items, so that the counter
\* is far from its 64 bits for as long as a stream is (utils.go:204-215).
CounterBounded == call = "reading" => remaining <= 1 + 2 * MaxLength * bytesRead

\* A call succeeds if and only if an item follows in the stream, and takes that
\* item and nothing after it: the counter is as good as a stack ("Algorithm",
\* utils.go:165-171).  A call that fails stops where the stream stops being an item.
ReadsOneItem ==
  /\ call = "error" => ItemAt(input, start) = Stops(pos, << >>)
  /\ Raw # << >>    => ItemAt(input, start) = Ends(pos, << >>)

\* Every call returns, whatever the stream holds.
Returns == call = "reading" ~> call # "reading"
=============================================================================
