----------------------------- MODULE ScanLinks -----------------------------
(***************************************************************************)
(* ScanForLinks (utils.go), called for one item of a stream after another: *)
(* it reads past an item of any type and size and calls back for each link *)
(* (CID) in it.                                                            *)
(***************************************************************************)
EXTENDS LinkGrammar

CONSTANT Inputs  \* the streams, in which no string is too long for an int

ASSUME InputsAssumption ==
  /\ Inputs \subseteq Seq(Byte)
  /\ MaxLink \in Nat

VARIABLES
  input,      \* the stream
  pos,        \* how many of its bytes the reader has handed out
  start,      \* pos when ScanForLinks was called
  remaining,  \* items still to be read
  bytesRead,  \* what ScanForLinks will return
  links,      \* the byte strings whose CIDs it called back with
  call        \* "reading", or how the last call ended: "ok", "error", "panic"

vars == <<input, pos, start, remaining, bytesRead, links, call>>

Init ==
  /\ input \in Inputs
  /\ pos = 0
  /\ start = 0
  /\ remaining = 0
  /\ bytesRead = 0
  /\ links = << >>
  /\ call = "ok"

ScanForLinks ==
  /\ call \in {"ok", "error"}
  /\ start' = pos
  /\ remaining' = 1
  /\ bytesRead' = 0
  /\ links' = << >>
  /\ call' = "reading"
  /\ UNCHANGED <<input, pos>>

-----------------------------------------------------------------------------

\* The header of the next item, and what would follow it if it were a link: a
\* header again, and bytes.
header == CborReadHeaderBuf(input, pos)
body   == pos + header.n
inner  == CborReadHeaderBuf(input, body)
first  == body + inner.n
end    == first + inner.extra

Asked == Payload(header.maj, header.extra)

\* (Mutant: a tag like any other.)
NoLink(hd) == FALSE
Announces(hd) == hd.maj = MajTag /\ hd.extra = LinkTag

\* The call ends, with the reader after p bytes and k more of them counted.
End(how, p, k) ==
  /\ call' = how
  /\ pos' = p
  /\ bytesRead' = bytesRead + k
  /\ UNCHANGED <<input, start, remaining, links>>

\* (Mutant of BadElement: the error of the header is dropped.)
DropBadHeader ==
  /\ call = "reading"
  /\ remaining > 0
  /\ ~header.ok
  /\ pos' = body
  /\ UNCHANGED <<input, start, remaining, bytesRead, links, call>>

BadElement ==
  /\ call = "reading"
  /\ remaining > 0
  /\ ~header.ok
  /\ End("error", body, 0)

\* discard finds the end of the stream; what there was is gone, but not counted.
CutElement ==
  /\ call = "reading"
  /\ remaining > 0
  /\ header.ok
  /\ body + Asked > Len(input)
  /\ End("error", Len(input), header.n)

Element ==
  /\ call = "reading"
  /\ remaining > 0
  /\ header.ok
  /\ ~Announces(header)
  /\ body + Asked <= Len(input)
  /\ pos' = body + Asked
  /\ bytesRead' = bytesRead + header.n + Asked
  /\ remaining' = Uint64(Uint64(remaining + Nested(header.maj, header.extra)) - 1)
  /\ UNCHANGED <<input, start, links, call>>

BadLinkHeader ==
  /\ call = "reading"
  /\ remaining > 0
  /\ header.ok
  /\ Announces(header)
  /\ ~inner.ok
  /\ End("error", first, header.n)

\* Not a byte string, or too long a one.  (Mutant: of any length.)
AnyByteString(hd) == hd.maj = MajByteString
MayBeLink(hd) == hd.maj = MajByteString /\ hd.extra <= MaxLink

NoByteString ==
  /\ call = "reading"
  /\ remaining > 0
  /\ header.ok
  /\ Announces(header)
  /\ inner.ok
  /\ ~MayBeLink(inner)
  /\ End("error", first, header.n + inner.n)

CutLink ==
  /\ call = "reading"
  /\ remaining > 0
  /\ header.ok
  /\ Announces(header)
  /\ inner.ok
  /\ MayBeLink(inner)
  /\ end > Len(input)
  /\ End("error", Len(input), header.n + inner.n)

\* scratch[1:0]
EmptyLink ==
  /\ call = "reading"
  /\ remaining > 0
  /\ header.ok
  /\ Announces(header)
  /\ inner.ok
  /\ MayBeLink(inner)
  /\ inner.extra = 0
  /\ End("panic", first, header.n + inner.n)

\* The byte string, of which the first byte is not looked at.
found == SubSeq(input, first + 1, end)

NotALink ==
  /\ call = "reading"
  /\ remaining > 0
  /\ header.ok
  /\ Announces(header)
  /\ inner.ok
  /\ MayBeLink(inner)
  /\ inner.extra > 0
  /\ end <= Len(input)
  /\ ~IsCid(Tail(found))
  /\ End("error", end, header.n + inner.n + inner.extra)

\* What a link adds to bytesRead.  (Mutant: its first header is lost, as the read
\* that is assigned again would lose it.)
OuterLost == inner.n + inner.extra
LinkBytes == header.n + inner.n + inner.extra

Link ==
  /\ call = "reading"
  /\ remaining > 0
  /\ header.ok
  /\ Announces(header)
  /\ inner.ok
  /\ MayBeLink(inner)
  /\ inner.extra > 0
  /\ end <= Len(input)
  /\ IsCid(Tail(found))
  /\ pos' = end
  /\ bytesRead' = bytesRead + LinkBytes
  /\ links' = Append(links, found)
  /\ remaining' = Uint64(remaining - 1)
  /\ UNCHANGED <<input, start, call>>

Finish ==
  /\ call = "reading"
  /\ remaining = 0
  /\ call' = "ok"
  /\ UNCHANGED <<input, pos, start, remaining, bytesRead, links>>

Step ==
  \/ BadElement \/ CutElement \/ Element
  \/ BadLinkHeader \/ NoByteString \/ CutLink \/ EmptyLink \/ NotALink \/ Link
  \/ Finish

Next == ScanForLinks \/ Step

Spec == Init /\ [][Next]_vars

\* The loop goes on by itself; whether it is called again is up to the caller.
FairSpec == Spec /\ WF_vars(Step)

-----------------------------------------------------------------------------

TypeOK ==
  /\ pos \in 0 .. Len(input)
  /\ start \in 0 .. pos
  /\ remaining \in Nat
  /\ bytesRead \in 0 .. (pos - start)
  /\ \A k \in 1 .. Len(links) : Len(links[k]) \in 1 .. MaxLink
  /\ call \in {"reading", "ok", "error", "panic"}

\* A call that succeeds has read one item and returns its length
\* (utils_test.go:25), and has called back for its links in their order, each
\* once; one that fails has done so for the links before the point of failure.
ScansOneItem ==
  LET item == LinkedItemAt(input, start)
  IN  /\ call = "ok" /\ pos > 0 => item = Ends(pos, links) /\ bytesRead = pos - start
      /\ call = "error" => item = Stops(pos, links)
      /\ call = "panic" => item = Stops(pos, Append(links, << >>))

\* The items still to be read can be counted in 64 bits.  The code does not limit what
\* a header announces: a map of 2^63 entries is no item more (utils.go:101).
CounterFits ==
  call = "reading" /\ remaining > 0 /\ header.ok =>
    remaining + Nested(header.maj, header.extra) < Limit(Len(Widths))

\* A stream of which they can: no header in it announces so many items that they
\* would not fit if every byte of the stream announced as many.
Countable(s) ==
  \A p \in 0 .. Len(s) :
    LET hd == CborReadHeaderBuf(s, p)
    IN  hd.ok => 2 + Nested(hd.maj, hd.extra) * Len(s) < Limit(Len(Widths))

\* Every call returns, or panics.
Returns == call = "reading" ~> call # "reading"
=============================================================================
