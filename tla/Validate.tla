------------------------------ MODULE Validate ------------------------------
(***************************************************************************)
(* ValidateCBOR (validate.go): is a byte array one CBOR item?  It is the   *)
(* loop of Deferred.UnmarshalCBOR once more, over a bytes.Reader of its    *)
(* own, without the copy.                                                  *)
(***************************************************************************)
EXTENDS BoundedItem

CONSTANT Inputs

VARIABLES
  input,      \* the byte array
  pos,        \* how many of its bytes the bytes.Reader has handed out
  remaining,  \* items still to be read
  verdict     \* "none" before the call, "reading", then "ok" or "error"

vars == <<input, pos, remaining, verdict>>

Init ==
  /\ input \in Inputs
  /\ pos = 0
  /\ remaining = 0
  /\ verdict = "none"

ValidateCBOR ==
  /\ verdict = "none"
  /\ remaining' = 1
  /\ verdict' = "reading"
  /\ UNCHANGED <<input, pos>>

header == CborReadHeaderBuf(input, pos)

Asked == Payload(header.maj, header.extra)

\* The bytes left once the header is read.  (Mutant: those of the whole array.)
WholeArray == Len(input)
BytesLeft == Len(input) - (pos + header.n)

Reject(taken) ==
  /\ pos' = pos + taken
  /\ verdict' = "error"
  /\ UNCHANGED <<input, remaining>>

\* (Mutant of BadElement: the error of the header is dropped.)
DropBadHeader ==
  /\ verdict = "reading"
  /\ remaining > 0
  /\ ~header.ok
  /\ pos' = pos + header.n
  /\ UNCHANGED <<input, remaining, verdict>>

BadElement ==
  /\ verdict = "reading"
  /\ remaining > 0
  /\ ~header.ok
  /\ Reject(header.n)

\* Too long, or longer than what is left: nothing is skipped.
LongElement ==
  /\ verdict = "reading"
  /\ remaining > 0
  /\ header.ok
  /\ TooLong(header.maj, header.extra) \/ BytesLeft < Asked
  /\ Reject(header.n)

Element ==
  /\ verdict = "reading"
  /\ remaining > 0
  /\ header.ok
  /\ ~TooLong(header.maj, header.extra)
  /\ BytesLeft >= Asked
  /\ pos' = pos + header.n + Asked
  /\ remaining' = Uint64(Uint64(remaining + Nested(header.maj, header.extra)) - 1)
  /\ UNCHANGED <<input, verdict>>

\* Nothing may follow the item.  (Mutant: anything may.)
AnythingFollows == TRUE
NothingFollows == pos = Len(input)

Finish ==
  /\ verdict = "reading"
  /\ remaining = 0
  /\ verdict' = IF NothingFollows THEN "ok" ELSE "error"
  /\ UNCHANGED <<input, pos, remaining>>

Step == BadElement \/ LongElement \/ Element \/ Finish

Next == ValidateCBOR \/ Step

Spec == Init /\ [][Next]_vars

-----------------------------------------------------------------------------

\* Every variable keeps its type; in particular no string is skipped that the
\* byte array does not hold to its end (validate.go:32-38).
TypeOK ==
  /\ input \in Inputs
  /\ pos \in 0 .. Len(input)
  /\ remaining \in 0 .. (Limit(Len(Widths)) - 1)
  /\ verdict \in {"none", "reading", "ok", "error"}
=============================================================================
