----------------------------- MODULE SharedRaw -----------------------------
(***************************************************************************)
(* The arrays behind the bytes of a Deferred (utils.go): UnmarshalCBOR     *)
(* puts the new Raw together in the array of the old one until that is too *)
(* short, while a caller may still hold the old Raw, and while the reader  *)
(* may be one over the old Raw itself.                                     *)
(***************************************************************************)
EXTENDS DeferredValidate

CONSTANTS
  Followed,   \* the streams whose arrays are followed
  MinRead,    \* bytes.MinRead, 512
  Spares,     \* by how much a new array may be longer than what is asked for
  MaxCalls,   \* bounds the calls of UnmarshalCBOR for a stream that is followed
  MaxKept     \* bounds the slices that the caller keeps

ASSUME SharedAssumption ==
  /\ Followed \subseteq Inputs
  /\ MinRead \in Nat
  /\ Spares \subseteq Nat
  /\ MaxCalls \in Nat /\ MaxKept \in Nat

VARIABLES
  arrays,   \* all of them; the reader is one over the first
  raw,      \* d.Raw as a slice: an array, and how many bytes from its start
  buffer,   \* the bytes that the bytes.Buffer has, as such a slice
  calls,    \* for each call, the Deferred that it was for
  kept      \* slices of Raw that the caller has kept, and what they held

memory == <<arrays, raw, buffer, calls, kept>>
allVars == <<bothVars, memory>>

Nowhere == [arr |-> 0, len |-> 0]
Zeros(k) == [j \in 1 .. k |-> 0]
Capacity(arrs, sl) == IF sl.arr = 0 THEN 0 ELSE Len(arrs[sl.arr])
Content(arrs, sl) == IF sl.arr = 0 THEN << >> ELSE SubSeq(arrs[sl.arr], 1, sl.len)

\* The first Deferred has no Raw, or the very bytes that are read.
SharedInit ==
  /\ BothInit
  /\ arrays = << input >>
  /\ raw \in {Nowhere, [arr |-> 1, len |-> Len(input)]}
  /\ input \notin Followed => raw = Nowhere
  /\ buffer = Nowhere
  /\ calls = << >>
  /\ kept = << >>

-----------------------------------------------------------------------------

\* A call for Deferred d begins: it has the old Raw as its buffer, and no bytes in it.
\* (Mutants: for any Deferred, as if buffers were pooled; with the old bytes in it.)
PooledBuf(d) == [raw EXCEPT !.len = 0]
NotEmptied(d) == IF calls # << >> /\ d # calls[Len(calls)] THEN Nowhere ELSE raw
reusedBuf(d) == IF calls # << >> /\ d # calls[Len(calls)] THEN Nowhere ELSE [raw EXCEPT !.len = 0]

BeginIn(d) ==
  /\ buffer' = reusedBuf(d)
  /\ raw' = Nowhere
  /\ calls' = Append(calls, d)
  /\ UNCHANGED <<arrays, kept>>

\* A buffer m.at with room for k more bytes, in a new array if need be.
Room(m, k, spare) ==
  IF m.at.len + k <= Capacity(m.arrays, m.at)
  THEN m
  ELSE [arrays |-> Append(m.arrays, Content(m.arrays, m.at) \o Zeros(k + spare)),
        at |-> [arr |-> Len(m.arrays) + 1, len |-> m.at.len]]

\* Bytes are put after those of the buffer.
Fill(m, bytes) ==
  [arrays |-> [m.arrays EXCEPT ![m.at.arr] =
                 SubSeq(@, 1, m.at.len) \o bytes \o SubSeq(@, m.at.len + Len(bytes) + 1, Len(@))],
   at |-> [m.at EXCEPT !.len = @ + Len(bytes)]]

\* What is written of the scratch space.  (Mutant: all of it.)
WholeScratch == WriteMajorTypeHeader(header.maj, header.extra)
                  \o Zeros(1 + Widths[Len(Widths)] - header.n)
FromScratch == WriteMajorTypeHeader(header.maj, header.extra)

IsPayload == IsString(header.maj) /\ ~TooLong(header.maj, header.extra)

\* What there is of the payload.
payload == SubSeq(input, pos + header.n + 1, pos + header.n + There)

\* What an iteration of the loop does to the buffer: buf.Write of the header; buf.Grow
\* and buf.ReadFrom, which wants room for MinRead bytes before each Read, of what is
\* there, and of the end.
Written ==
  { Fill(Room([arrays |-> arrays, at |-> buffer], Len(FromScratch), spare), FromScratch) :
      spare \in Spares }
Grown(m, k) == { Room(m, k, spare) : spare \in Spares }
Copies(m) ==
  UNION { Grown(Fill(g, payload), MinRead) : g \in UNION { Grown(h, MinRead) : h \in Grown(m, Asked) } }
Stored == IF IsPayload THEN UNION { Copies(m) : m \in Written } ELSE Written

Store ==
  /\ \/ /\ remaining > 0 /\ header.ok
        /\ \E m \in Stored : arrays' = m.arrays /\ buffer' = m.at
        /\ UNCHANGED raw
     \/ /\ remaining > 0 /\ ~header.ok
        /\ UNCHANGED <<arrays, raw, buffer>>
     \/ /\ remaining = 0
        /\ raw' = buffer
        /\ UNCHANGED <<arrays, buffer>>
  /\ UNCHANGED <<calls, kept>>

-----------------------------------------------------------------------------

\* What happens to the arrays, if they are followed.
Follow(A) == IF input \in Followed THEN A ELSE UNCHANGED memory

StartIn == Start /\ Follow(BeginIn(1))

BothStepIn == BothStep /\ Follow(Store)

\* The same Deferred again, or a new one.
AgainIn ==
  /\ Again
  /\ Follow(/\ Len(calls) < MaxCalls
            /\ \E d \in {calls[Len(calls)], calls[Len(calls)] + 1} : BeginIn(d))

StepAloneIn == StepAlone /\ Follow(Store)

\* The caller keeps a slice of Raw.
Keep ==
  /\ call = "ok"
  /\ calls # << >>
  /\ raw # Nowhere
  /\ Len(kept) < MaxKept
  /\ kept' = Append(kept, [slice |-> raw, bytes |-> Raw, call |-> Len(calls)])
  /\ UNCHANGED <<bothVars, arrays, raw, buffer, calls>>

SharedNext == StartIn \/ BothStepIn \/ AgainIn \/ StepAloneIn \/ Keep

SharedSpec == SharedInit /\ [][SharedNext]_allVars

\* What is done to arrays never keeps a loop from going on.
SharedFairSpec == SharedSpec /\ WF_bothVars(BothStep) /\ WF_bothVars(StepAlone)

-----------------------------------------------------------------------------

\* The Raw of a Deferred is the item it has read, although its array is that of an
\* earlier Raw and may be the one that is read from (utils.go:158-160, 220).
HoldsRaw ==
  input \in Followed /\ Raw # << >> => Content(arrays, raw) = Raw

\* What is still to be read is never overwritten, even if a Deferred is unmarshalled
\* from its own Raw: the buffer is never ahead of the reader (utils.go:158, 182, 196).
UnreadIntact ==
  \A j \in (pos + 1) .. Len(input) : arrays[1][j] = input[j]

ReadAgain(k) ==
  \E c \in (kept[k].call + 1) .. Len(calls) : calls[c] = calls[kept[k].call]

\* A slice of Raw that the caller keeps is its own for as long as that Deferred is
\* not unmarshalled again, whatever is done with others (utils.go:157-160).
KeptUnchanged ==
  \A k \in DOMAIN kept : ~ReadAgain(k) => Content(arrays, kept[k].slice) = kept[k].bytes
=============================================================================
