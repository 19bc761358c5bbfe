----------------------------- MODULE CborHeader -----------------------------
(***************************************************************************)
(* The header every CBOR item starts with (utils.go): a major type and an  *)
(* argument, the argument in the first byte when it is small and otherwise *)
(* big-endian in one of a few widths.  The sizes are parameters, so that   *)
(* TLC can enumerate a small wire format and TLAPS prove for all of them.  *)
(***************************************************************************)
EXTENDS Integers, Sequences

CONSTANTS
  MajRange,         \* major types: 8
  LowRange,         \* values of the low bits of the first byte: 32
  Inline,           \* arguments held by the low bits themselves: 24
  Widths,           \* bytes of the wider arguments: << 1, 2, 4, 8 >>
  BigEndian(_, _),  \* binary.BigEndian.PutUint: a number, in so many bytes
  Uint(_)           \* binary.BigEndian.Uint

Radix  == MajRange * LowRange
Byte   == 0 .. (Radix - 1)
Majors == 0 .. (MajRange - 1)

\* The arguments below Limit(i) fit the i-th width; width 0 is the first byte.
Limit(i) == IF i = 0 THEN Inline ELSE Radix ^ Widths[i]

\* uint64
Arguments == 0 .. (Limit(Len(Widths)) - 1)

ASSUME SizesAssumption ==
  /\ MajRange \in Nat \ {0}
  /\ LowRange \in Nat
  /\ Inline \in Nat \ {0}
  /\ Widths \in Seq(Nat \ {0})
  /\ Inline + Len(Widths) <= LowRange
  /\ \A i \in 0 .. Len(Widths) : Limit(i) \in Nat \ {0}
  /\ \A i, j \in 0 .. Len(Widths) : i <= j => Limit(i) <= Limit(j)

ASSUME BigEndianAssumption ==
  \A i \in 1 .. Len(Widths) :
    /\ \A v \in 0 .. (Limit(i) - 1) :
         /\ BigEndian(v, Widths[i]) \in [1 .. Widths[i] -> Byte]
         /\ Uint(BigEndian(v, Widths[i])) = v
    /\ \A bs \in [1 .. Widths[i] -> Byte] :
         /\ Uint(bs) \in 0 .. (Limit(i) - 1)
         /\ BigEndian(Uint(bs), Widths[i]) = bs

\* The major types.
MajUnsignedInt == 0
MajNegativeInt == 1
MajByteString  == 2
MajTextString  == 3
MajArray       == 4
MajMap         == 5
MajTag         == 6
MajOther       == 7

-----------------------------------------------------------------------------

\* The case of the writer's switch that argument l falls into: the first width
\* that holds it.  (Mutant: l < (1 << 8) misread as l <= (1 << 8).)
FitsOrTouches(l, i) == l <= Limit(i)
Fits(l, i) == l < Limit(i)
Width(l) == CHOOSE i \in 0 .. Len(Widths) : Fits(l, i) /\ \A j \in 0 .. (i - 1) : ~Fits(l, j)

FirstByte(t, low) == t * LowRange + low

WriteMajorTypeHeader(t, l) ==
  IF Width(l) = 0
  THEN << FirstByte(t, l) >>
  ELSE << FirstByte(t, Inline + Width(l) - 1) >> \o BigEndian(l, Widths[Width(l)])

-----------------------------------------------------------------------------

\* What reading a header of the bytes s after the first p yields.  n counts the
\* bytes taken from the reader, those of a header that turns out bad included;
\* the count the code returns with an error is dropped by every caller.
Header(maj, extra, n) == [ok |-> TRUE, maj |-> maj, extra |-> extra, n |-> n]
BadHeader(n) == [ok |-> FALSE, maj |-> 0, extra |-> 0, n |-> n]

\* An argument that a narrower width holds is not canonical.  (Mutant: accepted.)
AnyArgument(v, i) == TRUE
Canonical(v, i) == ~Fits(v, i - 1)

\* The i-th width, after first byte of major type maj.
ReadArgument(s, p, maj, i) ==
  LET w == Widths[i]
      v == Uint(SubSeq(s, p + 2, p + 1 + w))
  IN  IF Len(s) < p + 1 + w
      THEN BadHeader(Len(s) - p)
      ELSE IF Canonical(v, i) THEN Header(maj, v, 1 + w) ELSE BadHeader(1 + w)

CborReadHeaderBuf(s, p) ==
  LET maj == s[p + 1] \div LowRange
      low == s[p + 1] % LowRange
  IN  CASE Len(s) <= p -> BadHeader(0)
        [] Len(s) > p /\ low < Inline -> Header(maj, low, 1)
        [] Len(s) > p /\ low >= Inline /\ low < Inline + Len(Widths) ->
             ReadArgument(s, p, maj, low - Inline + 1)
        [] Len(s) > p /\ low >= Inline + Len(Widths) -> BadHeader(1)
=============================================================================
