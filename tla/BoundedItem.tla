---------------------------- MODULE BoundedItem ----------------------------
(***************************************************************************)
(* The limits on what a header may announce, and the items within them.    *)
(* ScanForLinks has none.                                                  *)
(***************************************************************************)
EXTENDS CborGrammar

CONSTANTS
  MaxLength,        \* elements of an array, pairs of a map
  ByteArrayMaxLen   \* bytes of a string

ASSUME LimitsAssumption ==
  /\ MaxLength \in Nat
  /\ ByteArrayMaxLen \in Nat

\* (Mutant: a container of any length.)
StringsOnly(maj, extra) == IsString(maj) /\ extra > ByteArrayMaxLen
TooLong(maj, extra) ==
  \/ IsString(maj) /\ extra > ByteArrayMaxLen
  \/ IsContainer(maj) /\ extra > MaxLength

\* The head of an item within the limits, and the item of s after its first p bytes.
BoundedHead(s, p) ==
  LET hd == CborReadHeaderBuf(s, p)
  IN  IF hd.ok /\ TooLong(hd.maj, hd.extra) THEN BadHead(p + hd.n) ELSE ItemHead(s, p)

BoundedHeads(s) == [p \in 0 .. Len(s) |-> BoundedHead(s, p)]
ItemAt(s, p) == ItemsIn(BoundedHeads(s))[p][1]
=============================================================================
