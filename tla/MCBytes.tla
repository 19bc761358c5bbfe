------------------------------ MODULE MCBytes ------------------------------
(* encoding/binary's big-endian numbers, in bytes of a given radix, for the  *)
(* instances of CborHeader that TLC checks.                                  *)
EXTENDS Naturals, Sequences
LOCAL INSTANCE SequencesExt

BigEndianIn(radix, v, w) == [i \in 1 .. w |-> (v \div radix ^ (w - i)) % radix]
UintIn(radix, bs) == FoldLeft(LAMBDA v, b : v * radix + b, 0, bs)
=============================================================================
