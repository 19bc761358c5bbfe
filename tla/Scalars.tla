------------------------------ MODULE Scalars ------------------------------
(***************************************************************************)
(* Numbers and booleans as headers without payload: the fields of integer  *)
(* types (gen.go) and CborInt (utils.go).  A number has w bits; Go wraps   *)
(* it around.                                                              *)
(***************************************************************************)
EXTENDS CborHeader

Pow2(w) == 2 ^ w

\* intw(x): the low w bits, in two's complement.
IntOf(x, w) ==
  LET low == x % Pow2(w)
  IN  IF low < Pow2(w - 1) THEN low ELSE low - Pow2(w)

Ints(w) == -Pow2(w - 1) .. (Pow2(w - 1) - 1)

MaxUint(w) == Pow2(w) - 1

\* A header as the writer takes it: a major type and an argument.
WriteUint(v) == [maj |-> MajUnsignedInt, extra |-> v]

\* -v - 1, in w bits: the least integer is its own negative.
Complement(v, w) == IntOf(IntOf(-v, w) - 1, w)

WriteInt(v, w) ==
  IF v >= 0 THEN WriteUint(v) ELSE [maj |-> MajNegativeInt, extra |-> Complement(v, w)]

\* What is looked at to tell whether an argument overflows: the sign of what is
\* left of it.  (Mutant: nothing is.)
NeverOverflows(extra, w) == FALSE
Overflows(extra, w) == IntOf(extra, w) < 0

ReadsInt(hd, w) == hd.maj \in {MajUnsignedInt, MajNegativeInt} /\ ~Overflows(hd.extra, w)

IntRead(hd, w) ==
  IF hd.maj = MajUnsignedInt THEN IntOf(hd.extra, w) ELSE -1 - IntOf(hd.extra, w)

\* The integer that the header of the stream stands for.
Meant(hd) == IF hd.maj = MajUnsignedInt THEN hd.extra ELSE -1 - hd.extra

\* Elements of slices are not even looked at.
UintOf(x, w) == x % Pow2(w)

ReadsUint(hd, w) == hd.maj = MajUnsignedInt /\ hd.extra <= MaxUint(w)

False == 20
True  == 21
Nil   == 22

WriteBool(b) == [maj |-> MajOther, extra |-> IF b THEN True ELSE False]
ReadsBool(hd) == hd.maj = MajOther /\ hd.extra \in {False, True}
BoolRead(hd) == hd.extra = True

CborNull == FirstByte(MajOther, Nil)
=============================================================================
