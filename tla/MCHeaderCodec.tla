--------------------------- MODULE MCHeaderCodec ---------------------------
(* A wire format with two major types, two arguments in the first byte,      *)
(* widths of one and two bytes and one first byte that is invalid: every     *)
(* wire of up to three bytes.                                                *)
EXTENDS HeaderCodec, MCBytes

MCRadix == 10
MCWidths == << 1, 2 >>
MCBigEndian(v, w) == BigEndianIn(MCRadix, v, w)
MCUint(bs) == UintIn(MCRadix, bs)
MCWires == UNION { [1 .. n -> 0 .. (MCRadix - 1)] : n \in 1 .. 3 }
MCFollowers == { << >>, << 3 >>, << 9, 0 >> }
=============================================================================
