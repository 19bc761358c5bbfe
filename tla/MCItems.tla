------------------------------ MODULE MCItems ------------------------------
(* Streams over a wire format with all eight major types, arguments 0 to 2 in *)
(* the first byte, widths of one and two bytes and one invalid first byte.    *)
EXTENDS CborHeader, MCBytes

MCRadix == 48
MCWidths == << 1, 2 >>
MCBigEndian(v, w) == BigEndianIn(MCRadix, v, w)
MCUint(bs) == UintIn(MCRadix, bs)

First(maj, low) == 6 * maj + low

\* Every first byte that takes a path of its own; as arguments, they are in and
\* out of range of the widths, of MaxLength and of ByteArrayMaxLen.
Alphabet ==
  { First(MajUnsignedInt, low) : low \in {0, 3, 4, 5} }
    \cup { First(MajByteString, low) : low \in {1, 3} }
    \cup { First(MajArray, low) : low \in {0, 2, 3} }
    \cup { First(MajMap, 1), First(MajMap, 3), First(MajTag, 0), First(MajOther, 2) }

\* Enough for a container of several items inside another one.
Nesting == { First(MajUnsignedInt, 0), First(MajUnsignedInt, 3), First(MajTextString, 2),
             First(MajArray, 2), First(MajMap, 1), First(MajTag, 1) }

Deeper == { First(MajUnsignedInt, 0), First(MajArray, 2), First(MajMap, 1), First(MajTag, 1) }

MCInputs ==
  UNION { [1 .. n -> Alphabet] : n \in 0 .. 3 } \cup [1 .. 4 -> Nesting] \cup [1 .. 5 -> Deeper]
=============================================================================
