---------------------------- MODULE MCScanLinks ----------------------------
(* Streams over the wire format of MCItems, in which tag 2 announces a link   *)
(* and a CID is one byte.                                                     *)
EXTENDS ScanLinks, MCBytes

MCRadix == 48
MCWidths == << 1, 2 >>
MCBigEndian(v, w) == BigEndianIn(MCRadix, v, w)
MCUint(bs) == UintIn(MCRadix, bs)

First(maj, low) == 6 * maj + low

MCIsCid(bs) == bs \in {<< 0 >>, << 3 >>, << 0, 0 >>}

\* Two links, one of them without the multibase prefix, and what is none: empty,
\* cut, no CID, no byte string, too long.
LinkTo(bs) == << First(MajTag, 2), First(MajByteString, Len(bs)) >> \o bs
Links == { LinkTo(<< 0, 3 >>), LinkTo(<< 1, 0 >>) }
NoLinks ==
  { LinkTo(<< >>), LinkTo(<< 0 >>), LinkTo(<< 0, 1 >>) }
    \cup { << First(MajTag, 2), First(MajUnsignedInt, 1) >>,
           << First(MajTag, 2), First(MajByteString, 3), 3, 0, 0, 0 >>,
           << First(MajTag, 2), First(MajOther, 5) >>,
           << First(MajTag, 2), First(MajByteString, 2), 0 >> }

Others == { << First(MajUnsignedInt, 2) >>, << First(MajTextString, 1), 0 >>,
            << First(MajTextString, 2), 0 >>, << First(MajOther, 5) >>,
            << First(MajTag, 1), First(MajArray, 0) >>, << First(MajArray, 3), 4 >> }

Heads == { << >>, << First(MajArray, 2) >>, << First(MajMap, 1) >>, << First(MajTag, 0) >>,
           << First(MajArray, 2), First(MajMap, 1) >>, << First(MajMap, 3), 24 >> }

Items == Links \cup NoLinks \cup Others

Ending == { << >>, << First(MajUnsignedInt, 2) >>, LinkTo(<< 0, 0 >>) }

MCInputs == { h \o a \o b \o c : h \in Heads, a \in Items, b \in Items, c \in Ending }

ASSUME CountableAssumption == \A s \in MCInputs : Countable(s)
=============================================================================
