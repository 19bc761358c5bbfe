--------------------------- MODULE MCStructTuple ---------------------------
EXTENDS StructTuple, MCStructs

P(kind) == Plain(kind, 16)

\* Structs that, between them, have every kind of field before and after others,
\* and no narrow integer before a wider one.
MixedStructs ==
  { << P("int"), Plain("uint", 8), Plain("int", 8) >>,
    << Plain("uint", 8), P("*uint64") >>,
    << P("string"), P("bool"), P("bytes") >>,
    << Plain("[]uint", 8), Plain("[]int", 8) >>,
    << P("[]bytes"), P("*deferred") >>,
    << P("map"), P("[]struct") >>,
    << P("cid"), P("uint64"), P("*cid") >>,
    << P("time"), P("*struct"), P("struct") >>,
    << Plain("array", 2), P("bool") >>,
    << P("[]*struct"), P("cborcid") >>,
    << Plain("bytearray", 2), P("[][]uint"), P("deferred") >>,
    << P("map*"), P("bool") >>,
    << P("[]struct"), P("int"), P("[]uint") >>,
    << >> }

Suffixes == {<< >>, << 0 >>, << 246, 24 >>}

\* All of it and something after it, or a part of it.
WholeOrCut(bytes) ==
  { bytes \o s : s \in Suffixes } \cup { SubSeq(bytes, 1, k) : k \in 0 .. (Len(bytes) - 1) }

\* First bytes of every major type, null, true and false, and headers too wide.
Replacements ==
  {0, 1, 23, 24, 25, 32, 55, 56, 57, 64, 65, 67, 88, 96, 97, 98, 128, 129, 130, 160, 161, 192, 215, 216, 245, 246, 255}

\* Any one byte of it replaced, if it is not long.
OneReplaced(bytes) ==
  { [bytes EXCEPT ![k] = b] : k \in { k \in DOMAIN bytes : Len(bytes) <= 8 }, b \in Replacements }

WholeCutOrReplaced(bytes) == WholeOrCut(bytes) \cup OneReplaced(bytes)

\* An int8 alone; and one before an int16.
Int8 == { << Plain("int", 8) >> }
Int8BeforeInt16 == { << Plain("int", 8), Plain("int", 16) >> }

Whole(bytes) == { bytes }

\* The integers about and beyond those of an int8.
OtherInts(bytes) ==
  { WriteMajorTypeHeader(MajArray, 1) \o WriteMajorTypeHeader(maj, l) :
      maj \in {MajUnsignedInt, MajNegativeInt}, l \in {0, 127, 128, 255, 256, 300, 511} }
=============================================================================
