----------------------------- MODULE MCStructs -----------------------------
(* Fields of every kind, and values of them, over the real wire format but   *)
(* for its widths: one and two bytes, so that an int64 has 16 bits.   *)
EXTENDS FieldCodec, MCBytes

MCWidths == << 1, 2 >>
MCBigEndian(v, w) == BigEndianIn(256, v, w)
MCUint(bs) == UintIn(256, bs)

MCIsCid(bs) == bs \in {<< 1, 85, 0 >>, << 1, 85, 1, 7 >>}

\* A field of a struct, with the name it has in a map.
Field(name, kind, w) == [name |-> name, key |-> name, kind |-> kind, w |-> w, read |-> w]
Plain(kind, w) == Field(<< 97 >>, kind, w)

\* The least, the greatest, and those where the width of an argument changes.
Numbers(w) == {0, 23, 24, 255, 256, MaxUint(w)} \cap 0 .. MaxUint(w)
SomeInts(w) == {0, 1, -1, -24, -25, -Pow2(w - 1), Pow2(w - 1) - 1}

Strings == {<< >>, << 97 >>, << 0, 255 >>}
Pointers(values) == {<< >>} \cup { << v >> : v \in values }
Lists(values) == {<< >>} \cup { << v >> : v \in values } \cup { << v, w >> : v, w \in values }

MCValues(f) ==
  CASE f.kind = "uint64"    -> Numbers(16)
    [] f.kind = "uint"      -> Numbers(f.w)
    [] f.kind = "int"       -> SomeInts(f.w)
    [] f.kind = "bool"      -> BOOLEAN
    [] f.kind = "string"    -> Strings \cup {<< 1, 2, 3, 4 >>}
    [] f.kind = "bytes"     -> Strings \cup {<< 1, 2, 3, 4, 5 >>}
    [] f.kind = "[]uint"    -> Lists({0, MaxUint(f.w)}) \cup {<< 0, 0, 0, 0 >>}
    [] f.kind = "[]int"     -> Lists({-Pow2(f.w - 1), 24})
    [] f.kind = "[]bytes"   -> Lists({<< >>, << 246 >>})
    [] f.kind = "[]struct"  -> Lists({-1, 256})
    [] f.kind = "[]*struct" -> Lists({<< >>, << -1 >>})
    [] f.kind = "[][]uint"  -> Lists({<< >>, << 300, 0 >>})
    [] f.kind = "bytearray" -> [1 .. f.w -> {0, 246}]
    [] f.kind = "array"     -> [1 .. f.w -> {0, 300}]
    [] f.kind = "map"       -> {<< >>} \cup [{<< 98 >>} -> {-1, 24}]
                                 \cup [{<< 97, 97 >>, << 98 >>, << >>} -> {0, 300}]
    [] f.kind = "map*"      -> {<< >>} \cup [{<< 98 >>} -> Pointers({-1, 300})]
                                 \cup [{<< 97 >>, << >>} -> Pointers({0})]
    [] f.kind \in {"cid", "cborcid"} -> {<< >>, << 1, 85, 0 >>, << 1, 85, 1, 7 >>}
    [] f.kind = "time"      -> SomeInts(16)
    [] f.kind = "*uint64"   -> Pointers(Numbers(16))
    [] f.kind = "*cid"      -> Pointers({<< >>, << 1, 85, 0 >>})
    [] f.kind = "struct"    -> {0, -300}
    [] f.kind = "*struct"   -> Pointers({0, -300})
    [] f.kind = "deferred"  -> {<< >>, << 0 >>, << 246 >>, << 129, 97, 97 >>}
    [] f.kind = "*deferred" -> Pointers({<< 246 >>, << 130, 97, 97, 32 >>, << 216, 42, 64 >>, << 216, 42, 32 >>, << >>})
=============================================================================
