----------------------------- MODULE FieldCodec -----------------------------
(***************************************************************************)
(* The code that the generator (gen.go) emits for one field of a struct,   *)
(* with the helpers of utils.go it calls.  A field f has a kind f.kind, a  *)
(* width f.w if it is or holds numbers (an array, its length), and f.read, *)
(* the width its decoder was emitted for.  A pointer is << >> or << v >>.  *)
(***************************************************************************)
EXTENDS BoundedItem, LinkGrammar, Scalars, FiniteSets

CONSTANTS
  MaxMapLen,   \* entries of a map field: 4096
  MaxCid       \* bytes of a CID with its prefix: 512

Word == 8 * Widths[Len(Widths)]   \* bits of an int64

\* The limits are 64-bit numbers, and no CID is empty.
ASSUME CodecAssumption ==
  /\ MajOther < MajRange /\ Nil < Inline
  /\ Widths # << >>
  /\ {MaxLength, ByteArrayMaxLen, MaxMapLen, LinkTag, MaxCid} \subseteq Arguments
  /\ ~IsCid(<< >>)

\* A byte has 8 bits, and each bit doubles.
ASSUME WordAssumption ==
  /\ Pow2(0) = 1
  /\ \A w \in 1 .. Word : Pow2(w) = 2 * Pow2(w - 1)
  /\ Pow2(Word) = Limit(Len(Widths))

-----------------------------------------------------------------------------

\* Encoders: what is written, and whether without error.
Wrote(bytes)   == [ok |-> TRUE, bytes |-> bytes]
Refused(bytes) == [ok |-> FALSE, bytes |-> bytes]

Written(hd) == WriteMajorTypeHeader(hd.maj, hd.extra)

\* One after the other, up to the first that is refused.
AndThen(r, w) == IF r.ok THEN [ok |-> w.ok, bytes |-> r.bytes \o w.bytes] ELSE r
All(head, ws) ==
  LET put[j \in 0 .. Len(ws)] == IF j = 0 THEN Wrote(head) ELSE AndThen(put[j - 1], ws[j])
  IN  put[Len(ws)]

\* A header for the length, and what is that long; nothing if it is too long.
WriteSized(maj, v, limit, body) ==
  IF Len(v) > limit THEN Refused(<< >>) ELSE Wrote(WriteMajorTypeHeader(maj, Len(v)) \o body)

WriteString(v) == WriteSized(MajTextString, v, MaxLength, v)
WriteBytes(v)  == WriteSized(MajByteString, v, ByteArrayMaxLen, v)

\* mapKeySort_RFC7049Less: the shorter key first, of two of a length the lesser.
\* (Mutant: the lesser first, as strings are sorted.)
Lexicographic(k, l) ==
  \E j \in 1 .. Len(l) :
    /\ j - 1 <= Len(k) /\ SubSeq(k, 1, j - 1) = SubSeq(l, 1, j - 1)
    /\ j > Len(k) \/ k[j] < l[j]
KeyLess(k, l) ==
  \/ Len(k) < Len(l)
  \/ Len(k) = Len(l) /\ \E j \in 1 .. Len(l) :
       SubSeq(k, 1, j - 1) = SubSeq(l, 1, j - 1) /\ k[j] < l[j]

WriteTime(v) == Wrote(Written(WriteInt(v, Word)))

\* A struct with a generated codec of its own, in the tuple representation, and with
\* an int64 as its only field.
WriteStruct(v) == Wrote(WriteMajorTypeHeader(MajArray, 1) \o WriteTime(v).bytes)

\* The same of a pointer to it, which may be nil.
WriteStructPointer(v) == IF v = << >> THEN Wrote(<< CborNull >>) ELSE WriteStruct(v[1])

WriteMapValue(f, e) == IF f.kind = "map*" THEN WriteStructPointer(e) ELSE WriteTime(e)

\* The entries in the order of their keys.
Sorted(keys) ==
  CHOOSE ks \in [1 .. Cardinality(keys) -> keys] : \A i, j \in DOMAIN ks : i < j => KeyLess(ks[i], ks[j])

WriteMap(f, v) ==
  LET keys == Sorted(DOMAIN v)
  IN  IF Len(keys) > MaxMapLen THEN Refused(<< >>)
      ELSE All(WriteMajorTypeHeader(MajMap, Len(keys)),
               [j \in DOMAIN keys |-> AndThen(WriteString(keys[j]), WriteMapValue(f, v[keys[j]]))])

\* WriteCid: << >> is cid.Undef, which is found out after the tag.
WriteCid(c) ==
  LET tag == WriteMajorTypeHeader(MajTag, LinkTag)
  IN  IF c = << >> THEN Refused(tag)
      ELSE Wrote(tag \o WriteMajorTypeHeader(MajByteString, Len(c) + 1) \o << 0 >> \o c)

WriteCborCid(c) == WriteCid(c)

\* A Deferred without Raw cannot be written.
WriteRaw(raw) == IF raw = << >> THEN Refused(<< >>) ELSE Wrote(raw)

\* An array of what is written in ws.
WriteElements(ws) ==
  IF Len(ws) > MaxLength THEN Refused(<< >>) ELSE All(WriteMajorTypeHeader(MajArray, Len(ws)), ws)

WriteElement(f, e) ==
  CASE f.kind \in {"[]uint", "array"} -> Wrote(Written(WriteUint(e)))
    [] f.kind = "[]int"     -> Wrote(Written(WriteInt(e, f.w)))
    [] f.kind = "[]bytes"   -> WriteBytes(e)
    [] f.kind = "[]struct"  -> WriteStruct(e)
    [] f.kind = "[]*struct" -> WriteStructPointer(e)
    [] f.kind = "[][]uint"  -> WriteElements([j \in DOMAIN e |-> Wrote(Written(WriteUint(e[j])))])

WriteSlice(f, v) == WriteElements([j \in DOMAIN v |-> WriteElement(f, v[j])])

WritePointer(f, v) ==
  CASE v = << >> -> Wrote(<< CborNull >>)
    [] v # << >> /\ f.kind = "*uint64"   -> Wrote(Written(WriteUint(v[1])))
    [] v # << >> /\ f.kind = "*cid"      -> WriteCid(v[1])
    [] v # << >> /\ f.kind = "*struct"   -> WriteStructPointer(v)
    [] v # << >> /\ f.kind = "*deferred" -> WriteRaw(v[1])

Slices   == {"[]uint", "[]int", "[]bytes", "[]struct", "[]*struct", "[][]uint"}
Nullable == {"*uint64", "*cid", "*struct"}

WriteField(f, v) ==
  CASE f.kind \in {"uint64", "uint"} -> Wrote(Written(WriteUint(v)))
    [] f.kind = "int"       -> Wrote(Written(WriteInt(v, f.w)))
    [] f.kind = "bool"      -> Wrote(Written(WriteBool(v)))
    [] f.kind = "string"    -> WriteString(v)
    [] f.kind \in {"bytes", "bytearray"} -> WriteBytes(v)
    [] f.kind \in Slices \cup {"array"}  -> WriteSlice(f, v)
    [] f.kind \in {"map", "map*"}        -> WriteMap(f, v)
    [] f.kind = "cid"       -> WriteCid(v)
    [] f.kind = "cborcid"   -> WriteCborCid(v)
    [] f.kind = "time"      -> WriteTime(v)
    [] f.kind = "struct"    -> WriteStruct(v)
    [] f.kind = "deferred"  -> WriteRaw(v)
    [] f.kind \in Nullable \cup {"*deferred"} -> WritePointer(f, v)

-----------------------------------------------------------------------------

\* Decoders.  n is what is added to bytesRead; if the decoder succeeds, it is also
\* what is taken from the reader.
Good(v, n) == [ok |-> TRUE, v |-> v, n |-> n]
Bad(n)     == [ok |-> FALSE, n |-> n]

Plus(k, r) == IF r.ok THEN Good(r.v, k + r.n) ELSE Bad(k + r.n)

\* A callee whose count is only looked at when it succeeds.
Uncounted(r) == IF r.ok THEN r ELSE Bad(0)

\* The same bytes for another value.
Mapped(r, Of(_)) == IF r.ok THEN Good(Of(r.v), r.n) ELSE r

\* A header that must be accepted, and what is read after it.
After(hd, Accepts(_), Rest(_)) ==
  CASE ~hd.ok -> Bad(0)
    [] hd.ok /\ ~Accepts(hd) -> Bad(hd.n)
    [] hd.ok /\ Accepts(hd)  -> Plus(hd.n, Rest(hd))
Headed(s, p, Accepts(_), Rest(_)) == After(CborReadHeaderBuf(s, p), Accepts, Rest)

\* (Mutant: as many bytes as there are, as Read and not ReadFull takes them.)
ReadSome(s, p, k) == LET m == IF p + k <= Len(s) THEN k ELSE Len(s) - p IN Good(SubSeq(s, p + 1, p + m), m)
ReadFull(s, p, k) == IF p + k <= Len(s) THEN Good(SubSeq(s, p + 1, p + k), k) ELSE Bad(0)

\* k elements from p on, one after the other: read says what each position holds.
AndNext(r, p, read) ==
  IF r.ok THEN Plus(r.n, Mapped(read[p + r.n], LAMBDA v : Append(r.v, v))) ELSE r
Elements(p, k, read) ==
  LET got[j \in 0 .. k] == IF j = 0 THEN Good(<< >>, 0) ELSE AndNext(got[j - 1], p, read)
  IN  got[k]

ReadUint64(s, p) ==
  Headed(s, p, LAMBDA hd : hd.maj = MajUnsignedInt, LAMBDA hd : Good(hd.extra, 0))

ReadUint(s, p, w) == Headed(s, p, LAMBDA hd : ReadsUint(hd, w), LAMBDA hd : Good(hd.extra, 0))

ReadNarrowed(s, p, w) ==
  Headed(s, p, LAMBDA hd : hd.maj = MajUnsignedInt, LAMBDA hd : Good(UintOf(hd.extra, w), 0))

ReadInt(s, p, w) == Headed(s, p, LAMBDA hd : ReadsInt(hd, w), LAMBDA hd : Good(IntRead(hd, w), 0))

ReadBool(s, p) == Headed(s, p, ReadsBool, LAMBDA hd : Good(BoolRead(hd), 0))

ReadString(s, p) ==
  Uncounted(Headed(s, p, LAMBDA hd : hd.maj = MajTextString /\ hd.extra <= MaxLength,
                         LAMBDA hd : ReadFull(s, p + hd.n, hd.extra)))

\* An empty byte string leaves the field as long as it is.
ReadBytes(s, p, old) ==
  Headed(s, p, LAMBDA hd : hd.maj = MajByteString /\ hd.extra <= ByteArrayMaxLen,
               LAMBDA hd : ReadFull(s, p + hd.n, IF hd.extra > 0 THEN hd.extra ELSE Len(old)))

\* An array must be as long as its type is.
ReadBytesOf(s, p, k) ==
  Headed(s, p, LAMBDA hd : hd.maj = MajByteString /\ hd.extra <= ByteArrayMaxLen /\ hd.extra = k,
               LAMBDA hd : ReadFull(s, p + hd.n, k))

ReadArray(s, p, k) ==
  Headed(s, p, LAMBDA hd : hd.maj = MajArray /\ hd.extra <= MaxLength /\ hd.extra = k,
               LAMBDA hd : Elements(p + hd.n, k, [q \in 0 .. Len(s) |-> ReadUint64(s, q)]))

\* CborTime: a CborInt.
ReadTime(s, p) == Uncounted(ReadInt(s, p, Word))

ReadStruct(s, p) ==
  Uncounted(Headed(s, p, LAMBDA hd : hd.maj = MajArray /\ hd.extra = 1,
                         LAMBDA hd : ReadInt(s, p + hd.n, Word)))

\* An empty array leaves a slice as it is.
ReadElements(s, p, old, read) ==
  Headed(s, p, LAMBDA hd : hd.maj = MajArray /\ hd.extra <= MaxLength,
               LAMBDA hd : IF hd.extra = 0 THEN Good(old, 0) ELSE Elements(p + hd.n, hd.extra, read))

\* An element is read into a new slice, and one that is a pointer like what it
\* points to: a null is none of them.
ReadElement(f, s, p) ==
  CASE f.kind = "[]uint"    -> ReadNarrowed(s, p, f.w)
    [] f.kind = "[]int"     -> ReadInt(s, p, f.w)
    [] f.kind = "[]bytes"   -> ReadBytes(s, p, << >>)
    [] f.kind = "[]struct"  -> ReadStruct(s, p)
    [] f.kind = "[]*struct" -> Mapped(ReadStruct(s, p), LAMBDA v : << v >>)
    [] f.kind = "[][]uint"  -> ReadElements(s, p, << >>, [q \in 0 .. Len(s) |-> ReadNarrowed(s, q, f.w)])

ReadSlice(f, s, p, old) == ReadElements(s, p, old, [q \in 0 .. Len(s) |-> ReadElement(f, s, q)])

\* ReadCid: a tag, a byte string, and in it a zero byte and a CID.
bufToCid(r) ==
  IF r.ok /\ Len(r.v) >= 2 /\ r.v[1] = 0 /\ IsCid(Tail(r.v)) THEN Good(Tail(r.v), r.n) ELSE Bad(0)

ReadByteArray(s, p) ==
  Headed(s, p, LAMBDA hd : hd.maj = MajByteString /\ hd.extra <= MaxCid,
               LAMBDA hd : ReadFull(s, p + hd.n, hd.extra))

ReadCid(s, p) ==
  bufToCid(Headed(s, p, LAMBDA hd : hd.maj = MajTag /\ hd.extra = LinkTag,
                        LAMBDA hd : ReadByteArray(s, p + hd.n)))

ReadCborCid(s, p) == Uncounted(ReadCid(s, p))

\* Deferred.UnmarshalCBOR, as ReadsOneItem shows it to be.
RawOf(item, s, p) == IF item.ok THEN Good(SubSeq(s, p + 1, item.end), item.end - p) ELSE Bad(0)
ReadDeferred(s, p) == RawOf(ItemAt(s, p), s, p)

ReadPointee(kind, s, p) ==
  CASE kind = "*uint64" -> ReadUint64(s, p)
    [] kind = "*cid"    -> ReadCid(s, p)
    [] kind = "*struct" -> ReadStruct(s, p)

\* Where a byte that was read at p and put back is read again.  (Mutant: it is not
\* put back.)
NotPutBack(p) == p + 1
PutBack(p) == p

\* A null, which leaves the field as it is, or, after UnreadByte, a value.
ReadPointer(kind, s, p, old) ==
  IF p >= Len(s) THEN Bad(0)
  ELSE IF s[p + 1] = CborNull THEN Good(old, 1)
  ELSE Mapped(ReadPointee(kind, s, PutBack(p)), LAMBDA v : << v >>)

ReadMapValue(f, s, p) ==
  IF f.kind = "map*" THEN ReadPointer("*struct", s, p, << >>) ELSE ReadTime(s, p)

ReadValueOf(k, f, s, p) ==
  IF k.ok THEN Plus(k.n, Mapped(ReadMapValue(f, s, p + k.n), LAMBDA v : <<k.v, v>>)) ELSE k
ReadEntry(f, s, p) == ReadValueOf(ReadString(s, p), f, s, p)

\* Of two entries with one key the later one stays.
MapOf(es) ==
  [k \in { es[j][1] : j \in DOMAIN es } |->
     es[CHOOSE j \in DOMAIN es :
               es[j][1] = k /\ \A l \in DOMAIN es : es[l][1] = k => l <= j][2]]

ReadMap(f, s, p) ==
  Mapped(Headed(s, p, LAMBDA hd : hd.maj = MajMap /\ hd.extra <= MaxMapLen,
                      LAMBDA hd : Elements(p + hd.n, hd.extra, [q \in 0 .. Len(s) |-> ReadEntry(f, s, q)])),
         MapOf)

\* The value of field f, which is old, is read from s after p bytes.
ReadField(f, s, p, old) ==
  CASE f.kind = "uint64"    -> ReadUint64(s, p)
    [] f.kind = "uint"      -> Mapped(ReadUint(s, p, f.read), LAMBDA v : UintOf(v, f.w))
    [] f.kind = "int"       -> Mapped(ReadInt(s, p, f.read), LAMBDA v : IntOf(v, f.w))
    [] f.kind = "bool"      -> ReadBool(s, p)
    [] f.kind = "string"    -> ReadString(s, p)
    [] f.kind = "bytes"     -> ReadBytes(s, p, old)
    [] f.kind = "bytearray" -> ReadBytesOf(s, p, f.w)
    [] f.kind = "array"     -> ReadArray(s, p, f.w)
    [] f.kind \in Slices    -> ReadSlice(f, s, p, old)
    [] f.kind \in {"map", "map*"} -> ReadMap(f, s, p)
    [] f.kind = "cid"       -> ReadCid(s, p)
    [] f.kind = "cborcid"   -> ReadCborCid(s, p)
    [] f.kind = "time"      -> ReadTime(s, p)
    [] f.kind = "struct"    -> ReadStruct(s, p)
    [] f.kind \in Nullable  -> ReadPointer(f.kind, s, p, old)
    [] f.kind = "deferred"  -> ReadDeferred(s, p)
    [] f.kind = "*deferred" -> Mapped(ReadDeferred(s, p), LAMBDA v : << v >>)

\* A nil in a slice of pointers is written as a null that only the decoder of a
\* pointer takes.
Readable(f, v) == f.kind = "[]*struct" => \A j \in DOMAIN v : v[j] # << >>

\* A nil pointer to a Deferred comes back as a Deferred of a null
\* (roundtrip_test.go:308-330).
Same(f, v) == IF f.kind = "*deferred" /\ v = << >> THEN << << CborNull >> >> ELSE v

\* The zero value.
Zero(f) ==
  CASE f.kind \in {"uint64", "uint", "int", "time", "struct"} -> 0
    [] f.kind = "bool"  -> FALSE
    [] f.kind \in {"array", "bytearray"} -> [j \in 1 .. f.w |-> 0]
    [] OTHER -> << >>

-----------------------------------------------------------------------------

Numbered == {"uint", "int", "[]uint", "[]int", "[][]uint"}
Kinds    == {"uint64", "bool", "string", "bytes", "bytearray", "array", "map", "map*", "cid",
             "cborcid", "time", "struct", "deferred", "*deferred"} \cup Numbered \cup Slices \cup Nullable

SizedInts == {"int", "uint"}

\* A field of a struct type, with its name, and its key in a map.
Fields == [name : Seq(Byte), key : Seq(Byte), kind : Kinds, w : Nat, read : Nat]
IsField(f) == f \in Fields /\ (f.kind \in Numbered => f.w \in 1 .. Word)

\* Fields whose decoder does not narrow the numbers it reads, and is no map, whose
\* entries may come in another order.
Exact(f) ==
  \/ f.kind = "uint" /\ f.read = f.w
  \/ f.kind \in {"int", "[]uint", "[]int", "[][]uint"} /\ f.w = Word /\ f.read = Word
  \/ f.kind \notin {"uint", "int", "[]uint", "[]int", "[][]uint", "map", "map*"}

\* The values of a field's Go type, of which a CID is no longer than ReadCid takes it,
\* and a Deferred holds an item.
IsCidValue(c) == c = << >> \/ (c \in Seq(Byte) /\ IsCid(c) /\ Len(c) < MaxCid)
IsRaw(raw)    == raw = << >> \/ (raw \in Seq(Byte) /\ ItemAt(raw, 0) = Ends(Len(raw), << >>))

IsPointer(V, v) == v \in Seq(V) /\ Len(v) <= 1
IsMap(v) == DOMAIN v \subseteq Seq(Byte) /\ IsFiniteSet(DOMAIN v) /\ v = [k \in DOMAIN v |-> v[k]]

IsValue(f, v) ==
  CASE f.kind = "uint64"    -> v \in Arguments
    [] f.kind = "uint"      -> v \in 0 .. MaxUint(f.w)
    [] f.kind = "int"       -> v \in Ints(f.w)
    [] f.kind = "bool"      -> v \in BOOLEAN
    [] f.kind \in {"string", "bytes"}  -> v \in Seq(Byte)
    [] f.kind = "bytearray" -> v \in [1 .. f.w -> Byte]
    [] f.kind = "array"     -> v \in [1 .. f.w -> Arguments]
    [] f.kind = "[]uint"    -> v \in Seq(0 .. MaxUint(f.w))
    [] f.kind = "[]int"     -> v \in Seq(Ints(f.w))
    [] f.kind = "[]bytes"   -> v \in Seq(Seq(Byte))
    [] f.kind = "[]struct"  -> v \in Seq(Ints(Word))
    [] f.kind = "[]*struct" -> v \in Seq(Seq(Ints(Word))) /\ \A j \in DOMAIN v : IsPointer(Ints(Word), v[j])
    [] f.kind = "[][]uint"  -> v \in Seq(Seq(0 .. MaxUint(f.w)))
    [] f.kind = "map"       -> IsMap(v) /\ \A k \in DOMAIN v : v[k] \in Ints(Word)
    [] f.kind = "map*"      -> IsMap(v) /\ \A k \in DOMAIN v : IsPointer(Ints(Word), v[k])
    [] f.kind \in {"cid", "cborcid"}   -> IsCidValue(v)
    [] f.kind \in {"time", "struct"}   -> v \in Ints(Word)
    [] f.kind = "*uint64"   -> IsPointer(Arguments, v)
    [] f.kind = "*struct"   -> IsPointer(Ints(Word), v)
    [] f.kind = "*cid"      -> IsPointer(Seq(Byte), v) /\ \A j \in DOMAIN v : IsCidValue(v[j])
    [] f.kind = "deferred"  -> IsRaw(v)
    [] f.kind = "*deferred" -> IsPointer(Seq(Byte), v) /\ \A j \in DOMAIN v : IsRaw(v[j])
=============================================================================
