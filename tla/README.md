# Verification of cbor-gen

TLA+ models of `daotl/cbor-gen`, checked by TLC, with theorems about them
checked by TLAPS. cbor-gen generates the `MarshalCBOR` and `UnmarshalCBOR`
methods of Go structs; the generated code leans on a small runtime in
`utils.go`, `peeker.go` and `validate.go`. What is verified is both halves:
the runtime, and what the emitted code does (the templates read as the code
they emit, not as text).

All paths below are relative to `src/`.

## Inventory

| part | state | operations | interacts with |
|---|---|---|---|
| **Peeker** (`peeker.go`) | `peekState`, `lastByte`, the wrapped `io.Reader` | `Read`, `ReadByte`, `UnreadByte` | every decoder obtains one with `GetPeeker`; the reader below is the caller's and may answer anything `io.Reader` permits |
| **CBOR headers** (`utils.go:244-478`) | none; a caller's scratch buffer | `CborReadHeader(Buf)`, `WriteMajorTypeHeader(Buf)`, `CborEncodeMajorType` | called by everything that reads or writes |
| **Deferred** (`utils.go:134-222`) | `d.Raw` and the array it is in; in a call: `remaining`, `bytesRead`, the buffer | `UnmarshalCBOR`, `MarshalCBOR` | headers; is a field type of generated structs |
| **ValidateCBOR** (`validate.go`) | in a call: `remaining`, a `bytes.Reader` | one function | the second copy of Deferred's loop |
| **ScanForLinks** (`utils.go:24-108`) | in a call: `remaining`, `bytesRead` | one function, a callback for each link | headers, `cid.Cast`; skips unknown map keys for generated code |
| **Package names** (`package.go:11-64`) | two global maps and a mutex | `resolvePkgName` | called when types are named and when imports are collected; the results must agree |
| **Imports of a type** (`package.go:66-100`, `gen.go:45-75, 150-170`) | the import list of a file, then its code | `ImportsForType`, `dedupImports`, `GenTypeInfo.Imports`; `typeName` in the templates | package names, once for the header and again for the code |
| **Scalars** (`utils.go`, `cbor_cid.go`, `gen.go`) | none | `WriteBool`, `CborInt`, `CborBool`, `CborTime`, `WriteCid`, `ReadCid`; the templates of integer fields | headers |
| **Struct codec, tuple** (`gen.go:607-696, 1214-1335`) | the struct; `bytesRead`; the generator's variable `len` | generated `MarshalCBOR`, `UnmarshalCBOR` | all of the above |
| **Struct codec, map** (`gen.go:1337-1604`, `writefile.go:97-146`) | the same, and the entries left | the same | the same, and ScanForLinks for unknown keys |
| **Struct layout** (`gen.go:64-95, 202-280`, `writefile.go:17-95`) | `fields`, `fieldMap`, `depths`, `embeddedByPointerStructs` | `ParseTypeInfo`, field order, `InitNilEmbeddedStruct` | decides what the two struct codecs are generated for; the emitted method writes to the value that is marshalled, which goroutines may share |
| **Code emission** (rest of `gen.go`, `writefile.go`) | the output file | templates as text, `go/format` | not modelled: wording and I/O |
| **Test generator and tests** (`testgen`, `testing`) | | | not modelled: read as evidence |

Which behaviour is hard, and what has to hold because of it:

- *Two byte-wise protocols on one stream.* A decoder takes a byte, looks at it,
  puts it back, and has a helper read it again, by another method of the peeker
  than the first time, above a reader that may end or fail at any of these calls.
  The peeker has to be a byte scanner, and the decoder's count has to be its
  position.
- *One counter in place of a stack.* Three loops walk nested items with a
  64-bit counter of "items still to come". Each must stop exactly where a
  recursive reading of the grammar stops, on good and on bad input, and two of
  them must agree with each other.
- *Decode, then encode again.* A `Deferred` keeps bytes that were re-encoded
  from decoded headers; they are the input only if there is one encoding of a
  header.
- *Streams that end, or hold something else.* At any byte.
- *Old values.* A struct that is unmarshalled into has been used before; a
  `Deferred` is called again after a failure; a key of a map comes twice; a name
  has been given before.
- *Arrays behind slices.* A `Deferred` builds its new Raw in the array of the
  old one, which a caller may hold, or be reading from.
- *Generated code that is one thing for each field, but whose generator keeps
  a variable between fields.*
- *Names and embeddings.* Go's rule for which of several fields of one name is
  meant, in any order and at any depth, by value and by pointer.
- *Two maps under a lock, read twice.* A file asks for its names when its header
  is printed and again when its code is; other files are generated meanwhile.
- *A marshaller that writes.* `MarshalCBOR` of a flattened struct fills in nil
  pointers of its receiver, without a lock.

Correctness, part by part, is stated in the modules and listed under
"Runs". The hazards, each at its line with the properties that are about it,
are in `PROJECT.json`; those no property covers yet say why.

## Modules

```
ByteScanner  <=  Peeker  <-  PeekedFields     PkgNaming  <=  PkgNames  <-  GeneratedFile

CborHeader  <-  HeaderCodec
     ^
     |----  CborItem  <-  BoundedItem  <-  Deferred  <-  DeferredValidate  <-  SharedRaw
     |         ^               ^                             | INSTANCE
     |         |               |                          Validate
     |      ScanLinks          |-------  CborGrammar  --> Nesting
     |         ^               |              ^              ^
     |         '---------------|--------  LinkGrammar  ------'
     |                         |              |
  Scalars  <-----------------  FieldCodec  <--'
                                ^
                           StructCodec
                             ^      ^
                   StructTuple     StructMap

  StructLayout, EmbeddedPointers  <-  FlattenedMarshal
```

`A <= B`: B is shown to implement A by a refinement mapping. `A <- B` (or `B -> A`): B
extends A or, the grammars, instantiates it.

| module | models | correspondence |
|---|---|---|
| `ByteScanner` | what decoders rely on: a cursor over bytes | abstract specification |
| `Peeker` | `peeker.go` | one action for each method, `Read` in two (empty buffer or not); `ReaderRead` is the set of answers of the reader, restricted by `Quirks` |
| `PeekedFields` | the decoder of nullable fields on a peeker | one action for each call it makes: `Peek`, `PutBack`, `readByteBuf` or `readByte`; `OtherCall` stands for any other user of a peeker |
| `CborHeader` | headers, reader and writer | operators; the number of major types, the radix, the widths are parameters |
| `HeaderCodec` | one header crossing a wire | `WriteHeader` or `ReceiveBytes`, then `ReadHeader` |
| `CborItem` | what a header announces | operators shared by the three loops |
| `Nesting` | items that nest, by recursion on what nests in them | reference definition: a function, so that it can be proved about |
| `CborGrammar`, `BoundedItem`, `LinkGrammar` | one CBOR item; one within the limits of `utils.go`; one with its links | the heads of which `Nesting` makes items; the reference of `ReadsOneItem`, `ValidIsOneItem` and `ScansOneItem` |
| `Deferred` | `Deferred.UnmarshalCBOR`, called again and again on one stream | one action for each way through an iteration of the loop: `BadElement`, `LongElement`, `CutElement`, `Element`; `Finish` after it |
| `Validate` | `ValidateCBOR` | the same ways through its own loop |
| `DeferredValidate` | both on the same bytes | in lockstep |
| `SharedRaw` | the arrays behind Raw, the `bytes.Buffer`, the reader and what a caller has kept | `DeferredValidate`, each of whose steps also does to the arrays what `buf.Write`, `Grow` and `ReadFrom` do; a `Deferred` may be called on its own old Raw, and a caller may `Keep` a slice |
| `ScanLinks` | `ScanForLinks` | one action for each way through an iteration; a panic is an outcome, told from an error |
| `PkgNaming` | names that stay and do not collide | abstract specification |
| `PkgNames` | `resolvePkgName`, any number of goroutines | one action between any two accesses of the shared maps |
| `GeneratedFile` | `WriteTupleEncodersToFile`, `WriteMapEncodersToFile` as callers of it, any number at once | `Ask` and `Learn` for each call of a field, in the list (`Imports`) and then in the code (`typeName`); `Header`, `Write`, `Fail` |
| `Scalars` | integers of `w` bits, booleans, null | operators, with Go's wrap-around |
| `FieldCodec` | the emitted encoder and decoder of one field, by kind | operators that return value, count and success; their loops (`All`, `Elements`) are recursive functions of the iteration |
| `StructCodec` | what both keep, in either representation | the state; `Put` writes what is marshalled of one field |
| `StructTuple` | `MarshalCBOR`, then `UnmarshalCBOR` in the tuple representation | one action for each field, one for a nil receiver; the generator's variable `len` in `emitCborUnmarshalStructTuple` |
| `StructMap` | the same in the map representation, into another type | one action for each entry: `Known`, `Unknown`, `UnknownPanics` (`ScanForLinks` panics), `BadName`; the entries in any order, with keys that come twice |
| `StructLayout` | `parseTypeInfoRecur`, the field order, `InitNilEmbeddedStruct` | the recursion as a stack of calls, one action for each way through its loop; beside it Go's rule for selectors (`Selected`), which is not the generator's |
| `EmbeddedPointers` | the emitted `InitNilEmbeddedStruct` and `MarshalCBOR` of one value, by any number of goroutines | one action for each load and store of a pointer |
| `FlattenedMarshal` | the two together | the generator runs on a declaration; then goroutines marshal one value of the type, some of whose pointers are nil |

`MC…` modules give the constants values; `…Proofs` modules hold the theorems.
A comment `(Mutant: …)` above a definition names the plausible mistake that the
definition before it is; it shows that the property in question notices it.

`StructMap` and `FieldCodec` use the grammars in place of the loops of
`ScanForLinks` and `Deferred`. That those loops are this grammar, for every
stream, is what `AlwaysScansOneItem` and `AlwaysReadsOneItem` say.

## Runs

Eight runs pass.

| run | states | shows |
|---|---|---|
| `peeker` | 398 | `IsByteScanner`: over a reader that ends early, ends with data, fails with or without bytes, or answers an empty read with EOF, any sequence of calls is one of a `ByteScanner`. `LastByteFresh`: the byte that would be replayed is the last one taken, whichever method took it. `ReadsInOrder`: the fields are read once and in order, the count is the position, and between two fields nothing is put back, with both header readers |
| `header` | 3421 | `HeaderRoundTrip`, `HeaderOneEncoding`: all arguments, each followed by nothing, a byte, or bytes; and all wires of up to three bytes |
| `deferred_validate` | 55197 | `ReadsOneItem`: the counter is as good as a stack, for success and for the point of failure. `RawIsInput`: Raw is the bytes of the stream. `CounterBounded`: the counter never wraps. `SameVerdict`: the two loops end in the same iteration and agree. `HoldsRaw`, `UnreadIntact`, `KeptUnchanged`: whatever arrays are used again, Raw is the item, nothing is overwritten before it is read, and what a caller has kept changes only when the same `Deferred` is unmarshalled again. `Returns`, `BothReturn`: they end |
| `scan_links` | 42576 | `ScansOneItem`: one item, its links in their order and once, its length; the links before a failure, and a panic exactly at an empty link. `Returns` |
| `pkg_names` | 190024 | two goroutines that generate files: `MapsAgree`, `OneNameEach`, `IsNaming` (refinement), `Answered`; `ImportsMatchBody`: what the code of a file names is what its header imports, under the same name; `ImportsDistinct`: no name twice |
| `struct_tuple` | 328681 | `RoundTrip` into a used struct, with anything after it, for every kind of field; `TupleNoneOfAPart`: nothing cut short, refused half-way or nil unmarshals; `OneEncoding` for any one byte replaced |
| `struct_map` | 163528 | `Compatible`: fields both types have come back, new ones are zero, unknown ones are passed over, for every order of the entries; `LastWins`: of entries with one key the last counts that assigns anything; `MapNoneOfAPart`: nothing cut short or refused half-way unmarshals into a type that has all its fields, entries that come twice included; `KeysSorted` |
| `struct_layout` | 25043 | `SelectsTheSame`: the fields that Go selects and no others, each once; `DeclarationOrder`; `NeverPanics`; `AllLive`: the initialized pointers are enough; `SawTheValue`: each of two goroutines writes the value it was given; `NoNilPanic`: they dereference nil only where two pointers embedded in each other were nil |

Four runs end in a violation; each is a disagreement between the code and what
the repository says of it:

| run | violated | what |
|---|---|---|
| `struct_tuple_width` | `RoundTrip` | `gen.go:1255`: the variable `len` is set by the first integer field and never reset. After an `int8`, an `int16` is decoded as one of 8 bits, and 128 is refused. In the other direction nothing is refused: `testing/cbor_gen.go:384` compares a `uint8` with `MaxUint64` |
| `struct_tuple_overflow` | `OverflowRefused` | `gen.go:843`: the sign is looked at after the truncation; an `int8` field reads 256 as 0 |
| `struct_map_renamed` | `KeysSorted` | `writefile.go:109`: fields are sorted by their Go names, the keys written are those of their tags. `README.md:17` promises RFC 7049 order |
| `struct_layout_nil` | `AllLive` | `gen.go:242`: a pointer embedded in a struct that is itself embedded by value is not initialized by anyone |

The passing runs `struct_tuple`, `struct_map` and `struct_layout` leave these
four cases out (no narrow integer before a wider one; names equal keys; nothing
embedded by pointer within something embedded by value). `OneEncoding`
speaks of `Exact` fields only, whose decoder does not truncate. `Compatible` and
`LastWins` speak of messages that are `Passable`: `ScanForLinks` takes each value that
the receiver does not know. The run has values that it does not take, at which it
fails or panics, and there nothing is claimed. `LastWins` and `MapNoneOfAPart` leave
out what `gen.go:1048-1051` does with an empty byte string after one that is not
empty (`Shrinks`). `SelectsTheSame` is checked, and proved, for declarations in which the
generator's rule and Go's agree; where they do not is said under "Not modelled".

### Bounds

- **Wire format.** The header's sizes are constants. `header` uses two major
  types, radix 10, widths of one and two bytes, so that all arguments and all
  wires can be enumerated. The items of `deferred_validate` and `scan_links` use
  all eight major types, radix 48, arguments 0 to 2 in the first byte, and one
  low value that is invalid. The structs use the real radix, low bits, null and
  tag 42, but widths of one and two bytes only: an `int64` has 16 bits there, and
  "8 bits" stands for any narrower type. Every case of the code's switches is
  still taken: the proofs about headers and loops are for all widths, and the
  boundary values of each width are among the values.
- **Limits.** `MaxLength` (8192) and `ByteArrayMaxLen` (2 MiB) are 3 or 4,
  `MaxMapLen` (4096) is 2, `MaxCid` (512) is 5, `maxCidLength` (100) is 2 or 5;
  values at, below and beyond the first two occur.
  `bytes.MinRead` (512) is 1 and a new array is 3 bytes longer than asked for
  (`Spares`), so that buffers both fit and grow; the theorems are for any.
- **Streams.** For Deferred and ValidateCBOR: every stream of up to three bytes
  over an alphabet with each way through the loop, and longer ones for nesting; the
  arrays are followed for two or three of seven short items (`Followed`), for two
  calls (`MaxCalls`) and one kept slice (`MaxKept`), enough for the array of a kept
  Raw to be used by a second call.
  For ScanForLinks: two items out of fifteen kinds within and after six kinds of
  heads. For structs: whole, followed by more, cut at every byte, or (tuples of up
  to eight bytes) with any one byte replaced by any of 27; for maps also in every
  order, and with any one entry twice, these cut at every byte from the length of the
  message on. Fourteen tuples and nine pairs of maps have,
  between them, every kind of field at the start and behind others.
- **Peeker.** 18 bytes, buffers of up to 4. Its state is three variables and
  the position.
- **Files.** Two goroutines, five paths whose names collide with each other, with
  a default, and with a name made by numbering; four files with a field of every
  kind that names a type, one of which fails. The theorems are for any number.
- **Types.** Three structs embedded in each other; three field names. Two goroutines
  share a value of four types that have one embedded pointer, or two
  embedded in each other, and any number of these set; the theorems are for any number of
  goroutines and pointers. Two pointers embedded in one struct (`TwoPointers`) are
  parsed, and fail in `Emit`. Structs without exported names are embedded too, with
  fields that are declared again less deep (`BehindUnexported`), and fields have the
  names of embedded structs that are deeper (`NamedAsEmbedded`).

### Fairness

A loop goes on by itself: weak fairness of `Step` in `ScanLinks`, of `BothStep`
and of `StepAlone` in `SharedRaw` (and `DeferredValidate`). Whether a function is
called is not assumed. In `GeneratedFile`, for each goroutine: weak fairness of
`Work \/ Learn`, its steps within a call (the Go scheduler), and strong fairness of
`Lock` (a `sync.Mutex` hands itself over to a waiter that starves). No other
run needs any. Deadlock is checked in `pkg_names`, where files are generated
for ever; the other systems stop when the work is done.

## Proofs

Each is for all values of the constants that satisfy the named assumptions of
the modules.

- **`CborProofs`**: `ReadsWhatIsWritten` and `WritesWhatIsRead`, the two
  directions of "one encoding", for any number of major types, any radix, any list
  of widths. Assumed are the ordering of the widths (`SizesAssumption`) and
  that `encoding/binary` reads what it writes (`BigEndianAssumption`); TLC
  evaluates both. The argument: the least width that fits an argument
  (`WidthProperties`) is the only one that holds it canonically (`WidthIs`);
  the first byte determines major type and width (`FirstByteFields`,
  `FirstByteOf`).
  And `CountsAsNested`, why one counter does for a stack: in any stream, what
  follows a head, and what nests in it, can be read as one row of so many items more.
  `Nesting` defines items by a recursive function; that there is one
  (`Solvable`) is shown by building it from the end of the stream backwards, for a
  good head takes at least one byte. That a row of items may be split anywhere
  (`InAnyGroups`) is the induction, again from the end, from which the rest follows.
  And of `Scalars`, `IntegersComeBack` (every integer of `w` bits, the least included) and
  `WhatOverflowMisses` (the arguments that an int field takes for others are
  those of 2^(w-1) or more whose low bits are less, which is the second finding above for
  any width). The provers do not know powers: the two have `Pow2(w) = 2 * Pow2(w - 1)`
  among their hypotheses.
- **`PeekerProofs`**: `TypeCorrect` and `LastByteIsFresh` for any answers of the
  reader; `Implements` (the peeker refines `ByteScanner`) and
  `AlwaysReadsInOrder` for readers without `zero_read`. The inductive
  invariant is `TypeOK /\ LastByteFresh`: that the kept byte is the one before
  the reader's position is what lets `Cursor` go back. For the fields it is
  strengthened by `AtField`, which says for each `step` where the cursor is.
- **`SharedRawProofs`**: of `Deferred`, `TypeCorrect`,
  `AlwaysRawIsInput` and `AlwaysCounterBounded`. `RawIsInput` says nothing while a
  call is under way; `KeptIsTaken` does: the buffer is what was taken. An iteration
  keeps it because of `WritesWhatIsRead`. `CounterBounded` is inductive, each header
  being one byte at least (`CounterStep`); `StreamAssumption` says that
  streams are shorter than 2^50 bytes. Of both, `ValidateTypeCorrect` and
  `AlwaysSameVerdict`: the invariant is `InStep` (same byte, same counter), with
  `NotCalledYet` and `SomethingRead` (an item has at least one byte, so that
  `Raw # << >>` tells success).
  `AlwaysReadsOneItem`: success and failure are those of the grammar, at the same
  byte, for any nesting. The invariant is `OneItemLeft`: the item at `start` is
  what `remaining` items at `pos` are; each iteration keeps it by
  `CountsAsNested`, and the counter does not wrap by `CounterBounded`.
  `AlwaysValidIsOneItem` carries it over to `ValidateCBOR` by `InStep`.
  Of the arrays: `AlwaysHoldsRaw`, `AlwaysUnreadIntact`,
  `AlwaysKeptUnchanged`, for any stream, any growth of the buffer, any number of
  calls and kept slices. `SharedIsBoth` says that nothing of the above is lost. The
  argument for the bytes still unread: a buffer in the array of the reader has as
  many bytes as the reader has passed, or fewer (`BufferHoldsBuf`), and there is
  room in it only up to the end. That for kept slices: the array of each belongs
  to the `Deferred` of that call (`KeptIsOwned`) until this is called again.
- **`ScanLinksProofs`**: `TypeCorrect`; `AlwaysCounts`, that until an error the
  count is what was taken; `AlwaysInPlace`, that the links called back with stand in
  what was taken, tag and header included, in their order and without overlap. They
  hold for any `cid.Cast` and any limit.
  `AlwaysScansOneItem`: a scan takes one item of the grammar, calls back for its
  links and no others, in their order, and fails where it fails, by the same
  argument as for `Deferred`. A panic is an item that stops at an empty link (`PanicHead`),
  so that the grammar tells it from an error, and the theorem too.
  But `ScanForLinks` limits no map (`utils.go:101`), so
  that the counter may wrap, and then it is false; the theorem is that it holds
  as long as the counter fits (`CounterFits`). `CountableFits` says which
  streams need no such condition: those none of whose headers announces so many items
  that they would not fit in 64 bits if every byte of the stream announced as many
  (2^32 in less than 4 GiB). TLC evaluates that the streams of the run are such
  (`CountableAssumption`).
- **`GeneratedFileProofs`**: of `PkgNames`, `TypeCorrect`, `AlwaysMapsAgree`,
  `AlwaysOneNameEach` and `Implements` (`PkgNames` refines `PkgNaming`). `MapsAgree`
  holds only while the mutex is free; the invariant says what holds inside:
  `Mutex`, `InHand` and `PathsOfNames`, in which the maps differ by the one name in
  hand. Of files, `FilesAreCallers` (so that all this holds of them),
  `FilesTypeCorrect`, `AlwaysImportsMatchBody` and `AlwaysImportsDistinct`. The
  invariant is that a name once told stays what the maps say (`ToldNames`), and that
  the list has the fields passed so far and no others (`ListCovers`, `ListNeeded`).
- **`FlattenedMarshalProofs`**, of the parser (`StructLayout`), for any
  declarations that Go accepts and in which no struct embeds itself:
  `OrderNeverPanics`, `AlwaysDeclarationOrder`, `AlwaysSelectsTheSame`,
  `AlwaysAllLive`. The invariant (`LayoutIInv`): the stack is the place of a member
  (`StackOK`); each place that was passed has a field of its name that is no
  worse, being less deep, or as deep and later, or itself (`SeenFound`);
  the fields are places that were passed, each name once, at the depth that
  `depths` says (`FieldsOK`, `DepthsOK`), and the recorded pointers are those of
  the root type that were passed (`EmbedsOK`). When the parser is done every place was
  passed.
  `DeclsAssumption` ranks the types, so that no place is deeper than there are
  structs. An order puts the fields one for one (`Reordered`), because the names are
  unique; that is why the assertion of `writefile.go:48-51` holds.
  `AlwaysSelectsTheSame` compares the fields with Go's own rule, in which a selector may
  go through unexported embedded structs and may name an embedded struct (`Selectors`,
  `Selected`). The places that the parser comes to are some of these
  (`PlacesSelect`, `SelectorsReached`); it agrees with Go under three hypotheses, each
  of which is where it would not. `Unambiguous`: for the name of each place that the
  parser comes to, Go selects something (of two least deep ones it selects none, and the generated code does not
  compile). `NoneBehindUnexported`: what Go selects is not behind an unexported
  embedded struct. `NoneHiddenByEmbedded`: what Go selects is not an embedded struct.
  `AlwaysAllLive` is under `NoPointerInValue`; without that it is false, which is the
  run `struct_layout_nil`.
  Of goroutines that share a value (`EmbeddedPointers`): `ShareTypeCorrect`,
  `AlwaysSawTheValue`,
  `AlwaysNoNilPanic`, for any number of goroutines and any depth. Pointers that
  were given are never replaced (`GivenChain`), so that a goroutine is in a given
  struct exactly as deep as these go (`Placed`); below, whoever got past the
  last given struct has seen its pointer set (`Passed`), and one that nobody
  disturbs is in structs of its own (`Alone`).
  `FlatImplementsLayout` and `FlatImplementsShare` say that the two together do
  what each does, so that all of this holds of `FlatSpec`.

- **`FieldCodecProofs`**: three theorems about every kind of field, proved kind by
  kind, that carry the proofs about structs. `FieldLocal`: a decoder takes bytes that
  are there and looks at no others, so that it reads the same wherever these bytes
  are. `FieldBack`: what the encoder of a field writes, its decoder reads back,
  whatever is around it, and what the encoder refused half-way it does not read.
  `FieldAgain`: what the decoder of an `Exact` field takes, whoever sent it, is what
  the encoder writes of the value. A loop writes its parts one behind another
  (`Chain`, `Laid`), and the loop that reads finds each where the one before ended
  (`ChainRead`, `Along`). The keys of a map come in one order only (`KeyOrder` is
  total, `SortedIs`), and since no two are equal the entries make the same map again.
  A `Deferred` as a field comes back because an item is the same item wherever it is,
  which is an induction over the items like those of `CborProofs`.
- **`CodecProofs`**, of headers (`HeaderCodec`): `AlwaysHeaderRoundTrip`,
  `AlwaysHeaderOneEncoding`, the theorems of `CborProofs` as invariants.

  Of tuples (`StructTuple`), for any list of struct types with any number of fields of any
  kinds: `AlwaysRoundTrip`, `AlwaysTupleNoneOfAPart` and `AlwaysOneEncoding`.
  The inductive invariant (`TupleIInv`) says for the sender that `out` is the header and
  the chain of the fields marshalled so far (`Marshals`), and for the receiver, that
  what arrived is `out`, or less (`Sending`), and that the fields read so far are those
  that were sent, each at its place (`AsSent`, in `Progress`).
  `AlwaysRoundTrip` is under `WideEnough`: no field is decoded by code emitted for less bits
  than it has. Without that it is false, which is the run `struct_tuple_width`.
  `AlwaysTupleNoneOfAPart` needs no such condition: whatever the last field that was cut
  reads as, it would have had to look behind the end.
  `AlwaysOneEncoding` is about any input, also one that nobody marshalled. A header
  is read only as it is written (`HeaderRead`), and so, by `FieldAgain`, are the
  fields; the invariant (`OnceInv`) says that the header and the fields read so
  far would be written as the bytes taken so far. It needs of `TupleIInv` that
  a field is zero before it is read, since an empty array leaves a slice as it was.

  Of maps (`StructMap`), for any two struct types that agree on the fields they
  share: `AlwaysCompatible`, `AlwaysLastWins`, `AlwaysMapNoneOfAPart`,
  `AlwaysKeysSorted`. The inductive invariant is `MapIInv`. Its first half, `MapSends`,
  is about the sender, as for tuples: `out` is the header and the chain of entries, in
  the order of the names. Its second half,
  `MapReads`, is about the receiver, that `Announced - left` of the entries that arrived were
  read, that `pos` is where the next one stands, and that each field has what the
  last of these entries that assigns anything gave it (`ReadTo`). It is kept because an
  entry comes back from wherever it is (`EntryBack`) and an unknown one is passed over
  (`LinkedItemHeld`).
  `AlwaysCompatible` and `AlwaysLastWins` are of messages of no more entries than
  `MaxLength` (`gen.go:1492`), and the properties themselves of those that are `Passable`:
  each value that the receiver does not know is one item for `ScanForLinks`. Which values
  are is proved, kind by kind (`FieldScanned`): all that the encoder writes, but a
  CID longer than the buffer of `ScanForLinks` (`MaxLink` here, `maxCidLength` of
  `utils.go`, which is less than the `MaxCid` bytes that `ReadCid` takes) and a
  `Deferred` whose bytes this scan refuses or panics at (`LinksFit`). The argument: what is
  written is a row of items (`IsRow`), a header makes one item of the row behind
  it (`HeadedRow`), and chains of rows are rows (`AllRows`).
  `Compatible` compares with what was written; without repetitions the entries that
  arrived are those that were sent in another order, and so as long (`AsLong`, from an
  injection of the ones into the others, `NoMoreBytes`).
  `AlwaysMapNoneOfAPart` is about the message as it arrived, with its repetitions: each of
  its entries is read where the message has it, so that if some bytes were missing one would
  have been read behind the end. It needs no condition but that no entry `Shrinks`, after
  which the decoder is out of step.
  `AlwaysKeysSorted` is under the hypothesis that each key is the name of its field;
  without that it is false, which is the run `struct_map_renamed`.

  Assumed are `CodecAssumption` and `WordAssumption` of `FieldCodec` (limits are 64-bit
  numbers, null has its own first byte, no CID is empty, a bit doubles),
  `StructsAssumption` and `PairsAssumption` (fields, and values of their Go types), and
  `OrderAssumption` (of two numbers in one width the greater is the later in the order of
  bytes, which is what big endian is for); TLC evaluates them.

Only model-checked is liveness (`Returns`, `BothReturn`, `Answered`), which the
provers cannot do. Every invariant and every other property of a passing run is
stated by a theorem.

## Not modelled, and why

- Templates as text, files, `go/format`: wording and I/O. Three templates emit
  code that does not compile (`big.Int`, slices of `cid.Cid`, slices of `int8`): there
  is no behaviour. Of `go/format` only its refusal of two pointers embedded in
  one struct (`gen.go:88`) is modelled, as a failure of `Emit`.
- The test generator (`testgen`) and the generated test code: inputs and evidence.
- `CborTime` as JSON, which is that of `time.Time`.
- `zero_read` (no byte, no error) is a quirk of `Peeker` that no run uses:
  `ReadByte` then returns a zero byte that is not in the stream, so that
  `IsByteScanner` is false. `io.Reader` discourages the answer.
- `ScanForLinks` with strings of 2^63 bytes or more (negative as an `int`) and
  maps of 2^63 entries (zero in 64 bits): not among the inputs.
- Types that embed themselves by pointer, on which `parseTypeInfoRecur` does not
  end (`gen.go:246`).
- Slices nested deeper than two: the generator's recursion is the same at each
  level.
- What the decoder of a byte string does after `Shrinks` (`gen.go:1051`): it is in the
  model, and no property of it can hold.
- What an unknown field leaves behind when its scan fails: the error is dropped
  at `gen.go:1592-1597` and the decoder goes on; a panic (`utils.go:89`, the tag 42
  with an empty byte string) goes through to the caller. `StructMap!Unknown` and
  `UnknownPanics` do the same, and the properties of `struct_map` are about messages that
  can be passed over (`Passable`), or receivers that know all fields.
  Such a failure needs no damage: a CID of more than
  100 bytes in an unknown field is enough, which `WriteCid` writes and `ReadCid`
  takes up to 512 bytes of (`utils.go:79`, `utils.go:606`). The decoder goes on within
  the CID, where the code says that it ignores the field (`gen.go:1593`).
  What `Compatible` says is false for such a message.
- Where the generator's rule for fields is not Go's, `SelectsTheSame` is false, and
  the declarations of the run have no such case: Go promotes the exported fields of an unexported
  embedded struct, which `gen.go:229` passes over, so that they are not serialized; and the
  name of an embedded struct hides a deeper field of that name, which
  `gen.go:240-260` lists all the same, so that the generated `t.Name` is the
  struct. Two least deep fields of one name are excluded as well, and methods, whose
  names Go's rule counts too, are not in the model.

## Plan

Done, in this order: the peeker and its refinement; headers with their proofs;
Deferred, its proofs, and the grammar; ValidateCBOR and its agreement;
ScanForLinks; package names; scalars and field codecs; tuples; maps; layout; then
the import lists of files, the arrays a Deferred shares, goroutines that marshal
one value, nil receivers, keys that come twice, every other kind of field, and the
proofs of all of these but the codecs of structs; then the grammar as a function, the
proofs that the three loops read what it says, those of the parser, those of tuples, and
those of maps.

Left, the model:

1. The decoders of `FieldCodec` on a `Peeker` instead of a byte sequence, as
   `PeekedFields` has it for one kind, for all; and a stream of several structs.
2. `ScanLinks` with lengths about 2^(w-1) on a reader that seeks.

Left, the proofs: what `ScanLinks` reads of strings and maps of 2^(w-1), once the model
has a reader that seeks.
