---------------------------- MODULE StructTuple ----------------------------
(***************************************************************************)
(* A struct type whose MarshalCBOR and UnmarshalCBOR were generated in the *)
(* tuple representation (gen.go): one value is marshalled, what arrives of *)
(* it, or in place of it, is unmarshalled into a struct used before.       *)
(***************************************************************************)
EXTENDS StructCodec

CONSTANTS
  Structs,      \* struct types: sequences of fields
  TupleArrivals(_)   \* what may arrive when a byte sequence was sent

VARIABLES
  type,       \* the struct type, as its decoder was generated
  i           \* how many fields are done

tupleVars == <<type, t, out, input, pos, u, bytesRead, i, state>>

-----------------------------------------------------------------------------

\* The generator's variable len: it is set by the first field of these types and
\* then left alone, so that it is the width of all of them.
FirstSized(fields, j) ==
  CHOOSE k \in 1 .. j :
    fields[k].kind \in SizedInts /\ \A l \in 1 .. (k - 1) : fields[l].kind \notin SizedInts

emitCborUnmarshalStructTuple(fields) ==
  [j \in DOMAIN fields |->
     IF fields[j].kind \in SizedInts
     THEN [fields[j] EXCEPT !.read = fields[FirstSized(fields, j)].w]
     ELSE fields[j]]

ASSUME StructsAssumption ==
  \A fields \in Structs :
    /\ fields \in Seq(Fields)
    /\ Len(fields) \in Arguments
    /\ \A f \in { emitCborUnmarshalStructTuple(fields)[j] : j \in DOMAIN fields } :
         IsField(f) /\ \A v \in Values(f) : IsValue(f, v)

\* What a struct holds that was used before.
Used(fields) == [j \in DOMAIN fields |-> CHOOSE v \in Values(fields[j]) : v # Zero(fields[j])]

TupleInit ==
  /\ \E fields \in Structs : type = emitCborUnmarshalStructTuple(fields)
  /\ t = << >>
  /\ out = << >>
  /\ input = << >>
  /\ pos = 0
  /\ u = Used(type)
  /\ bytesRead = 0
  /\ i = 0
  /\ state = "new"

-----------------------------------------------------------------------------

\* MarshalCBOR of a nil pointer to the struct.
MarshalTupleNil ==
  /\ state = "new"
  /\ out' = << CborNull >>
  /\ state' = "marshalled"
  /\ UNCHANGED <<type, t, input, pos, u, bytesRead, i>>

MarshalTupleHeader ==
  /\ state = "new"
  /\ out' = WriteMajorTypeHeader(MajArray, Len(type))
  /\ state' = "marshal"
  /\ UNCHANGED <<type, t, input, pos, u, bytesRead, i>>

MarshalTupleField ==
  /\ state = "marshal"
  /\ i < Len(type)
  /\ \E v \in Values(type[i + 1]) : t' = Append(t, v) /\ Put(WriteField(type[i + 1], v))
  /\ i' = i + 1
  /\ UNCHANGED <<type, input, pos, u, bytesRead>>

MarshalTupleEnd ==
  /\ state = "marshal"
  /\ i = Len(type)
  /\ state' = "marshalled"
  /\ UNCHANGED <<type, t, out, input, pos, u, bytesRead, i>>

\* Of what was refused, what had been written.
ArriveTuple ==
  /\ state \in {"marshalled", "refused"}
  /\ input' \in IF state = "refused" THEN {out} ELSE TupleArrivals(out)
  /\ input' \in Seq(Byte)
  /\ state' = "arrived"
  /\ UNCHANGED <<type, t, out, pos, u, bytesRead, i>>

\* Whether the header of the input is that of the struct.
IsOfType(hd) == hd.ok /\ hd.maj = MajArray /\ hd.extra = Len(type)

\* The struct starts from zero, and so does the count.
BeginTuple(hd) ==
  /\ u' = [j \in DOMAIN type |-> Zero(type[j])]
  /\ i' = 0
  /\ pos' = IF hd.ok THEN hd.n ELSE 0
  /\ bytesRead' = IF hd.ok THEN hd.n ELSE 0
  /\ state' = IF IsOfType(hd) THEN "unmarshal" ELSE "error"

UnmarshalTupleHeader ==
  /\ state = "arrived"
  /\ BeginTuple(CborReadHeaderBuf(input, 0))
  /\ UNCHANGED <<type, t, out, input>>

AssignField(r) ==
  /\ bytesRead' = bytesRead + r.n
  /\ \/ /\ r.ok
        /\ u' = [u EXCEPT ![i + 1] = r.v]
        /\ pos' = pos + r.n
        /\ i' = i + 1
        /\ UNCHANGED state
     \/ /\ ~r.ok
        /\ state' = "error"
        /\ UNCHANGED <<u, pos, i>>

UnmarshalTupleField ==
  /\ state = "unmarshal"
  /\ i < Len(type)
  /\ AssignField(ReadField(type[i + 1], input, pos, u[i + 1]))
  /\ UNCHANGED <<type, t, out, input>>

UnmarshalTupleEnd ==
  /\ state = "unmarshal"
  /\ i = Len(type)
  /\ state' = "ok"
  /\ UNCHANGED <<type, t, out, input, pos, u, bytesRead, i>>

TupleNext ==
  \/ MarshalTupleNil \/ MarshalTupleHeader \/ MarshalTupleField \/ MarshalTupleEnd
  \/ ArriveTuple
  \/ UnmarshalTupleHeader \/ UnmarshalTupleField \/ UnmarshalTupleEnd

TupleSpec == TupleInit /\ [][TupleNext]_tupleVars

-----------------------------------------------------------------------------

TupleRefusal == \E j \in DOMAIN t : ~WriteField(type[j], t[j]).ok
Accepted ==
  out # << CborNull >> /\ ~TupleRefusal /\ \A j \in DOMAIN type : Readable(type[j], t[j])

TupleArrived == Begins(input, out)

\* What is marshalled unmarshals to the same struct, whatever the struct held
\* before and whatever follows in the stream, and both return the length of it
\* (roundtrip_test.go:250-288); or it was refused half-way, or has a null where
\* none is read, and never unmarshals to anything (gen.go:612, 1119).
RoundTrip ==
  state \in {"unmarshal", "ok", "error"} /\ TupleArrived =>
    IF Accepted
    THEN /\ state # "error"
         /\ state = "ok" =>
              /\ \A j \in 1 .. Len(type) : u[j] = Same(type[j], t[j])
              /\ pos = Len(out)
              /\ bytesRead = Len(out)
    ELSE state # "ok"

\* What is cut short does not unmarshal.
TupleNoneOfAPart ==
  state = "ok" => \A k \in 0 .. (Len(out) - 1) : input # SubSeq(out, 1, k)

Remarshalled ==
  All(WriteMajorTypeHeader(MajArray, Len(type)), [j \in DOMAIN type |-> WriteField(type[j], u[j])])

\* What is unmarshalled into exact fields marshals to the bytes that were read: as
\* the headers are minimal (utils.go:266, 278, 290, 302), a struct of them has one
\* encoding only.
OneEncoding ==
  state = "ok" /\ (\A j \in DOMAIN type : Exact(type[j])) =>
    Remarshalled = Wrote(SubSeq(input, 1, bytesRead))

\* An int field never takes another value than the one in the stream, the code
\* having a "positive overflow" for it (gen.go:840-846).
OverflowRefused ==
  state = "ok" =>
    \A j \in DOMAIN type : j = 1 /\ type[j].kind = "int" =>
      u[j] = Meant(CborReadHeaderBuf(input, CborReadHeaderBuf(input, 0).n))
=============================================================================
