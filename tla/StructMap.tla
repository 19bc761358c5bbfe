----------------------------- MODULE StructMap -----------------------------
(***************************************************************************)
(* Struct types whose MarshalCBOR and UnmarshalCBOR were generated in the  *)
(* map representation (gen.go, writefile.go): a value of one is marshalled *)
(* and what arrives of it is unmarshalled into another, an older or newer  *)
(* version of it or the same.                                              *)
(***************************************************************************)
EXTENDS StructCodec

CONSTANTS
  Pairs,              \* [sent, into]: sequences of fields, as the types declare them
  MapArrivals(_, _)   \* what may arrive when fields and their values were sent: entries of
                      \* a field and a value, and a part of their bytes or more than those

VARIABLES
  sent,       \* the fields of the type that is marshalled, in the order of its code
  into,       \* the fields of the type that is unmarshalled into
  entries,    \* the entries of what has arrived
  left        \* entries that are still to be read

mapVars == <<sent, t, out, entries, input, pos, into, u, bytesRead, left, state>>

\* A struct type has no two fields of one name, and none whose decoders compile has two
\* of one key.  The variable len starts from 0 for each field (gen.go:1521), and is the
\* width it has.
IsStructType(fields) ==
  /\ fields \in Seq(Fields)
  /\ \A j \in DOMAIN fields :
       /\ IsField(fields[j]) /\ fields[j].read = fields[j].w
       /\ \A v \in Values(fields[j]) : IsValue(fields[j], v)
       /\ \A k \in DOMAIN fields : fields[j].name = fields[k].name \/ fields[j].key = fields[k].key => j = k

\* Fields with one key are the same in both types.
ASSUME PairsAssumption ==
  \A pair \in Pairs :
    /\ IsStructType(pair.sent) /\ IsStructType(pair.into)
    /\ Len(pair.sent) \in Arguments
    /\ \A j \in DOMAIN pair.sent, k \in DOMAIN pair.into :
         pair.sent[j].key = pair.into[k].key => pair.sent[j] = pair.into[k]

\* Of two lengths in one width the greater is the later in the order of bytes.
ASSUME OrderAssumption ==
  \A i \in 1 .. Len(Widths), v, w \in 0 .. MaxLength :
    v < w /\ w < Limit(i) => Lexicographic(BigEndian(v, Widths[i]), BigEndian(w, Widths[i]))

-----------------------------------------------------------------------------

\* The fields by their Go names, not by their keys.
WriteMapEncodersToFile(fields) ==
  LET all   == { fields[j] : j \in DOMAIN fields }
      names == Sorted({ f.name : f \in all })
  IN  [j \in DOMAIN names |-> CHOOSE f \in all : f.name = names[j]]

MapInit ==
  /\ \E pair \in Pairs :
       /\ sent = WriteMapEncodersToFile(pair.sent)
       /\ into = pair.into
  /\ t = << >>
  /\ out = << >>
  /\ entries = << >>
  /\ input = << >>
  /\ pos = 0
  /\ u = << >>
  /\ bytesRead = 0
  /\ left = 0
  /\ state = "new"

\* MarshalCBOR of a nil pointer to the struct.
MarshalMapNil ==
  /\ state = "new"
  /\ out' = << CborNull >>
  /\ state' = "marshalled"
  /\ UNCHANGED <<sent, t, entries, input, pos, into, u, bytesRead, left>>

MarshalMapHeader ==
  /\ state = "new"
  /\ out' = WriteMajorTypeHeader(MajMap, Len(sent))
  /\ state' = "marshal"
  /\ UNCHANGED <<sent, t, entries, input, pos, into, u, bytesRead, left>>

\* The key of a field, and its value.
Entry(f, v) == AndThen(WriteString(f.key), WriteField(f, v))

MarshalMapField ==
  /\ state = "marshal"
  /\ Len(t) < Len(sent)
  /\ LET f == sent[Len(t) + 1]
     IN  \E v \in Values(f) : t' = Append(t, v) /\ Put(Entry(f, v))
  /\ UNCHANGED <<sent, entries, input, pos, into, u, bytesRead, left>>

MarshalMapEnd ==
  /\ state = "marshal"
  /\ Len(t) = Len(sent)
  /\ state' = "marshalled"
  /\ UNCHANGED <<sent, t, out, entries, input, pos, into, u, bytesRead, left>>

\* The bytes of entries, each a field and a value of it.
Message(es) ==
  All(WriteMajorTypeHeader(MajMap, Len(es)), [k \in DOMAIN es |-> Entry(es[k].f, es[k].v)]).bytes

\* Entries of fields that were sent, with the values of each, in any order, and
\* perhaps with others.
Carries(es) ==
  /\ Len(es) \in Arguments
  /\ es = [k \in 1 .. Len(es) |-> es[k]]
  /\ \A k \in DOMAIN es :
       /\ es[k].f \in { sent[j] : j \in DOMAIN sent }
       /\ es[k].v \in Values(es[k].f)
       /\ Entry(es[k].f, es[k].v).ok
  /\ \A j \in DOMAIN sent : \E k \in DOMAIN es : es[k].f = sent[j] /\ es[k].v = t[j]

\* Of what was refused, what had been written.
ArriveMap ==
  /\ state \in {"marshalled", "refused"}
  /\ IF state = "refused" \/ out = << CborNull >>
     THEN input' = out /\ UNCHANGED entries
     ELSE \E m \in MapArrivals(sent, t) :
            /\ Carries(m.entries)
            /\ m.bytes \in Seq(Byte)
            /\ Begins(m.bytes, Message(m.entries)) \/ Begins(Message(m.entries), m.bytes)
            /\ input' = m.bytes /\ entries' = m.entries
  /\ state' = "arrived"
  /\ UNCHANGED <<sent, t, out, pos, into, u, bytesRead, left>>

-----------------------------------------------------------------------------

IsStruct(hd) == hd.ok /\ hd.maj = MajMap /\ hd.extra <= MaxLength

BeginMap(hd) ==
  /\ u' = [j \in DOMAIN into |-> Zero(into[j])]
  /\ pos' = IF hd.ok THEN hd.n ELSE 0
  /\ bytesRead' = IF hd.ok THEN hd.n ELSE 0
  /\ left' = hd.extra
  /\ state' = IF IsStruct(hd) THEN "unmarshal" ELSE "error"

UnmarshalMapHeader ==
  /\ state = "arrived"
  /\ BeginMap(CborReadHeaderBuf(input, 0))
  /\ UNCHANGED <<sent, t, out, entries, input, into>>

\* The key of the next entry, and where its value is.
name  == ReadString(input, pos)
value == pos + name.n

BadName ==
  /\ state = "unmarshal"
  /\ left > 0
  /\ ~name.ok
  /\ state' = "error"
  /\ UNCHANGED <<sent, t, out, entries, input, pos, into, u, bytesRead, left>>

\* The field takes the value that was read.  (Mutant: only the first one.)
FirstStays(j, v) == IF u[j] = Zero(into[j]) THEN v ELSE u[j]
Taken(j, v) == v

\* The value r of an entry whose key is that of field j.
AssignEntry(j, r) ==
  /\ bytesRead' = bytesRead + name.n + r.n
  /\ \/ /\ r.ok
        /\ u' = [u EXCEPT ![j] = Taken(j, r.v)]
        /\ pos' = value + r.n
        /\ left' = left - 1
        /\ UNCHANGED state
     \/ /\ ~r.ok
        /\ state' = "error"
        /\ UNCHANGED <<u, pos, left>>

\* The struct has a field of that name.
Known ==
  /\ state = "unmarshal"
  /\ left > 0
  /\ name.ok
  /\ \E j \in DOMAIN into :
       into[j].key = name.v /\ AssignEntry(j, ReadField(into[j], input, value, u[j]))
  /\ UNCHANGED <<sent, t, out, entries, input, into>>

\* How far ScanForLinks gets with an unknown value, wherever that is and whatever it
\* returns.  (Mutant: the value is not scanned.)
NotSkipped(s, p) == [ok |-> TRUE, end |-> p, links |-> << >>]
Skipped(s, p) == LinkedItemAt(s, p)

PassOver(scan) ==
  /\ pos' = scan.end
  /\ bytesRead' = bytesRead + name.n + IF scan.ok THEN scan.end - value ELSE 0

Unknown ==
  /\ state = "unmarshal"
  /\ left > 0
  /\ name.ok
  /\ \A j \in DOMAIN into : into[j].key # name.v
  /\ ~Panicked(Skipped(input, value))
  /\ PassOver(Skipped(input, value))
  /\ left' = left - 1
  /\ UNCHANGED <<sent, t, out, entries, input, into, u, state>>

\* An error is dropped, and a panic is not.
UnknownPanics ==
  /\ state = "unmarshal"
  /\ left > 0
  /\ name.ok
  /\ \A j \in DOMAIN into : into[j].key # name.v
  /\ Panicked(Skipped(input, value))
  /\ pos' = Skipped(input, value).end
  /\ state' = "panic"
  /\ UNCHANGED <<sent, t, out, entries, input, into, u, bytesRead, left>>

UnmarshalMapEnd ==
  /\ state = "unmarshal"
  /\ left = 0
  /\ state' = "ok"
  /\ UNCHANGED <<sent, t, out, entries, input, pos, into, u, bytesRead, left>>

MapNext ==
  \/ MarshalMapNil \/ MarshalMapHeader \/ MarshalMapField \/ MarshalMapEnd
  \/ ArriveMap
  \/ UnmarshalMapHeader \/ BadName \/ Known \/ Unknown \/ UnknownPanics \/ UnmarshalMapEnd

MapSpec == MapInit /\ [][MapNext]_mapVars

-----------------------------------------------------------------------------

\* The whole message has arrived.
MapArrived ==
  /\ state \in {"unmarshal", "ok", "error", "panic"} /\ out # << CborNull >>
  /\ Begins(input, Message(entries))

\* ScanForLinks takes each value that is unknown to the receiver for one item: it does
\* not one with a link that is longer than maxCidLength or has no byte, nor a Deferred
\* whose own bytes are no item.
IsLinkedItem(b) == LinkedItemAt(b, 0).ok /\ LinkedItemAt(b, 0).end = Len(b)
Passable ==
  \A k \in DOMAIN entries :
    \/ \E j \in DOMAIN into : into[j].key = entries[k].f.key
    \/ IsLinkedItem(WriteField(entries[k].f, entries[k].v).bytes)

Repeated == \E j, k \in DOMAIN entries : j # k /\ entries[j].f.key = entries[k].f.key

\* The entries for a field, but for those whose value its decoder leaves alone: a null
\* for a pointer, and an empty array for a slice.
Assigns(f, v) == f.kind \in Nullable \cup Slices => v # << >>
Assigned(f) == { k \in DOMAIN entries : entries[k].f.key = f.key /\ Assigns(f, entries[k].v) }

Expected(f) ==
  IF Assigned(f) = {} THEN Zero(f)
  ELSE Same(f, entries[CHOOSE k \in Assigned(f) : \A l \in Assigned(f) : l <= k].v)

AllReadable ==
  \A j \in DOMAIN into, k \in DOMAIN entries :
    into[j].key = entries[k].f.key => Readable(entries[k].f, entries[k].v)

ReadsTo(total) ==
  IF AllReadable
  THEN /\ state \notin {"error", "panic"}
       /\ state = "ok" =>
            /\ \A j \in DOMAIN into : u[j] = Expected(into[j])
            /\ pos = total
            /\ bytesRead = total
  ELSE state # "ok"

\* Fields that both types have come back, fields that only the receiver has are
\* zero, and those that only the sender has are passed over, in whatever order the
\* entries arrive and whatever follows them (roundtrip_test.go:375-470).
Compatible == MapArrived /\ Passable /\ ~Repeated => ReadsTo(Len(out))

\* After a byte string, an empty one for the same field is read as one that is as
\* long (gen.go:1048-1051).
Shrinks(f) ==
  f.kind = "bytes" /\ \E j, k \in DOMAIN entries :
    /\ j < k /\ entries[j].f.key = f.key /\ entries[k].f.key = f.key
    /\ entries[j].v # << >> /\ entries[k].v = << >>

\* Of entries with one key the last one counts that is neither null nor empty, as if
\* the others were not there, and the message is read to its end: but for an empty
\* byte string after one that is not (gen.go:1490-1594).
LastWins ==
  MapArrived /\ Passable /\ (\A j \in DOMAIN into : ~Shrinks(into[j])) => ReadsTo(Len(Message(entries)))

MapRefusal == \E j \in DOMAIN t : ~Entry(sent[j], t[j]).ok

\* A message that is cut short, wherever and whatever is repeated in it, or was refused
\* half-way, does not unmarshal into a type that has all its fields, and what was nil
\* into none (gen.go:1357-1359): but for an empty byte string after one for the same
\* field that is not, which takes what follows it.
MapNoneOfAPart ==
  state = "ok" =>
    /\ out # << CborNull >>
    /\ (\A k \in DOMAIN sent : \E j \in DOMAIN into : into[j].key = sent[k].key)
       /\ (\A j \in DOMAIN into : ~Shrinks(into[j]))
         => ~MapRefusal /\ Len(input) >= Len(Message(entries))

\* The keys are written in the order of their encodings, which is that of RFC 7049 and
\* DAG-CBOR (README.md:15-19).
KeysSorted ==
  state = "marshalled" /\ out # << CborNull >> => \A j, k \in DOMAIN sent : j < k =>
    Lexicographic(WriteString(sent[j].key).bytes, WriteString(sent[k].key).bytes)
=============================================================================
