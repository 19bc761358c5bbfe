---------------------------- MODULE MCStructMap ----------------------------
EXTENDS StructMap, MCStructs

Num == Field(<< 97, 99 >>, "uint64", 16)
Txt == Field(<< 97 >>, "string", 0)
Raw == Field(<< 98 >>, "bytes", 0)
Ptr == Field(<< 99, 97 >>, "*cid", 0)
Map == Field(<< 66 >>, "map", 0)
Arr == Field(<< 100 >>, "[]struct", 0)
Def == Field(<< 122 >>, "*deferred", 0)
Lst == Field(<< 97, 98 >>, "[]*struct", 0)
Fix == Field(<< 100 >>, "bytearray", 2)
Sub == Field(<< 120, 120, 120 >>, "*struct", 0)

\* The same fields in another order, more of them, and fewer: then each kind of
\* value is one of an unknown field.
MCPairs ==
  { [sent |-> << Num, Raw, Ptr >>, into |-> << Ptr, Num, Raw >>],
    [sent |-> << Raw, Sub >>, into |-> << Txt, Raw, Arr, Sub >>],
    [sent |-> << Num, Map, Ptr >>, into |-> << Num >>],
    [sent |-> << Arr, Def, Txt >>, into |-> << Txt >>],
    [sent |-> << Sub, Raw, Txt >>, into |-> << >>],
    [sent |-> << Def, Map >>, into |-> << Def, Map >>],
    [sent |-> << Arr, Sub >>, into |-> << Sub, Arr >>],
    [sent |-> << Lst, Fix >>, into |-> << Lst, Fix, Num >>],
    [sent |-> << Lst, Fix >>, into |-> << Fix >>] }

InOrder(fields, values, p) == [j \in DOMAIN fields |-> [f |-> fields[p[j]], v |-> values[p[j]]]]

Orders(k) == { p \in [1 .. k -> 1 .. k] : \A i, j \in 1 .. k : p[i] = p[j] => i = j }

Sends(es) == [entries |-> es, bytes |-> Message(es)]
Follows(m) == [m EXCEPT !.bytes = @ \o << 24 >>]
Cuts(m, least) == { [m EXCEPT !.bytes = SubSeq(@, 1, k)] : k \in least .. (Len(m.bytes) - 1) }

\* A key that comes again, before the others or after them, with one of two values.
Again(f) == { v \in MCValues(f) : v = Zero(f) /\ WriteField(f, v).ok }
              \cup { CHOOSE v \in MCValues(f) : v # Zero(f) /\ WriteField(f, v).ok }
Twice(es) ==
  UNION { { Append(es, [f |-> es[j].f, v |-> v]) : v \in Again(es[j].f) } \cup
          { << [f |-> es[j].f, v |-> v] >> \o es : v \in Again(es[j].f) } :
            j \in DOMAIN es }

\* The whole message, or a part of it: of one with a key twice, a part that is at least
\* as long as the message without.
AnyOrderOrCut(fields, values) ==
  LET written == Sends(InOrder(fields, values, [j \in DOMAIN fields |-> j]))
      As == { Sends(InOrder(fields, values, p)) : p \in Orders(Len(fields)) }
      twice == { Sends(es) : es \in Twice(written.entries) }
  IN  As \cup { Follows(m) : m \in As } \cup twice
        \cup Cuts(written, 0) \cup UNION { Cuts(m, Len(written.bytes)) : m \in twice }

\* testing/types.go, RenamedFields: Foo with the tag foo, and Bar with the tag beep.
RenamedFields ==
  << [Field(<< 70, 111, 111 >>, "int", 16) EXCEPT !.key = << 102, 111, 111 >>],
     [Field(<< 66, 97, 114 >>, "string", 0) EXCEPT !.key = << 98, 101, 101, 112 >>] >>
RenamedPairs == { [sent |-> RenamedFields, into |-> RenamedFields] }
=============================================================================
