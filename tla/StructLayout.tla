---------------------------- MODULE StructLayout ----------------------------
(***************************************************************************)
(* Which fields of a struct type the generator serializes, and in which    *)
(* order: ParseTypeInfo (gen.go) with embedded structs flattened or not,   *)
(* the field order that WriteTupleEncodersToFile is given, and the pointer *)
(* initialization emitted for flattened structs.                           *)
(***************************************************************************)
EXTENDS Integers, FiniteSets, Sequences

CONSTANTS
  Root,         \* the struct type that is given to the generator
  Decls,        \* declarations of struct types: a sequence of members for each
  FieldOrders   \* sequences of field names

\* A member of a struct type: a field, or a struct embedded by value or by pointer.
Kinds   == {"field", "embed", "embed*"}
Members == [name : STRING, kind : Kinds, exported : BOOLEAN, type : STRING]

\* Go's rules; and no struct embeds itself, not even by pointer, for the recursion
\* does not end on one that does.
ASSUME DeclsAssumption ==
  \A d \in Decls :
    /\ Root \in DOMAIN d
    /\ IsFiniteSet(DOMAIN d)
    /\ \A T \in DOMAIN d :
         /\ d[T] \in Seq(Members)
         /\ \A i \in DOMAIN d[T] : d[T][i].kind # "field" => d[T][i].type \in DOMAIN d
         /\ \A i, j \in DOMAIN d[T] :
              d[T][i].exported /\ d[T][j].exported /\ d[T][i].name = d[T][j].name => i = j
    /\ \E rank \in [DOMAIN d -> 0 .. Cardinality(DOMAIN d)] :
         \A T \in DOMAIN d : \A i \in DOMAIN d[T] :
           d[T][i].kind # "field" => rank[d[T][i].type] < rank[T]

ASSUME OrdersAssumption == FieldOrders \subseteq Seq(STRING)

VARIABLES
  decl,     \* the declarations
  flatten,  \* flattenEmbeddedStruct
  stack,    \* the calls of parseTypeInfoRecur: a type, and the member it is at
  fields,   \* gti.Fields: names, and where the members are that they are
  depths,   \* the depth at which a name was found
  embeds,   \* embeddedByPointerStructs: where they are
  live,     \* where the embedded pointers of a value are that are not nil
  pc        \* "parse", "order", "emit", "emitted", "ready" or "error", "panic"

vars == <<decl, flatten, stack, fields, depths, embeds, live, pc>>

Call(T) == [type |-> T, next |-> 1]

Init ==
  /\ decl \in Decls
  /\ flatten \in BOOLEAN
  /\ stack = << Call(Root) >>
  /\ fields = << >>
  /\ depths = << >>
  /\ embeds = << >>
  /\ live = {}
  /\ pc = "parse"

-----------------------------------------------------------------------------

\* The stack is the place of the member that the innermost call is at: one step for
\* each embedding, and its own.
Member(s)  == decl[s.type][s.next]
Entered(s) == flatten /\ Member(s).kind # "field"

call   == stack[Len(stack)]
depth  == Len(stack) - 1
more   == pc = "parse" /\ call.next <= Len(decl[call.type])
member == Member(call)

Onward(s)  == [type |-> s.type, next |-> s.next + 1]
Advance(p) == [p EXCEPT ![Len(p)] = Onward(p[Len(p)])]

Unexported ==
  /\ more
  /\ ~member.exported
  /\ stack' = Advance(stack)
  /\ UNCHANGED <<decl, flatten, fields, depths, embeds, live, pc>>

\* Of the pointers, only those of the root type itself are recorded.  (Mutant: none.)
NothingRecorded == FALSE
Recorded == depth = 0 /\ member.kind = "embed*"

Enter ==
  /\ more
  /\ member.exported
  /\ Entered(call)
  /\ embeds' = IF Recorded THEN Append(embeds, stack) ELSE embeds
  /\ stack' = Append(stack, Call(member.type))
  /\ UNCHANGED <<decl, flatten, fields, depths, live, pc>>

\* A field is hidden if one of its name was found at a lesser depth.  (Mutant: at a
\* greater depth.)
FoundDeeper(d) == d > depth
FoundHigher(d) == d < depth
Hidden == flatten /\ member.name \in DOMAIN depths /\ FoundHigher(depths[member.name])

Hide ==
  /\ more
  /\ member.exported
  /\ ~Entered(call)
  /\ Hidden
  /\ stack' = Advance(stack)
  /\ UNCHANGED <<decl, flatten, fields, depths, embeds, live, pc>>

\* The elements of s at the indexes I, in their order.
Kept(s, I) ==
  LET kept[k \in 0 .. Len(s)] ==
        IF k = 0 THEN << >> ELSE IF k \in I THEN Append(kept[k - 1], s[k]) ELSE kept[k - 1]
  IN  kept[Len(s)]

Others(name) == Kept(fields, { j \in DOMAIN fields : fields[j].name # name })

\* The field that is found goes to the end, the one it overrides is gone.  (Mutant:
\* it takes the place of that one.)
InPlace(f) ==
  IF \E j \in DOMAIN fields : fields[j].name = f.name
  THEN [j \in DOMAIN fields |-> IF fields[j].name = f.name THEN f ELSE fields[j]]
  ELSE Append(fields, f)
PushBack(f) == Append(IF flatten THEN Others(f.name) ELSE fields, f)

Push ==
  /\ more
  /\ member.exported
  /\ ~Entered(call)
  /\ ~Hidden
  /\ depths' = IF ~flatten THEN depths
               ELSE [name \in DOMAIN depths \cup {member.name} |->
                       IF name = member.name THEN depth ELSE depths[name]]
  /\ fields' = PushBack([name |-> member.name, at |-> stack])
  /\ stack' = Advance(stack)
  /\ UNCHANGED <<decl, flatten, embeds, live, pc>>

Return ==
  /\ pc = "parse"
  /\ ~more
  /\ depth > 0
  /\ stack' = Advance(SubSeq(stack, 1, depth))
  /\ UNCHANGED <<decl, flatten, fields, depths, embeds, live, pc>>

Parsed ==
  /\ pc = "parse"
  /\ ~more
  /\ depth = 0
  /\ stack' = << >>
  /\ pc' = "order"
  /\ UNCHANGED <<decl, flatten, fields, depths, embeds, live>>

-----------------------------------------------------------------------------

\* fieldMap: of the fields of a name, the last.
Named(name) ==
  fields[CHOOSE j \in DOMAIN fields :
           fields[j].name = name /\ \A k \in DOMAIN fields : fields[k].name = name => k <= j]

Names == { fields[j].name : j \in DOMAIN fields }

\* The names in an order that are those of fields, each once.  (Mutant: as often as
\* it does.)
PickedAgain(order) == Kept(order, { k \in DOMAIN order : order[k] \in Names })
Picked(order) ==
  Kept(order, { k \in DOMAIN order : order[k] \in Names /\ \A j \in 1 .. (k - 1) : order[j] # order[k] })

Remaining(order) ==
  Kept(fields, { j \in DOMAIN fields : \A k \in DOMAIN order : order[k] # fields[j].name })

\* The fields of the order first, then the remaining ones; and an assertion.
Order(order) ==
  LET picked  == Picked(order)
      ordered == [k \in DOMAIN picked |-> Named(picked[k])] \o Remaining(order)
  IN  /\ pc = "order"
      /\ IF Len(ordered) # Len(fields)
         THEN pc' = "panic" /\ UNCHANGED fields
         ELSE pc' = "emit" /\ fields' = ordered
      /\ UNCHANGED <<decl, flatten, stack, depths, embeds, live>>

\* emitInitNilEmbeddedStructMethod: what is emitted for one pointer ends without a
\* newline, so that go/format does not parse what is emitted for two.
Emit ==
  /\ pc = "emit"
  /\ pc' = IF Len(embeds) > 1 THEN "error" ELSE "emitted"
  /\ UNCHANGED <<decl, flatten, stack, fields, depths, embeds, live>>

\* Where the embedded structs are that a place is in, and itself.
Upto(p) == { SubSeq(p, 1, k) : k \in 1 .. Len(p) }

IsPointer(p) == Member(p[Len(p)]).kind = "embed*"

\* The embedded pointers above the fields: each must not be nil.  (A field itself is
\* no embedding that was entered.)
Pointers ==
  UNION { { p \in Upto(fields[j].at) : p # fields[j].at /\ IsPointer(p) } : j \in DOMAIN fields }

\* The method of the root type goes on to those of the structs it has recorded,
\* and those do the same.
InitNilEmbeddedStruct ==
  /\ pc = "emitted"
  /\ live' = { p \in Pointers : /\ SubSeq(p, 1, 1) \in { embeds[j] : j \in DOMAIN embeds }
                                /\ \A q \in Upto(p) : IsPointer(q) }
  /\ pc' = "ready"
  /\ UNCHANGED <<decl, flatten, stack, fields, depths, embeds>>

Next ==
  \/ Unexported \/ Enter \/ Hide \/ Push \/ Return \/ Parsed
  \/ \E order \in FieldOrders : Order(order)
  \/ Emit \/ InitNilEmbeddedStruct

Spec == Init /\ [][Next]_vars

-----------------------------------------------------------------------------

\* The members of the types, as steps from a type to one of its members.
Steps == UNION { [type : {T}, next : DOMAIN decl[T]] : T \in DOMAIN decl }

\* The selectors of a value of the root type, each for a field or an embedded struct:
\* so many embeddings in a row, exported or not, and an exported member.
Chains == UNION { [1 .. k -> { s \in Steps : Entered(s) }] : k \in 0 .. Cardinality(DOMAIN decl) }

IsPath(p) ==
  /\ p[1].type = Root
  /\ \A k \in 1 .. (Len(p) - 1) : p[k + 1].type = Member(p[k]).type

Selectors ==
  { p \in { Append(c, s) : c \in Chains, s \in { s \in Steps : Member(s).exported } } : IsPath(p) }

FieldAt(p) == [name |-> Member(p[Len(p)]).name, at |-> p]
IsField(p) == ~Entered(p[Len(p)])

\* What Go selects by a name: that which is less deep than all others of the name.
Selected(p) ==
  \A q \in Selectors \ {p} : FieldAt(q).name = FieldAt(p).name => Len(p) < Len(q)

Promoted == { FieldAt(p) : p \in { q \in Selectors : IsField(q) /\ Selected(q) } }

\* The generated code says t.Name: each field in the list is the one Go selects by
\* that name, and no field that it selects is missing or there twice (gen.go:229-270).
SelectsTheSame ==
  pc \notin {"parse", "panic"} =>
    { fields[j] : j \in DOMAIN fields } = Promoted /\ Len(fields) = Cardinality(Promoted)

Before(p, q) ==
  \E k \in 1 .. Len(p) : k <= Len(q) /\ (\A i \in 1 .. (k - 1) : p[i] = q[i]) /\ p[k].next < q[k].next

\* A flattened struct is serialized like one that declares the fields where their
\* last declarations are (README.md:121-123).
DeclarationOrder ==
  pc \in {"parse", "order"} =>
    \A j, k \in DOMAIN fields : j < k => Before(fields[j].at, fields[k].at)

\* An order of the fields is one of all of them: "should never panic"
\* (writefile.go:48-51).
NeverPanics == pc # "panic"

\* After InitNilEmbeddedStruct, no field that is read or written is behind a nil
\* pointer (utils.go:123-125).
AllLive == pc = "ready" => Pointers \subseteq live
=============================================================================
