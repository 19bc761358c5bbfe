-------------------------- MODULE FlattenedMarshal --------------------------
(***************************************************************************)
(* The generated MarshalCBOR of a flattened struct, from the declaration   *)
(* that the generator parses to goroutines that marshal one value of it.   *)
(***************************************************************************)
EXTENDS StructLayout, EmbeddedPointers, SequencesExt

CONSTANT Shared   \* the declarations of whose types there is a value that is shared

FlatInit == Init /\ ShareInit

Generate == Next /\ UNCHANGED shareVars

Above(f) == Cardinality({ p \in Pointers : IsPrefix(p, f.at) })

\* A value of the generated type, some of whose embedded pointers are set.
Give ==
  /\ pc = "ready"
  /\ decl \in Shared
  /\ \E k \in 0 .. Cardinality(Pointers) :
       Share([j \in DOMAIN fields |-> Above(fields[j])], Cardinality(Pointers), k)
  /\ UNCHANGED vars

Marshal == (\E m \in Marshallers : MarshalCBOR(m)) /\ UNCHANGED vars

FlatNext == Generate \/ Give \/ Marshal

FlatSpec == FlatInit /\ [][FlatNext]_<<vars, shareVars>>
=============================================================================
