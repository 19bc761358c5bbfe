---------------------------- MODULE StructCodec ----------------------------
(***************************************************************************)
(* What MarshalCBOR and UnmarshalCBOR keep while they run, in either       *)
(* representation of a struct.                                             *)
(***************************************************************************)
EXTENDS FieldCodec

CONSTANT Values(_)  \* the values of a field

VARIABLES
  t,          \* the fields that were marshalled
  out,        \* what MarshalCBOR has written
  input,      \* what has arrived
  pos,        \* how many bytes of it UnmarshalCBOR has taken
  u,          \* the struct that is unmarshalled into
  bytesRead,  \* what UnmarshalCBOR will return
  state       \* "new", "marshal", "marshalled" or "refused", "arrived", "unmarshal", "ok" or "error"

\* What is written of a field, without error or not.
Put(w) ==
  /\ out' = out \o w.bytes
  /\ state' = IF w.ok THEN state ELSE "refused"

\* Whether s is b and what follows it.
Begins(s, b) == Len(b) <= Len(s) /\ SubSeq(s, 1, Len(b)) = b
=============================================================================
