---------------------------- MODULE PeekedFields ----------------------------
(***************************************************************************)
(* The decoder of a struct of pointer fields (gen.go) at work on a peeker: *)
(* for each field it takes a byte, and unless that is a null it puts the   *)
(* byte back and has the header read, by CborReadHeaderBuf if the field is *)
(* a *uint64 and by CborReadHeader if it is a *cid.Cid.  Every value is    *)
(* one byte here.  Other callers of a peeker make any calls in any order.  *)
(***************************************************************************)
EXTENDS Peeker

CONSTANTS
  Null,     \* the byte of a null
  Buffered  \* the headers: read by CborReadHeaderBuf (TRUE) or CborReadHeader (FALSE)

ASSUME BufferedAssumption == Buffered \subseteq BOOLEAN

VARIABLES
  step,       \* "peek", "unread", "header", "error"; "calls" of another caller
  values,     \* the bytes of the fields that were read
  bytesRead   \* as the decoder counts

fieldVars == <<vars, step, values, bytesRead>>

FieldsInit ==
  /\ Init
  /\ step \in {"peek", "calls"}
  /\ values = << >>
  /\ bytesRead = 0

OtherCall ==
  /\ step = "calls"
  /\ Next
  /\ UNCHANGED <<step, values, bytesRead>>

\* A byte was read that is the value, or is all of it that is looked at.
Take(b, n) ==
  /\ values' = Append(values, b)
  /\ bytesRead' = bytesRead + n
  /\ step' = "peek"

Stop ==
  /\ step' = "error"
  /\ UNCHANGED <<values, bytesRead>>

Peek ==
  /\ step = "peek"
  /\ ReadByte
  /\ \/ ret'.err # "nil" /\ Stop
     \/ ret'.err = "nil" /\ ret'.bytes[1] = Null /\ Take(Null, 1)
     \/ /\ ret'.err = "nil" /\ ret'.bytes[1] # Null
        /\ step' = "unread"
        /\ bytesRead' = bytesRead + 1
        /\ UNCHANGED values

\* (Mutant: the byte that was put back is counted.)
StillCounted(k) == k
Uncounted(k) == k - 1

PutBack ==
  /\ step = "unread"
  /\ UnreadByte
  /\ \/ ret'.err # "nil" /\ Stop
     \/ /\ ret'.err = "nil"
        /\ step' = "header"
        /\ bytesRead' = Uncounted(bytesRead)
        /\ UNCHANGED values

\* readByteBuf: a Read into one byte, in which an error is looked at before the byte.
readByteBuf ==
  /\ step = "header"
  /\ ReadBuf(1)
  /\ IF ret'.err # "nil" \/ Len(ret'.bytes) # 1 THEN Stop ELSE Take(ret'.bytes[1], 1)

\* readByte: the ReadByte of the peeker.
readByte ==
  /\ step = "header"
  /\ ReadByte
  /\ IF ret'.err # "nil" THEN Stop ELSE Take(ret'.bytes[1], 1)

FieldsNext ==
  \/ OtherCall
  \/ Peek
  \/ PutBack
  \/ TRUE \in Buffered /\ readByteBuf
  \/ FALSE \in Buffered /\ readByte

FieldsSpec == FieldsInit /\ [][FieldsNext]_fieldVars

-----------------------------------------------------------------------------

\* The fields are the bytes of the input, each once and in order, and bytesRead is
\* where the next one is read, whatever the reader answers short of "no byte and no
\* error" (gen.go:761-783, 864-885).  Between two fields no byte is put back: the reader
\* below is where the peeker is, for what is read from it itself (gen.go:1594).
ReadsInOrder ==
  step \in {"peek", "unread", "header"} =>
    /\ values = SubSeq(Data, 1, Len(values))
    /\ step \in {"peek", "header"} => bytesRead = Cursor /\ Cursor = Len(values)
    /\ step = "peek" => peekState # "unread" /\ pos = Len(values)
=============================================================================
