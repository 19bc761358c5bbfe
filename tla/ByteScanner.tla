---------------------------- MODULE ByteScanner ----------------------------
(***************************************************************************)
(* What the decoders rely on when they ask GetPeeker for a BytePeeker      *)
(* (peeker.go): a cursor over the bytes of the input.  Reads deliver the   *)
(* bytes after the cursor, in order and each once; UnreadByte moves the    *)
(* cursor back over one byte, and at most one between two reads.           *)
(***************************************************************************)
EXTENDS Naturals, Sequences

CONSTANTS
  Data,    \* the bytes of the input, in order
  MaxBuf   \* the longest buffer a caller passes to Read

VARIABLES
  cur,     \* how many bytes of Data lie before the cursor
  back,    \* whether UnreadByte would succeed
  ret      \* what the last call returned

vars == <<cur, back, ret>>

Init ==
  /\ cur = 0
  /\ back = FALSE
  /\ ret = [op |-> "none", bytes |-> << >>, err |-> "nil"]

\* Deliver n bytes with error e; EOF is only reported once nothing is left.
Deliver(op, n, e) ==
  /\ cur + n <= Len(Data)
  /\ e = "EOF" => cur + n = Len(Data)
  /\ cur' = cur + n
  /\ back' = (back \/ n > 0)
  /\ ret' = [op |-> op, bytes |-> SubSeq(Data, cur + 1, cur + n), err |-> e]

Read(k) == \E n \in 0..k, e \in {"nil", "EOF", "fail"} : Deliver("Read", n, e)

\* A call that reports no error delivers a byte.
ReadByte ==
  \/ \E e \in {"nil", "EOF", "fail"} : Deliver("ReadByte", 1, e)
  \/ \E e \in {"EOF", "fail"} : Deliver("ReadByte", 0, e)

UnreadByte ==
  \/ /\ back
     /\ cur' = cur - 1
     /\ back' = FALSE
     /\ ret' = [op |-> "UnreadByte", bytes |-> << >>, err |-> "nil"]
  \/ /\ ~back
     /\ ret' = [op |-> "UnreadByte", bytes |-> << >>, err |-> "invalid"]
     /\ UNCHANGED <<cur, back>>

Next ==
  \/ \E k \in 0..MaxBuf : Read(k)
  \/ ReadByte
  \/ UnreadByte

Spec == Init /\ [][Next]_vars
=============================================================================
