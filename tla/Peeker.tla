------------------------------- MODULE Peeker -------------------------------
(***************************************************************************)
(* The non-buffering peeker of peeker.go, over an io.Reader it does not    *)
(* control.  Every decoder reads through it when its input is not already  *)
(* a ByteScanner.                                                          *)
(***************************************************************************)
EXTENDS Naturals, Sequences

CONSTANTS
  Data,    \* the bytes the underlying reader holds
  MaxBuf,  \* the longest buffer a caller passes to Read
  Quirks   \* which of the answers io.Reader permits this reader gives

\* eof_with_data:       io.EOF together with the last bytes
\* eof_on_empty_buffer: io.EOF, at the end, for a read of an empty buffer
\* zero_read:           no byte and no error for a non-empty buffer
\* fail:                an error other than io.EOF, with or without bytes
QuirkNames == {"eof_with_data", "eof_on_empty_buffer", "zero_read", "fail"}

ASSUME DataAssumption   == Data \in Seq(Nat)
ASSUME MaxBufAssumption == MaxBuf \in Nat \ {0}
ASSUME QuirksAssumption == Quirks \subseteq QuirkNames

VARIABLES
  pos,        \* how many bytes the underlying reader has handed out
  peekState,  \* "empty", "set" or "unread"
  lastByte,   \* the last byte handed out
  ret         \* what the last call returned to the caller

vars == <<pos, peekState, lastByte, ret>>

Errors  == {"nil", "EOF", "fail"}
Results == [n : 0..MaxBuf, err : Errors]

Ret(op, bytes, e) == [op |-> op, bytes |-> bytes, err |-> e]

TypeOK ==
  /\ pos \in 0..Len(Data)
  /\ peekState \in {"empty", "set", "unread"}
  /\ lastByte \in Nat
  /\ ret \in [op : {"none", "Read", "ReadByte", "UnreadByte"},
              bytes : Seq(Nat), err : Errors \cup {"invalid"}]
  /\ Len(ret.bytes) <= MaxBuf

Init ==
  /\ pos = 0
  /\ peekState = "empty"
  /\ lastByte = 0
  /\ ret = Ret("none", << >>, "nil")

\* The answers of the underlying reader to a Read with a buffer of k bytes.
ReaderRead(k) ==
  { r \in Results :
      /\ r.n <= k
      /\ pos + r.n <= Len(Data)
      /\ r.err = "EOF" =>
           /\ pos + r.n = Len(Data)
           /\ r.n > 0 => "eof_with_data" \in Quirks
           /\ k = 0 => "eof_on_empty_buffer" \in Quirks
      /\ r.err = "fail" => "fail" \in Quirks
      /\ (r.err = "nil" /\ r.n = 0) => (k = 0 \/ "zero_read" \in Quirks) }

\* Read with an empty buffer: "an error, maybe".
ReadNothing ==
  /\ \/ /\ peekState = "unread"
        /\ ret' = Ret("Read", << >>, "nil")
     \/ /\ peekState # "unread"
        /\ \E r \in ReaderRead(0) : ret' = Ret("Read", << >>, r.err)
  /\ UNCHANGED <<pos, peekState, lastByte>>

\* The byte that Read puts first into the caller's buffer.
Pending == IF peekState = "unread" THEN << lastByte >> ELSE << >>

\* What the caller's buffer holds once the reader has put n bytes after it.
Got(n) == Pending \o SubSeq(Data, pos + 1, pos + n)

\* What is left of a buffer of k bytes for the reader: buf[1:] after a pending
\* byte.  (Mutant: all of buf.)
WholeBuffer(k) == k
Room(k) == k - Len(Pending)

\* The byte kept for UnreadByte.  (Mutant: the one kept before.)
StaleByte(got) == lastByte
Kept(got) == got[Len(got)]

\* Read with a buffer of k > 0 bytes.  The rest of the buffer is passed on to
\* the reader even when it is empty.
ReadBuf(k) ==
  \E r \in ReaderRead(Room(k)) :
    /\ pos' = pos + r.n
    /\ ret' = Ret("Read", Got(r.n), r.err)
    /\ \/ /\ Got(r.n) # << >>
          /\ peekState' = "set"
          /\ lastByte' = Kept(Got(r.n))
       \/ /\ Got(r.n) = << >>
          /\ UNCHANGED <<peekState, lastByte>>

\* ReadByte replays the pending byte, or reads one.  When the reader answers
\* with no byte and no error, the caller gets the zero byte and no error.
ReadByte ==
  \/ /\ peekState = "unread"
     /\ peekState' = "set"
     /\ ret' = Ret("ReadByte", << lastByte >>, "nil")
     /\ UNCHANGED <<pos, lastByte>>
  \/ /\ peekState # "unread"
     /\ \E r \in ReaderRead(1) :
          \/ /\ r.n = 0
             /\ ret' = Ret("ReadByte", IF r.err = "nil" THEN << 0 >> ELSE << >>, r.err)
             /\ UNCHANGED <<pos, peekState, lastByte>>
          \/ /\ r.n = 1
             /\ pos' = pos + 1
             /\ peekState' = "set"
             /\ lastByte' = Data[pos + 1]
             /\ ret' = Ret("ReadByte", << Data[pos + 1] >>, r.err)

\* UnreadByte needs a byte read since the last one.  (Mutant: any byte read.)
AnyByteRead == peekState # "empty"
Unreadable == peekState = "set"

UnreadByte ==
  \/ /\ ~Unreadable
     /\ ret' = Ret("UnreadByte", << >>, "invalid")
     /\ UNCHANGED <<pos, peekState, lastByte>>
  \/ /\ Unreadable
     /\ peekState' = "unread"
     /\ ret' = Ret("UnreadByte", << >>, "nil")
     /\ UNCHANGED <<pos, lastByte>>

Next ==
  \/ ReadNothing
  \/ \E k \in 1..MaxBuf : ReadBuf(k)
  \/ ReadByte
  \/ UnreadByte

Spec == Init /\ [][Next]_vars

-----------------------------------------------------------------------------

\* The byte kept for UnreadByte is the last one taken from the reader, whichever
\* of Read and ReadByte took it (peeker.go:51-54 and 68-70).
LastByteFresh ==
  peekState # "empty" => pos > 0 /\ lastByte = Data[pos]

\* The cursor of the caller: an unread byte lies after it again.
Cursor == IF peekState = "unread" THEN pos - 1 ELSE pos

Scanner == INSTANCE ByteScanner WITH cur <- Cursor, back <- (peekState = "set")

\* The peeker is a ByteScanner over the bytes of its reader (peeker.go:8).
IsByteScanner == Scanner!Spec
=============================================================================
