---------------------------- MODULE HeaderCodec ----------------------------
(***************************************************************************)
(* One header crossing a wire: written by WriteMajorTypeHeader and followed *)
(* by other bytes, or any bytes at all, and then read.                     *)
(***************************************************************************)
EXTENDS CborHeader

CONSTANTS
  Wires,      \* byte strings that no writer produced
  Followers   \* byte strings that may follow a header

ASSUME WiresAssumption == Wires \subseteq Seq(Byte) /\ Followers \subseteq Seq(Byte)

VARIABLES
  written,   \* the header written, none for a wire that no writer produced
  wire,   \* the bytes on the wire
  answer     \* what the reader returned, none before it has read

headerVars == <<written, wire, answer>>

noHeader == [ok |-> FALSE]

HeaderInit ==
  /\ written = noHeader
  /\ wire = << >>
  /\ answer = noHeader

WriteHeader(maj, l, more) ==
  /\ wire = << >>
  /\ written' = Header(maj, l, Len(WriteMajorTypeHeader(maj, l)))
  /\ wire' = WriteMajorTypeHeader(maj, l) \o more
  /\ UNCHANGED answer

ReceiveBytes(bytes) ==
  /\ wire = << >>
  /\ wire' = bytes
  /\ UNCHANGED <<written, answer>>

ReadHeader ==
  /\ answer = noHeader
  /\ answer' = CborReadHeaderBuf(wire, 0)
  /\ wire # << >>
  /\ UNCHANGED <<written, wire>>

HeaderNext ==
  \/ \E maj \in Majors, l \in Arguments, more \in Followers : WriteHeader(maj, l, more)
  \/ \E bytes \in Wires : ReceiveBytes(bytes)
  \/ ReadHeader

HeaderSpec == HeaderInit /\ [][HeaderNext]_headerVars

-----------------------------------------------------------------------------

\* A written header is read back as it was, whatever follows it, and the reader
\* takes exactly the bytes that were written (utils.go:333-394, 402-449).
HeaderRoundTrip == written.ok /\ answer # noHeader => answer = written

\* A header that is accepted is the one encoding of what was read: the bytes
\* taken are those the writer produces (the "not canonical" errors of
\* utils.go:354-390).
HeaderOneEncoding ==
  answer.ok => SubSeq(wire, 1, answer.n) = WriteMajorTypeHeader(answer.maj, answer.extra)
=============================================================================
