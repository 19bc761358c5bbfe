--------------------------- MODULE MCPeekedFields ---------------------------
(* Values of one byte, with nulls among them and at the end, none of them the *)
(* zero value lastByte starts with, read with buffers of up to four bytes.   *)
EXTENDS PeekedFields

MCData == << 11, 246, 13, 14, 15, 16, 246, 246, 19, 20, 21, 246, 23, 24, 25, 26, 27, 246 >>
=============================================================================
