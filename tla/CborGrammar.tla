---------------------------- MODULE CborGrammar ----------------------------
(***************************************************************************)
(* What one CBOR item is: the grammar that the scanners, which count       *)
(* instead, are checked against.                                           *)
(***************************************************************************)
EXTENDS CborItem, Nesting

\* The head of the item of s after its first p bytes: the header, and the payload
\* of a string.
ItemHead(s, p) ==
  LET hd == CborReadHeaderBuf(s, p)
      q  == p + hd.n
  IN  CASE ~hd.ok -> BadHead(q)
        [] hd.ok /\ IsString(hd.maj) ->
             IF q + hd.extra <= Len(s) THEN GoodHead(q + hd.extra, 0, << >>) ELSE BadHead(Len(s))
        [] hd.ok /\ hd.maj = MajArray -> GoodHead(q, hd.extra, << >>)
        [] hd.ok /\ hd.maj = MajMap   -> GoodHead(q, 2 * hd.extra, << >>)
        [] hd.ok /\ hd.maj = MajTag   -> GoodHead(q, 1, << >>)
        [] hd.ok /\ hd.maj \notin {MajByteString, MajTextString, MajArray, MajMap, MajTag} ->
             GoodHead(q, 0, << >>)
=============================================================================
