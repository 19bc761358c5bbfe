---------------------------- MODULE LinkGrammar ----------------------------
(***************************************************************************)
(* A CBOR item of any size, and the links (CIDs) in it.                    *)
(***************************************************************************)
EXTENDS CborGrammar

CONSTANTS
  LinkTag,     \* the tag that announces a link: 42
  MaxLink,     \* maxCidLength
  IsCid(_)     \* cid.Cast: whether bytes are those of a CID

\* scratch[1:0] of an empty byte string is a panic (utils.go:89): nothing follows, and a
\* link of no bytes tells it from an error.
PanicHead(p) == [ok |-> FALSE, end |-> p, nested |-> 0, links |-> << << >> >>]
Panicked(item) == ~item.ok /\ \E j \in DOMAIN item.links : item.links[j] = << >>

\* The byte string of s after its first p bytes, behind the tag that says it is a link.
LinkHead(s, p) ==
  LET hd   == CborReadHeaderBuf(s, p)
      q    == p + hd.n
      end  == q + hd.extra
      link == SubSeq(s, q + 1, end)
  IN  CASE ~hd.ok -> BadHead(q)
        [] hd.ok /\ ~(hd.maj = MajByteString /\ hd.extra \in 0 .. MaxLink) -> BadHead(q)
        [] hd.ok /\ hd.maj = MajByteString /\ hd.extra = 0 -> PanicHead(q)
        [] hd.ok /\ hd.maj = MajByteString /\ hd.extra \in 1 .. MaxLink ->
             IF end > Len(s) THEN BadHead(Len(s))
             ELSE IF IsCid(Tail(link)) THEN GoodHead(end, 0, << link >>) ELSE BadHead(end)

LinkedHead(s, p) ==
  LET hd == CborReadHeaderBuf(s, p)
  IN  IF hd.ok /\ hd.maj = MajTag /\ hd.extra = LinkTag THEN LinkHead(s, p + hd.n) ELSE ItemHead(s, p)

\* The item of s after its first p bytes, with its links in their order.
LinkedHeads(s) == [p \in 0 .. Len(s) |-> LinkedHead(s, p)]
LinkedItemAt(s, p) == ItemsIn(LinkedHeads(s))[p][1]
=============================================================================
