------------------------------ MODULE Nesting ------------------------------
(***************************************************************************)
(* Items that nest: each starts with a head, which says how many items     *)
(* follow inside it.  What an item is, by recursion over what nests in it, *)
(* where a stream stops being one, and which links come before that.       *)
(*                                                                         *)
(* heads[p] is the head of the stream after its first p positions.  One    *)
(* that is good ends further on, so that the recursion does.               *)
(***************************************************************************)
EXTENDS Integers, Sequences

Ends(p, links)  == [ok |-> TRUE, end |-> p, links |-> links]
Stops(p, links) == [ok |-> FALSE, end |-> p, links |-> links]

\* A head that ends at p, with so many items inside, and perhaps a link itself; or one
\* that is bad.
GoodHead(p, nested, links) == [ok |-> TRUE, end |-> p, nested |-> nested, links |-> links]
BadHead(p) == [ok |-> FALSE, end |-> p, nested |-> 0, links |-> << >>]

Behind(links, item) == [ok |-> item.ok, end |-> item.end, links |-> links \o item.links]

\* k items after the first p positions: the first, with those inside it, and the
\* others; items[q][j] being the j items after each later position q.
ItemsFrom(heads, items, p, k) ==
  LET head  == heads[p]
      item  == Behind(head.links, items[head.end][head.nested])
  IN  IF k = 0 THEN Ends(p, << >>)
      ELSE IF ~head.ok THEN Stops(head.end, head.links)
      ELSE IF ~item.ok THEN item
      ELSE Behind(item.links, items[item.end][k - 1])

ItemsIn(heads) ==
  LET items[p \in DOMAIN heads] == [k \in Nat |-> ItemsFrom(heads, items, p, k)]
  IN  items
=============================================================================
