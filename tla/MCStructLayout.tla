--------------------------- MODULE MCStructLayout ---------------------------
(* Struct types "root", "mid" and "leaf": a leaf has fields only, mid embeds *)
(* it, and the root embeds both.  No name is ambiguous in Go: where mid and  *)
(* the leaf of the root have a field of one name, the root has one too.      *)
EXTENDS FlattenedMarshal

Plain(name) == [name |-> name, kind |-> "field", exported |-> TRUE, type |-> ""]
Hides(name) == [Plain(name) EXCEPT !.exported = FALSE]
Embed(type, kind) == [name |-> type, kind |-> kind, exported |-> TRUE, type |-> type]

Leaves == { << Plain("x") >>, << Plain("x"), Plain("y") >>, << Plain("y"), Hides("w"), Plain("x") >> }

\* Some fields before an embedded struct, and some after it.
Around(befores, kinds, type, afters) ==
  { b \o << Embed(type, k) >> \o a : b \in befores, k \in kinds, a \in afters }

Some == { << >>, << Plain("x") >>, << Plain("y"), Plain("x") >> }
Few  == { << >>, << Plain("y") >>, << Plain("z"), Plain("x") >> }

Distinct(members) == \A i, j \in DOMAIN members : members[i].name = members[j].name => i = j

Declarations(roots, mids) ==
  { [root |-> r, mid |-> m, leaf |-> l] :
      r \in { r \in roots : Distinct(r) }, m \in { m \in mids : Distinct(m) }, l \in Leaves }

Values == {"embed"}
Pointers1 == {"embed*"}
Both == {"embed", "embed*"}

\* The root embeds both, and has x and y itself.
TwoEmbedded ==
  { b \o << Embed("mid", j) >> \o c \o << Embed("leaf", k) >> \o << Plain(last) >> :
      b \in Few, c \in Some, j \in Both, k \in Values, last \in {"x", "y", "z"} }

HasXY(members) == {"x", "y"} \subseteq { members[i].name : i \in DOMAIN members }

\* Two pointers embedded in one struct, for which the generator fails.
TwoPointers ==
  { [root |-> << Embed("mid", "embed*"), Embed("leaf", "embed*"), Plain("x"), Plain("y") >>,
     mid |-> << Plain("z") >>, leaf |-> l] : l \in Leaves }

\* One pointer, and two that are embedded in each other.
MCShared ==
  { [root |-> << Plain("z"), Embed("mid", "embed*"), Plain("y") >>,
     mid |-> << Plain("x"), Embed("leaf", k) >>,
     leaf |-> << Plain("y"), Hides("w"), Plain("x") >>] : k \in Both }
  \cup
  { [root |-> << Embed("mid", "embed*") >>, mid |-> << Embed("leaf", "embed*"), Plain("y") >>,
     leaf |-> << Plain("x"), Plain("y") >>] }

\* An unexported struct with x and y, each of which is declared above it as well.
Unexported1(type) == [Embed(type, "embed") EXCEPT !.name = "base", !.exported = FALSE]
BehindUnexported ==
  { [root |-> << Embed("mid", k) >> \o r, mid |-> m, leaf |-> l] :
      k \in Both, r \in Few, l \in Leaves,
      m \in { << Plain("x"), Unexported1("leaf"), Plain("y") >>,
              << Unexported1("leaf"), Plain("y"), Plain("x"), Plain("z") >> } }
  \cup
  { [root |-> << Unexported1("mid"), Plain("y"), Embed("leaf", k), Plain("x") >>,
     mid |-> << Plain("x"), Plain("y") >>, leaf |-> << Plain("z"), Plain("y") >>] : k \in Both }

\* A field that has the name of an embedded struct below it, and one below that.
NamedAsEmbedded ==
  { [root |-> r, mid |-> << Plain("x"), Embed("leaf", "embed") >> \o m, leaf |-> l] :
      r \in { << Plain("leaf"), Embed("mid", "embed") >>, << Embed("mid", "embed*"), Plain("y"), Plain("leaf") >> },
      m \in Few \ { << Plain("z"), Plain("x") >> },
      l \in { << Plain("x"), Plain("y") >>, << Plain("y"), Plain("leaf"), Plain("x") >> } }

\* Nothing is embedded by pointer in what is embedded by value.
MCDecls ==
  Declarations(Around(Few, Both, "mid", Some), Around(Some, Values, "leaf", Few))
    \cup Declarations(Around(Few, Pointers1, "mid", Some), Around(Some, Pointers1, "leaf", Few))
    \cup { d \in Declarations(TwoEmbedded, Around(Some, Values, "leaf", Few)) : HasXY(d.root) }
    \cup TwoPointers \cup BehindUnexported \cup NamedAsEmbedded \cup MCShared

MCOrders == { << >>, << "y", "v", "x" >>, << "x", "z", "x" >> }

NoneShared == {}

\* A pointer embedded in a struct that is embedded by value.
PointerInValue == Declarations(Around(Few, Values, "mid", Some), Around(Some, Pointers1, "leaf", Few))
=============================================================================
