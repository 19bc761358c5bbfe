------------------------------ MODULE PkgNaming ------------------------------
(***************************************************************************)
(* What the generator needs of the names that its import list and its code *)
(* give to packages (package.go): a package keeps the name it was first    *)
(* given, and no two packages have the same one.                           *)
(***************************************************************************)
CONSTANTS
  Paths,     \* import paths
  Defaults   \* the names of the packages every generated file imports

VARIABLES
  nameOf,    \* the packages named so far, each with its name
  answers    \* <<path, name>> for every call that has returned

vars == <<nameOf, answers>>

Init == nameOf = Defaults /\ answers = {}

Answer(path, name) == answers' = answers \cup {<<path, name>>}

Resolve(path) ==
  \/ /\ path \in DOMAIN nameOf
     /\ Answer(path, nameOf[path])
     /\ UNCHANGED nameOf
  \/ /\ path \notin DOMAIN nameOf
     /\ DOMAIN nameOf' = DOMAIN nameOf \cup {path}
     /\ \A known \in DOMAIN nameOf :
          nameOf'[known] = nameOf[known] /\ nameOf[known] # nameOf'[path]
     /\ Answer(path, nameOf'[path])

Next == \E path \in Paths : Resolve(path)

Spec == Init /\ [][Next]_vars
=============================================================================
