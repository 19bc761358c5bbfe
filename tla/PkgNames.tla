------------------------------ MODULE PkgNames ------------------------------
(***************************************************************************)
(* resolvePkgName (package.go), called by generators that run at the same  *)
(* time: two maps under a mutex, that must stay each other's inverse.      *)
(***************************************************************************)
EXTENDS Naturals

CONSTANTS
  Callers,          \* goroutines
  Paths,            \* import paths
  Defaults,         \* defaultImports: their names, by path
  Name(_, _),       \* the i-th name tried for a package: its own, then numbered
  None

ASSUME CallersAssumption == None \notin Callers

\* What init panics without.
ASSUME DefaultsAssumption ==
  /\ DOMAIN Defaults \subseteq Paths
  /\ \A p, q \in DOMAIN Defaults : Defaults[p] = Defaults[q] => p = q

VARIABLES
  pkgNameToPkgPath,
  pkgPathToPkgName,
  mu,        \* who holds knownPackageNamesMu
  pc,        \* where each caller is
  path,      \* what it asks for
  i,         \* the loop's counter
  answers    \* <<path, name>> for every call that has returned

vars == <<pkgNameToPkgPath, pkgPathToPkgName, mu, pc, path, i, answers>>

\* m[x] = v.  (Mutant: in a map of its own.)
NewMap(m, x, v) == [y \in {x} |-> v]
Put(m, x, v) == [y \in DOMAIN m \cup {x} |-> IF y = x THEN v ELSE m[y]]

\* init: the names of the defaults are taken.  (Mutant: they can be given again.)
NoneReserved == <<>>
Reserved ==
  [n \in { Defaults[p] : p \in DOMAIN Defaults } |->
     CHOOSE p \in DOMAIN Defaults : Defaults[p] = n]

Init ==
  /\ pkgNameToPkgPath = Reserved
  /\ pkgPathToPkgName = Defaults
  /\ mu = None
  /\ pc = [c \in Callers |-> "idle"]
  /\ path \in [Callers -> Paths]
  /\ i = [c \in Callers |-> 0]
  /\ answers = {}

tryName(c) == Name(path[c], i[c])

Call(c) ==
  /\ pc[c] = "idle"
  /\ \E p \in Paths : path' = [path EXCEPT ![c] = p]
  /\ pc' = [pc EXCEPT ![c] = "lock"]
  /\ i' = [i EXCEPT ![c] = 0]
  /\ UNCHANGED <<pkgNameToPkgPath, pkgPathToPkgName, mu, answers>>

\* (Mutant: no mutex.)
NoMutex(c) == TRUE
CanLock(c) == mu = None

Lock(c) ==
  /\ pc[c] = "lock"
  /\ CanLock(c)
  /\ mu' = c
  /\ pc' = [pc EXCEPT ![c] = "known"]
  /\ UNCHANGED <<pkgNameToPkgPath, pkgPathToPkgName, path, i, answers>>

\* The deferred Unlock, and the name for the caller.
Return(c, name) ==
  /\ mu' = None
  /\ pc' = [pc EXCEPT ![c] = "idle"]
  /\ answers' = answers \cup {<<path[c], name>>}

\* (Mutant: a package is named anew for each call.)
NeverKnown(c) == FALSE
IsKnown(c) == path[c] \in DOMAIN pkgPathToPkgName

Known(c) ==
  /\ pc[c] = "known"
  /\ IsKnown(c)
  /\ Return(c, pkgPathToPkgName[path[c]])
  /\ UNCHANGED <<pkgNameToPkgPath, pkgPathToPkgName, path, i>>

Unknown(c) ==
  /\ pc[c] = "known"
  /\ ~IsKnown(c)
  /\ pc' = [pc EXCEPT ![c] = "try"]
  /\ UNCHANGED <<pkgNameToPkgPath, pkgPathToPkgName, mu, path, i, answers>>

\* (Mutant: the counter does not advance.)
SameName(c) == i[c]
NextName(c) == i[c] + 1

Taken(c) ==
  /\ pc[c] = "try"
  /\ tryName(c) \in DOMAIN pkgNameToPkgPath
  /\ i' = [i EXCEPT ![c] = NextName(c)]
  /\ UNCHANGED <<pkgNameToPkgPath, pkgPathToPkgName, mu, pc, path, answers>>

Free(c) ==
  /\ pc[c] = "try"
  /\ tryName(c) \notin DOMAIN pkgNameToPkgPath
  /\ pkgNameToPkgPath' = Put(pkgNameToPkgPath, tryName(c), path[c])
  /\ pc' = [pc EXCEPT ![c] = "record"]
  /\ UNCHANGED <<pkgPathToPkgName, mu, path, i, answers>>

Record(c) ==
  /\ pc[c] = "record"
  /\ pkgPathToPkgName' = Put(pkgPathToPkgName, path[c], tryName(c))
  /\ Return(c, tryName(c))
  /\ UNCHANGED <<pkgNameToPkgPath, path, i>>

Resolve(c) == Lock(c) \/ Known(c) \/ Unknown(c) \/ Taken(c) \/ Free(c) \/ Record(c)

Next == \E c \in Callers : Call(c) \/ Resolve(c)

Spec == Init /\ [][Next]_vars

\* A goroutine is scheduled sooner or later, and a sync.Mutex starves none.
Fairness == \A c \in Callers : WF_vars(Resolve(c)) /\ SF_vars(Lock(c))

FairSpec == Spec /\ Fairness

-----------------------------------------------------------------------------

TypeOK ==
  /\ mu \in Callers \cup {None}
  /\ pc \in [Callers -> {"idle", "lock", "known", "try", "record"}]
  /\ path \in [Callers -> Paths]
  /\ i \in [Callers -> Nat]
  /\ DOMAIN pkgPathToPkgName \subseteq Paths
  /\ answers \subseteq Paths \X DOMAIN pkgNameToPkgPath

\* While nobody holds the mutex, the two maps are each other's inverse
\* (package.go:42-64).
MapsAgree ==
  mu = None =>
    /\ \A p \in DOMAIN pkgPathToPkgName :
         /\ pkgPathToPkgName[p] \in DOMAIN pkgNameToPkgPath
         /\ pkgNameToPkgPath[pkgPathToPkgName[p]] = p
    /\ \A n \in DOMAIN pkgNameToPkgPath :
         /\ pkgNameToPkgPath[n] \in DOMAIN pkgPathToPkgName
         /\ pkgPathToPkgName[pkgNameToPkgPath[n]] = n

\* What the import list of a generated file and the type names in its body are
\* asked for at different times, by different calls: all of them give one name to
\* one package and one package to one name (package.go:48-61, 70-88).
OneNameEach ==
  \A a, b \in answers : a[1] = b[1] <=> a[2] = b[2]

Naming == INSTANCE PkgNaming WITH nameOf <- pkgPathToPkgName

\* The calls happen as if one at a time, and no name is ever taken back.
IsNaming == Naming!Spec

\* Every call returns: some name is free, and the mutex is too, sooner or later.
Answered == \A c \in Callers : pc[c] = "lock" ~> pc[c] = "idle"
=============================================================================
