------------------------- MODULE GeneratedFileProofs -------------------------
(***************************************************************************)
(* For any files, generated at the same time by any number of callers: a   *)
(* file imports what its code names, under one name each, and nothing      *)
(* else.                                                                   *)
(***************************************************************************)
EXTENDS GeneratedFile, TLAPS

(***************************************************************************)
(* The names of package.go: for any number of callers and packages, and    *)
(* any way to number names, the two maps stay each other's inverse, and    *)
(* the calls happen as if one at a time.                                   *)
(***************************************************************************)

Critical == {"known", "try", "record"}

Mutex == \A c \in Callers : pc[c] \in Critical <=> mu = c

NamesOfPaths ==
  \A p \in DOMAIN pkgPathToPkgName :
    /\ pkgPathToPkgName[p] \in DOMAIN pkgNameToPkgPath
    /\ pkgNameToPkgPath[pkgPathToPkgName[p]] = p

\* Between Free and Record the name in hand is in one map only.
PathsOfNames ==
  \A n \in DOMAIN pkgNameToPkgPath :
    \/ /\ pkgNameToPkgPath[n] \in DOMAIN pkgPathToPkgName
       /\ pkgPathToPkgName[pkgNameToPkgPath[n]] = n
    \/ \E c \in Callers : pc[c] = "record" /\ n = tryName(c)

InHand ==
  \A c \in Callers :
    /\ pc[c] \in {"try", "record"} => path[c] \notin DOMAIN pkgPathToPkgName
    /\ pc[c] = "record" =>
         /\ tryName(c) \in DOMAIN pkgNameToPkgPath
         /\ pkgNameToPkgPath[tryName(c)] = path[c]

AnswersHold ==
  \A a \in answers : a[1] \in DOMAIN pkgPathToPkgName /\ a[2] = pkgPathToPkgName[a[1]]

IInv ==
  /\ TypeOK
  /\ Mutex
  /\ NamesOfPaths
  /\ PathsOfNames
  /\ InHand
  /\ AnswersHold

LEMMA InitIInv == Init => IInv
<1> SUFFICES ASSUME Init PROVE IInv
  OBVIOUS
<1> DEFINE N == { Defaults[p] : p \in DOMAIN Defaults }
<1>1. ASSUME NEW p \in DOMAIN Defaults
      PROVE  Defaults[p] \in N /\ (CHOOSE q \in DOMAIN Defaults : Defaults[q] = Defaults[p]) = p
  BY DefaultsAssumption
<1>2. NamesOfPaths
  BY <1>1 DEF Init, Reserved, NamesOfPaths
<1>3. PathsOfNames
  BY <1>1 DEF Init, Reserved, PathsOfNames
<1>4. TypeOK
  BY DefaultsAssumption DEF Init, Reserved, TypeOK
<1>5. Mutex
  BY CallersAssumption DEF Init, Mutex, Critical
<1>6. InHand /\ AnswersHold
  BY DEF Init, InHand, AnswersHold
<1>7. QED BY <1>2, <1>3, <1>4, <1>5, <1>6 DEF IInv

\* Only the holder of the mutex is anywhere between Lock and Return.
LEMMA OneInside ==
  ASSUME IInv, NEW c \in Callers, pc[c] \in Critical
  PROVE  mu = c /\ \A d \in Callers : d # c => pc[d] \notin Critical
BY DEF IInv, Mutex

\* A step that touches neither map nor what is in hand.
LEMMA QuietStep ==
  ASSUME IInv, UNCHANGED <<pkgNameToPkgPath, pkgPathToPkgName>>,
         TypeOK', Mutex', AnswersHold',
         \A c \in Callers : pc[c] = "record" => pc'[c] = "record",
         \A c \in Callers :
           pc'[c] \in {"try", "record"} =>
             /\ path'[c] = path[c]
             /\ path[c] \notin DOMAIN pkgPathToPkgName
             /\ pc'[c] = "record" => pc[c] = "record" /\ i'[c] = i[c]
  PROVE  IInv'
<1>1. NamesOfPaths'
  BY DEF IInv, NamesOfPaths
<1>2. \A c \in Callers : pc'[c] = "record" => tryName(c)' = tryName(c)
  BY DEF tryName
<1>3. PathsOfNames'
  BY <1>2 DEF IInv, PathsOfNames, TypeOK
<1>4. InHand'
  BY <1>2 DEF IInv, InHand
<1>5. QED BY <1>1, <1>3, <1>4 DEF IInv

LEMMA ReturnMutex ==
  ASSUME IInv, NEW c \in Callers, pc[c] \in Critical, NEW name, Return(c, name)
  PROVE  Mutex'
<1>1. mu = c /\ \A d \in Callers : d # c => pc[d] \notin Critical
  BY OneInside
<1>2. mu' = None /\ pc' = [pc EXCEPT ![c] = "idle"]
  BY DEF Return
<1>3. \A d \in Callers : pc'[d] \notin Critical
  BY <1>1, <1>2 DEF IInv, TypeOK, Critical
<1>4. QED BY <1>2, <1>3, CallersAssumption DEF Mutex

LEMMA StepIInv == IInv /\ [Next]_vars => IInv'
<1> SUFFICES ASSUME IInv, [Next]_vars PROVE IInv'
  OBVIOUS
<1>1. ASSUME NEW c \in Callers, Call(c)
      PROVE  IInv'
  <2>1. TypeOK'
    BY <1>1 DEF Call, IInv, TypeOK
  <2>2. Mutex'
    BY <1>1 DEF Call, IInv, TypeOK, Mutex, Critical
  <2>3. AnswersHold'
    BY <1>1 DEF Call, IInv, AnswersHold
  <2>4. QED
    BY <1>1, <2>1, <2>2, <2>3, QuietStep DEF Call, IInv, TypeOK, InHand
<1>2. ASSUME NEW c \in Callers, Lock(c)
      PROVE  IInv'
  <2>1. TypeOK'
    BY <1>2 DEF Lock, IInv, TypeOK
  <2>2. Mutex'
    BY <1>2, CallersAssumption DEF Lock, CanLock, IInv, TypeOK, Mutex, Critical
  <2>3. AnswersHold'
    BY <1>2 DEF Lock, IInv, AnswersHold
  <2>4. QED
    BY <1>2, <2>1, <2>2, <2>3, QuietStep DEF Lock, IInv, TypeOK, InHand
<1>3. ASSUME NEW c \in Callers, Known(c)
      PROVE  IInv'
  <2>1. /\ pc[c] = "known" /\ path[c] \in DOMAIN pkgPathToPkgName
        /\ Return(c, pkgPathToPkgName[path[c]])
        /\ UNCHANGED <<pkgNameToPkgPath, pkgPathToPkgName, path, i>>
    BY <1>3 DEF Known, IsKnown
  <2>2. Mutex'
    BY <2>1, ReturnMutex DEF Critical
  <2>3. pkgPathToPkgName[path[c]] \in DOMAIN pkgNameToPkgPath
    BY <2>1 DEF IInv, NamesOfPaths
  <2>4. TypeOK'
    BY <2>1, <2>3 DEF Return, IInv, TypeOK
  <2>5. AnswersHold'
    BY <2>1 DEF Return, IInv, AnswersHold
  <2>6. QED
    BY <2>1, <2>2, <2>4, <2>5, QuietStep DEF Return, IInv, TypeOK, InHand
<1>4. ASSUME NEW c \in Callers, Unknown(c)
      PROVE  IInv'
  <2>1. TypeOK'
    BY <1>4 DEF Unknown, IInv, TypeOK
  <2>2. Mutex'
    BY <1>4 DEF Unknown, IInv, TypeOK, Mutex, Critical
  <2>3. AnswersHold'
    BY <1>4 DEF Unknown, IInv, AnswersHold
  <2>4. QED
    BY <1>4, <2>1, <2>2, <2>3, QuietStep DEF Unknown, IsKnown, IInv, TypeOK, InHand
<1>5. ASSUME NEW c \in Callers, Taken(c)
      PROVE  IInv'
  <2>1. TypeOK'
    BY <1>5 DEF Taken, NextName, IInv, TypeOK
  <2>2. Mutex'
    BY <1>5 DEF Taken, IInv, Mutex
  <2>3. AnswersHold'
    BY <1>5 DEF Taken, IInv, AnswersHold
  <2>4. QED
    BY <1>5, <2>1, <2>2, <2>3, QuietStep DEF Taken, IInv, TypeOK, InHand
<1>6. ASSUME NEW c \in Callers, Free(c)
      PROVE  IInv'
  <2> DEFINE n == tryName(c)
  <2>1. /\ pc[c] = "try" /\ n \notin DOMAIN pkgNameToPkgPath
        /\ pkgNameToPkgPath' = Put(pkgNameToPkgPath, n, path[c])
        /\ pc' = [pc EXCEPT ![c] = "record"]
        /\ UNCHANGED <<pkgPathToPkgName, mu, path, i, answers>>
    BY <1>6 DEF Free
  <2>2. \A d \in Callers : d # c => pc[d] \notin Critical
    BY <2>1, OneInside DEF Critical
  <2>3. \A d \in Callers : tryName(d)' = tryName(d)
    BY <2>1 DEF tryName
  <2> HIDE DEF n
  <2>4. /\ DOMAIN pkgNameToPkgPath' = DOMAIN pkgNameToPkgPath \cup {n}
        /\ pkgNameToPkgPath'[n] = path[c]
        /\ \A m \in DOMAIN pkgNameToPkgPath :
             m # n /\ pkgNameToPkgPath'[m] = pkgNameToPkgPath[m]
    BY <2>1 DEF Put
  <2>5. TypeOK'
    BY <2>1, <2>4 DEF IInv, TypeOK
  <2>6. Mutex'
    BY <2>1 DEF IInv, TypeOK, Mutex, Critical
  <2>7. NamesOfPaths'
    BY <2>1, <2>4 DEF IInv, NamesOfPaths
  <2>8. PathsOfNames'
    <3>1. pc'[c] = "record" /\ n = tryName(c)'
      BY <2>1, <2>3 DEF IInv, TypeOK, n
    <3>2. \A m \in DOMAIN pkgNameToPkgPath :
            /\ pkgNameToPkgPath[m] \in DOMAIN pkgPathToPkgName
            /\ pkgPathToPkgName[pkgNameToPkgPath[m]] = m
      <4>1. \A d \in Callers : pc[d] # "record"
        BY <2>1, <2>2 DEF Critical
      <4>2. QED BY <4>1 DEF IInv, PathsOfNames
    <3>3. QED BY <3>1, <3>2, <2>1, <2>4 DEF PathsOfNames
  <2>9. InHand'
    <3>1. \A d \in Callers : d # c => pc'[d] \notin Critical
      BY <2>1, <2>2 DEF IInv, TypeOK
    <3>2. path[c] \notin DOMAIN pkgPathToPkgName
      BY <2>1 DEF IInv, InHand
    <3>3. tryName(c)' = n
      BY <2>3 DEF n
    <3>4. QED BY <3>1, <3>2, <3>3, <2>1, <2>4 DEF InHand, Critical
  <2>10. AnswersHold'
    BY <2>1 DEF IInv, AnswersHold
  <2>11. QED BY <2>5, <2>6, <2>7, <2>8, <2>9, <2>10 DEF IInv
<1>7. ASSUME NEW c \in Callers, Record(c)
      PROVE  IInv'
  <2> DEFINE n == tryName(c)
             q == path[c]
  <2>1. /\ pc[c] = "record"
        /\ pkgPathToPkgName' = Put(pkgPathToPkgName, q, n)
        /\ Return(c, n)
        /\ UNCHANGED <<pkgNameToPkgPath, path, i>>
    BY <1>7 DEF Record
  <2>2. q \notin DOMAIN pkgPathToPkgName /\ n \in DOMAIN pkgNameToPkgPath /\ pkgNameToPkgPath[n] = q
    BY <2>1 DEF IInv, InHand
  <2>3. q \in Paths /\ \A d \in Callers : d # c => pc[d] \notin Critical
    BY <2>1, OneInside DEF Critical, IInv, TypeOK
  <2> HIDE DEF n, q
  <2>4. /\ DOMAIN pkgPathToPkgName' = DOMAIN pkgPathToPkgName \cup {q}
        /\ pkgPathToPkgName'[q] = n
        /\ \A p \in DOMAIN pkgPathToPkgName : pkgPathToPkgName'[p] = pkgPathToPkgName[p]
    BY <2>1, <2>2 DEF Put
  <2>5. /\ pc' = [pc EXCEPT ![c] = "idle"] /\ mu' = None
        /\ answers' = answers \cup {<<q, n>>}
    BY <2>1 DEF Return, q
  <2>6. TypeOK'
    BY <2>1, <2>2, <2>3, <2>4, <2>5 DEF IInv, TypeOK
  <2>7. Mutex'
    BY <2>1, ReturnMutex DEF Critical
  <2>8. NamesOfPaths'
    BY <2>1, <2>2, <2>4 DEF IInv, NamesOfPaths
  <2>9. PathsOfNames'
    <3>1. ASSUME NEW m \in DOMAIN pkgNameToPkgPath, m # n
          PROVE  /\ pkgNameToPkgPath[m] \in DOMAIN pkgPathToPkgName
                 /\ pkgPathToPkgName[pkgNameToPkgPath[m]] = m
      BY <3>1, <2>3 DEF IInv, PathsOfNames, Critical, n
    <3>2. QED BY <3>1, <2>1, <2>2, <2>4 DEF PathsOfNames
  <2>10. \A d \in Callers : pc'[d] \notin Critical
    BY <2>3, <2>5 DEF IInv, TypeOK, Critical
  <2>11. InHand'
    BY <2>10 DEF InHand, Critical
  <2>12. AnswersHold'
    BY <2>2, <2>4, <2>5 DEF IInv, AnswersHold
  <2>13. QED BY <2>6, <2>7, <2>8, <2>9, <2>11, <2>12 DEF IInv
<1>8. CASE UNCHANGED vars
  BY <1>8 DEF vars, IInv, TypeOK, Mutex, NamesOfPaths, PathsOfNames, InHand, AnswersHold, tryName
<1>9. QED BY <1>1, <1>2, <1>3, <1>4, <1>5, <1>6, <1>7, <1>8 DEF Next, Resolve

-----------------------------------------------------------------------------

\* Every variable keeps its type; in particular every answer is a name in the map
\* (package.go:31-66).
THEOREM TypeCorrect == Spec => []TypeOK
<1>1. IInv => TypeOK
  BY DEF IInv
<1>2. QED BY <1>1, InitIInv, StepIInv, PTL DEF Spec

\* However the calls interleave, the two maps are inverse whenever the mutex is
\* free (package.go:42-64).
THEOREM AlwaysMapsAgree == Spec => []MapsAgree
<1>1. IInv => MapsAgree
  <2> SUFFICES ASSUME IInv, mu = None PROVE MapsAgree
    BY DEF MapsAgree
  <2>1. \A c \in Callers : pc[c] # "record"
    BY CallersAssumption DEF IInv, Mutex, Critical
  <2>2. QED BY <2>1 DEF IInv, NamesOfPaths, PathsOfNames, MapsAgree
<1>2. QED BY <1>1, InitIInv, StepIInv, PTL DEF Spec

\* No two answers disagree: a package is never given two names, and no name two
\* packages, so that the imports and the code of a generated file agree
\* (package.go:48-61).
THEOREM AlwaysOneNameEach == Spec => []OneNameEach
<1>1. IInv => OneNameEach
  <2> SUFFICES ASSUME IInv, NEW a \in answers, NEW b \in answers
               PROVE  a[1] = b[1] <=> a[2] = b[2]
    BY DEF OneNameEach
  <2>1. /\ a[1] \in DOMAIN pkgPathToPkgName /\ a[2] = pkgPathToPkgName[a[1]]
        /\ b[1] \in DOMAIN pkgPathToPkgName /\ b[2] = pkgPathToPkgName[b[1]]
    BY DEF IInv, AnswersHold
  <2>2. pkgNameToPkgPath[a[2]] = a[1] /\ pkgNameToPkgPath[b[2]] = b[1]
    BY <2>1 DEF IInv, NamesOfPaths
  <2>3. QED BY <2>1, <2>2
<1>2. QED BY <1>1, InitIInv, StepIInv, PTL DEF Spec

LEMMA StepNaming == IInv /\ [Next]_vars => [Naming!Next]_(Naming!vars)
<1> SUFFICES ASSUME IInv, Next PROVE Naming!Next \/ UNCHANGED Naming!vars
  BY DEF vars, Naming!vars
<1>1. PICK c \in Callers : Call(c) \/ Resolve(c)
  BY DEF Next
<1>2. path[c] \in Paths
  BY DEF IInv, TypeOK
<1>3. CASE Call(c) \/ Lock(c) \/ Unknown(c) \/ Taken(c) \/ Free(c)
  BY <1>3 DEF Call, Lock, Unknown, Taken, Free, Naming!vars
<1>4. CASE Known(c)
  <2>1. Naming!Resolve(path[c])
    BY <1>4 DEF Known, IsKnown, Return, Naming!Resolve, Naming!Answer
  <2>2. QED BY <2>1, <1>2 DEF Naming!Next
<1>5. CASE Record(c)
  <2> DEFINE n == tryName(c)
             q == path[c]
  <2>1. /\ q \notin DOMAIN pkgPathToPkgName /\ pkgNameToPkgPath[n] = q
    BY <1>5 DEF Record, IInv, InHand
  <2>2. pkgPathToPkgName' = Put(pkgPathToPkgName, q, n) /\ answers' = answers \cup {<<q, n>>}
    BY <1>5 DEF Record, Return
  <2> HIDE DEF n, q
  <2>3. /\ DOMAIN pkgPathToPkgName' = DOMAIN pkgPathToPkgName \cup {q}
        /\ pkgPathToPkgName'[q] = n
        /\ \A p \in DOMAIN pkgPathToPkgName : pkgPathToPkgName'[p] = pkgPathToPkgName[p]
    BY <2>1, <2>2 DEF Put
  <2>4. \A p \in DOMAIN pkgPathToPkgName : pkgPathToPkgName[p] # n
    BY <2>1 DEF IInv, NamesOfPaths
  <2>5. Naming!Resolve(q)
    BY <2>1, <2>2, <2>3, <2>4 DEF Naming!Resolve, Naming!Answer
  <2>6. QED BY <2>5, <1>2 DEF Naming!Next, q
<1>6. QED BY <1>1, <1>3, <1>4, <1>5 DEF Resolve

\* resolvePkgName implements PkgNaming: each call takes effect at once, although
\* it writes two maps, and what is named stays named (package.go:31-66).
THEOREM Implements == Spec => IsNaming
<1>1. Init => Naming!Init
  BY DEF Init, Naming!Init
<1>2. QED BY <1>1, InitIInv, StepIInv, StepNaming, PTL DEF Spec, IsNaming, Naming!Spec

-----------------------------------------------------------------------------
(***************************************************************************)
(* The files that are generated with those names.                          *)
(***************************************************************************)

\* What a file has been told is what the maps still say.
ToldNames ==
  \A c \in Callers :
    /\ \A p \in DOMAIN imports[c] :
         p \in DOMAIN pkgPathToPkgName /\ imports[c][p] = pkgPathToPkgName[p]
    /\ \A u \in uses[c] :
         u[1] \in DOMAIN pkgPathToPkgName /\ u[2] = pkgPathToPkgName[u[1]]

\* The defaults keep the names that every import list gives them.
DefaultsKept ==
  \A p \in DOMAIN Defaults :
    p \in DOMAIN pkgPathToPkgName /\ pkgPathToPkgName[p] = Defaults[p]

\* Between Ask and Learn the path asked for is that of the field at hand.
Asking ==
  \A c \in Callers :
    pc[c] # "idle" =>
      /\ phase[c] \in {"imports", "body"}
      /\ at[c] <= Len(file[c].fields)
      /\ Foreign(c)
      /\ path[c] = fieldPath(c)

Wanted(f, k) == f.fields[k][1] # f.pkg /\ Imported(f.fields[k][2])
Mentioned(f, k) == f.fields[k][1] # f.pkg /\ Named(f.fields[k][2])

\* The import list has the fields passed so far; in the body, those of them all.
ListCovers ==
  \A c \in Callers :
    /\ phase[c] = "imports" =>
         /\ uses[c] = {}
         /\ \A k \in 1..Len(file[c].fields) :
              k < at[c] /\ Wanted(file[c], k) => file[c].fields[k][1] \in DOMAIN imports[c]
    /\ phase[c] \in {"body", "written"} =>
         /\ DOMAIN Defaults \subseteq DOMAIN imports[c]
         /\ \A k \in 1..Len(file[c].fields) :
              Wanted(file[c], k) => file[c].fields[k][1] \in DOMAIN imports[c]
         /\ \A u \in uses[c] : u[1] \in DOMAIN imports[c]

\* Every import is of some field, and the body has named those it has passed.
ListNeeded ==
  \A c \in Callers :
    /\ \A p \in DOMAIN imports[c] :
         \/ p \in DOMAIN Defaults
         \/ \E k \in 1..Len(file[c].fields) : Wanted(file[c], k) /\ file[c].fields[k][1] = p
    /\ phase[c] = "body" =>
         \A k \in 1..Len(file[c].fields) :
           k < at[c] =>
             /\ file[c].fields[k][2] # "unsupported"
             /\ Mentioned(file[c], k) => \E u \in uses[c] : u[1] = file[c].fields[k][1]
    /\ phase[c] = "written" =>
         \A k \in 1..Len(file[c].fields) :
           /\ file[c].fields[k][2] # "unsupported"
           /\ Mentioned(file[c], k) => \E u \in uses[c] : u[1] = file[c].fields[k][1]

FInv ==
  /\ IInv
  /\ FileTypeOK
  /\ ToldNames
  /\ DefaultsKept
  /\ Asking
  /\ ListCovers
  /\ ListNeeded

\* The files only make calls: to resolvePkgName they are callers like any.
LEMMA FileStepIsStep == FileNext => [Next]_vars
BY DEF FileNext, Next, Open, Pass, Ask, Work, Learn, Header, Write, Fail, Resolve

LEMMA InitFInv == FileInit => FInv
<1> SUFFICES ASSUME FileInit PROVE FInv
  OBVIOUS
<1>1. IInv
  BY InitIInv DEF FileInit
<1>2. FileTypeOK
  BY <1>1 DEF FileInit, FileTypeOK, IInv
<1>3. ToldNames /\ DefaultsKept /\ Asking
  BY DEF FileInit, Init, ToldNames, DefaultsKept, Asking
<1>4. ListCovers /\ ListNeeded
  BY DEF FileInit, ListCovers, ListNeeded
<1>5. QED BY <1>1, <1>2, <1>3, <1>4 DEF FInv

\* A name that is given stays given.
LEMMA NamesStay ==
  ASSUME IInv, Next
  PROVE  \A p \in DOMAIN pkgPathToPkgName :
           p \in DOMAIN pkgPathToPkgName' /\ pkgPathToPkgName'[p] = pkgPathToPkgName[p]
<1>1. PICK c \in Callers : Call(c) \/ Resolve(c)
  BY DEF Next
<1>2. CASE Record(c)
  BY <1>2 DEF Record, Put, IInv, InHand
<1>3. CASE ~Record(c)
  BY <1>1, <1>3 DEF Resolve, Call, Lock, Known, Unknown, Taken, Free
<1>4. QED BY <1>2, <1>3

LEMMA NamesGrow ==
  ASSUME IInv, Next
  PROVE  DOMAIN pkgNameToPkgPath \subseteq DOMAIN pkgNameToPkgPath'
<1>1. PICK c \in Callers : Call(c) \/ Resolve(c)
  BY DEF Next
<1>2. QED BY <1>1 DEF Resolve, Call, Lock, Known, Unknown, Taken, Free, Record, Put

\* A step of the calls alone, which leaves every file where it is.
LEMMA CallStep ==
  ASSUME FInv, Next, IInv', UNCHANGED fileVars, Asking'
  PROVE  FInv'
<1>1. FileTypeOK'
  BY NamesGrow DEF FInv, FileTypeOK, IInv, fileVars
<1>2. ToldNames' /\ DefaultsKept'
  BY NamesStay DEF FInv, ToldNames, DefaultsKept, fileVars
<1>3. ListCovers' /\ ListNeeded'
  BY DEF FInv, ListCovers, ListNeeded, Wanted, Mentioned, fileVars
<1>4. QED BY <1>1, <1>2, <1>3 DEF FInv

LEMMA OpenStep ==
  ASSUME FInv, NEW c \in Callers, Open(c)
  PROVE  FInv'
<1>1. PICK f \in Files : file' = [file EXCEPT ![c] = f]
  BY DEF Open
<1>2. /\ phase[c] \in {"none", "written", "failed"}
      /\ phase' = [phase EXCEPT ![c] = "imports"]
      /\ at' = [at EXCEPT ![c] = 1]
      /\ imports' = [imports EXCEPT ![c] = <<>>]
      /\ uses' = [uses EXCEPT ![c] = {}]
      /\ UNCHANGED vars
  BY DEF Open
<1> USE <1>1, <1>2
<1>3. IInv'
  BY StepIInv DEF FInv
<1>4. FileTypeOK'
  BY <1>3 DEF FInv, FileTypeOK, IInv, vars
<1>5. ToldNames'
  BY DEF FInv, ToldNames, FileTypeOK, vars
<1>6. DefaultsKept'
  BY DEF FInv, DefaultsKept, vars
<1>7. Asking'
  <2>1. pc[c] = "idle"
    BY DEF FInv, Asking
  <2>2. QED BY <2>1 DEF FInv, Asking, FileTypeOK, Foreign, fieldPath, fieldKind, vars
<1>8. ListCovers'
  BY FilesAssumption DEF FInv, ListCovers, FileTypeOK
<1>9. ListNeeded'
  BY FilesAssumption DEF FInv, ListNeeded, FileTypeOK
<1>10. QED BY <1>3, <1>4, <1>5, <1>6, <1>7, <1>8, <1>9 DEF FInv

LEMMA PassStep ==
  ASSUME FInv, NEW c \in Callers, Pass(c)
  PROVE  FInv'
<1>1. /\ AtField(c) /\ Supported(c) /\ ~Foreign(c)
      /\ at' = [at EXCEPT ![c] = @ + 1]
      /\ UNCHANGED <<vars, phase, file, imports, uses>>
  BY DEF Pass
<1> DEFINE k == at[c]
<1>2. k \in 1..Len(file[c].fields)
  BY <1>1, FilesAssumption DEF AtField, FInv, FileTypeOK
<1>3. IInv'
  BY <1>1, StepIInv DEF FInv
<1>4. FileTypeOK'
  BY <1>1, <1>3 DEF FInv, FileTypeOK, IInv, vars
<1>5. ToldNames' /\ DefaultsKept'
  BY <1>1 DEF FInv, ToldNames, DefaultsKept, vars
<1>6. Asking'
  BY <1>1 DEF FInv, Asking, FileTypeOK, AtField, Foreign, fieldPath, fieldKind, vars
<1>7. ListCovers'
  <2>1. phase[c] = "imports" => ~Wanted(file[c], k)
    BY <1>1 DEF Foreign, fieldPath, fieldKind, Wanted
  <2>2. \A j \in Nat : j < k + 1 => j < k \/ j = k
    BY <1>2
  <2>3. QED BY <1>1, <1>2, <2>1, <2>2 DEF FInv, ListCovers, FileTypeOK
<1>8. ListNeeded'
  <2>1. phase[c] = "body" => ~Mentioned(file[c], k) /\ file[c].fields[k][2] # "unsupported"
    BY <1>1 DEF Foreign, fieldPath, fieldKind, Mentioned, Supported
  <2>2. \A j \in Nat : j < k + 1 => j < k \/ j = k
    BY <1>2
  <2>3. QED BY <1>1, <1>2, <2>1, <2>2 DEF FInv, ListNeeded, FileTypeOK
<1>9. QED BY <1>3, <1>4, <1>5, <1>6, <1>7, <1>8 DEF FInv

LEMMA AskStep ==
  ASSUME FInv, NEW c \in Callers, Ask(c)
  PROVE  FInv'
<1>1. /\ AtField(c) /\ Foreign(c) /\ path'[c] = fieldPath(c)
      /\ UNCHANGED fileVars /\ Call(c)
  BY DEF Ask
<1>2. Next
  BY <1>1 DEF Next
<1>3. IInv'
  BY <1>2, StepIInv DEF FInv
<1>4. Asking'
  <2>1. PICK p \in Paths : path' = [path EXCEPT ![c] = p]
    BY <1>1 DEF Call
  <2>2. pc' = [pc EXCEPT ![c] = "lock"]
    BY <1>1 DEF Call
  <2>3. Foreign(c)' /\ fieldPath(c)' = fieldPath(c)
    BY <1>1 DEF Foreign, fieldPath, fieldKind, fileVars
  <2>4. ASSUME NEW d \in Callers, d # c, pc'[d] # "idle"
        PROVE  /\ phase'[d] \in {"imports", "body"} /\ at'[d] <= Len(file'[d].fields)
               /\ Foreign(d)' /\ path'[d] = fieldPath(d)'
    BY <1>1, <2>1, <2>2, <2>4
       DEF FInv, IInv, TypeOK, Asking, Foreign, fieldPath, fieldKind, fileVars
  <2>5. QED BY <1>1, <2>3, <2>4 DEF Asking, AtField, fileVars
<1>5. QED BY <1>1, <1>2, <1>3, <1>4, CallStep

LEMMA WorkStep ==
  ASSUME FInv, NEW c \in Callers, Work(c)
  PROVE  FInv'
<1>1. Lock(c) \/ Unknown(c) \/ Taken(c) \/ Free(c)
  BY DEF Work
<1>2. Next /\ UNCHANGED fileVars
  BY DEF Work, Next, Resolve
<1>3. IInv'
  BY <1>2, StepIInv DEF FInv
<1>4. UNCHANGED path /\ \A d \in Callers : pc'[d] # "idle" => pc[d] # "idle"
  BY <1>1 DEF Lock, Unknown, Taken, Free, FInv, IInv, TypeOK
<1>5. Asking'
  BY <1>2, <1>4 DEF FInv, Asking, Foreign, fieldPath, fieldKind, fileVars
<1>6. QED BY <1>2, <1>3, <1>5, CallStep

\* What the caller is told is the name that is recorded.
LEMMA ReturnsTheName ==
  ASSUME IInv, NEW c \in Callers, Known(c) \/ Record(c)
  PROVE  /\ path[c] \in DOMAIN pkgPathToPkgName'
         /\ pkgPathToPkgName'[path[c]] \in DOMAIN pkgNameToPkgPath'
         /\ pc' = [pc EXCEPT ![c] = "idle"]
         /\ UNCHANGED path
<1>1. CASE Known(c)
  BY <1>1 DEF Known, IsKnown, Return, IInv, NamesOfPaths
<1>2. CASE Record(c)
  BY <1>2 DEF Record, Return, Put, IInv, InHand
<1>3. QED BY <1>1, <1>2

LEMMA LearnStep ==
  ASSUME FInv, NEW c \in Callers, Learn(c)
  PROVE  FInv'
<1> DEFINE k == at[c]
           p == path[c]
           name == pkgPathToPkgName'[p]
           f == file[c]
<1>1. /\ Known(c) \/ Record(c)
      /\ Note(c, name)
      /\ at' = [at EXCEPT ![c] = @ + 1]
      /\ UNCHANGED <<phase, file>>
  BY DEF Learn
<1>2. Next /\ pc[c] # "idle"
  BY <1>1 DEF Next, Resolve, Known, Record
<1>3. IInv'
  BY <1>2, StepIInv DEF FInv
<1>4. /\ p \in DOMAIN pkgPathToPkgName' /\ name \in DOMAIN pkgNameToPkgPath'
      /\ pc' = [pc EXCEPT ![c] = "idle"] /\ UNCHANGED path
  BY <1>1, ReturnsTheName DEF FInv
<1>5. /\ phase[c] \in {"imports", "body"} /\ k \in 1..Len(f.fields)
      /\ Foreign(c) /\ p = f.fields[k][1] /\ p \in Paths
  BY <1>2, FilesAssumption DEF FInv, FileTypeOK, Asking, fieldPath, IInv, TypeOK
<1>6. /\ phase[c] = "imports" => Wanted(f, k)
      /\ phase[c] = "body" => Mentioned(f, k)
  BY <1>5 DEF Foreign, fieldPath, fieldKind, Wanted, Mentioned
<1>7. Wanted(f, k)
  BY <1>6, <1>5 DEF Wanted, Mentioned, Named, Imported
<1>8. \/ /\ phase[c] = "imports" /\ UNCHANGED uses
         /\ imports' = [imports EXCEPT ![c] = Put(imports[c], p, name)]
      \/ /\ phase[c] = "body" /\ UNCHANGED imports
         /\ uses' = [uses EXCEPT ![c] = uses[c] \cup {<<p, name>>}]
  BY <1>1, <1>5 DEF Note
<1>9. DOMAIN Put(imports[c], p, name) = DOMAIN imports[c] \cup {p}
      /\ Put(imports[c], p, name)[p] = name
      /\ \A q \in DOMAIN imports[c] : q # p => Put(imports[c], p, name)[q] = imports[c][q]
  BY DEF Put
<1> HIDE DEF k, p, name, f
<1>10. FileTypeOK'
  <2>1. DOMAIN pkgNameToPkgPath \subseteq DOMAIN pkgNameToPkgPath'
    BY <1>2, NamesGrow DEF FInv
  <2>2. DOMAIN imports' = Callers /\ DOMAIN uses' = Callers
    BY <1>8 DEF FInv, FileTypeOK
  <2>3. ASSUME NEW d \in Callers
        PROVE  /\ DOMAIN imports'[d] \subseteq Paths
               /\ uses'[d] \subseteq Paths \X DOMAIN pkgNameToPkgPath'
    <3>1. CASE d # c
      BY <3>1, <2>1, <1>8 DEF FInv, FileTypeOK
    <3>2. CASE d = c
      BY <3>2, <2>1, <1>4, <1>5, <1>8, <1>9 DEF FInv, FileTypeOK
    <3>3. QED BY <3>1, <3>2
  <2>4. QED BY <2>2, <2>3, <1>1, <1>3 DEF FInv, FileTypeOK, IInv
<1>11. ToldNames'
  <2>1. \A q \in DOMAIN pkgPathToPkgName :
          q \in DOMAIN pkgPathToPkgName' /\ pkgPathToPkgName'[q] = pkgPathToPkgName[q]
    BY <1>2, NamesStay DEF FInv
  <2>2. name = pkgPathToPkgName'[p]
    BY DEF name, p
  <2>3. QED BY <2>1, <2>2, <1>4, <1>8, <1>9 DEF FInv, ToldNames, FileTypeOK
<1>12. DefaultsKept'
  BY <1>2, NamesStay DEF FInv, DefaultsKept
<1>13. Asking'
  BY <1>1, <1>4 DEF FInv, Asking, FileTypeOK, IInv, TypeOK, Foreign, fieldPath, fieldKind
<1>14. at'[c] = k + 1 /\ \A j \in Nat : j < k + 1 => j < k \/ j = k
  BY <1>1, <1>5 DEF FInv, FileTypeOK, k
<1>15. ListCovers'
  <2>1. ASSUME NEW d \in Callers, d # c
        PROVE  /\ phase'[d] = phase[d] /\ file'[d] = file[d] /\ at'[d] = at[d]
               /\ imports'[d] = imports[d] /\ uses'[d] = uses[d]
    BY <1>1, <1>8, <2>1 DEF FInv, FileTypeOK
  <2>2. CASE phase[c] = "imports"
    <3>1. /\ phase'[c] = "imports" /\ file'[c] = f /\ uses'[c] = {}
          /\ DOMAIN imports'[c] = DOMAIN imports[c] \cup {p}
      BY <2>2, <1>1, <1>8, <1>9 DEF FInv, ListCovers, FileTypeOK, f
    <3>2. ASSUME NEW j \in 1..Len(f.fields), j < k + 1, Wanted(f, j)
          PROVE  f.fields[j][1] \in DOMAIN imports'[c]
      <4>1. j < k \/ j = k
        BY <3>2, <1>14
      <4>2. QED BY <4>1, <3>1, <3>2, <2>2, <1>5 DEF FInv, ListCovers, f, k
    <3>3. QED BY <2>1, <3>1, <3>2, <1>14 DEF FInv, ListCovers
  <2>3. CASE phase[c] = "body"
    BY <2>1, <2>3, <1>1, <1>5, <1>7, <1>8 DEF FInv, ListCovers, FileTypeOK, f
  <2>4. QED BY <2>2, <2>3, <1>5
<1>16. ListNeeded'
  <2>1. ASSUME NEW d \in Callers, d # c
        PROVE  /\ phase'[d] = phase[d] /\ file'[d] = file[d] /\ at'[d] = at[d]
               /\ imports'[d] = imports[d] /\ uses'[d] = uses[d]
    BY <1>1, <1>8, <2>1 DEF FInv, FileTypeOK
  <2>2. CASE phase[c] = "imports"
    <3>1. /\ phase'[c] = "imports" /\ file'[c] = f
          /\ DOMAIN imports'[c] = DOMAIN imports[c] \cup {p}
      BY <2>2, <1>1, <1>8, <1>9 DEF FInv, FileTypeOK, f
    <3>2. \A q \in DOMAIN imports'[c] :
            \/ q \in DOMAIN Defaults
            \/ \E j \in 1..Len(f.fields) : Wanted(f, j) /\ f.fields[j][1] = q
      BY <3>1, <1>5, <1>7 DEF FInv, ListNeeded, f
    <3>3. QED BY <2>1, <3>1, <3>2 DEF FInv, ListNeeded
  <2>3. CASE phase[c] = "body"
    <3>1. f.fields[k][2] # "unsupported"
      BY <2>3, <1>6 DEF Mentioned, Named
    <3>2. /\ phase'[c] = "body" /\ file'[c] = f /\ imports'[c] = imports[c]
          /\ uses'[c] = uses[c] \cup {<<p, name>>}
      BY <2>3, <1>1, <1>8 DEF FInv, FileTypeOK, f
    <3>3. ASSUME NEW j \in 1..Len(f.fields), j < k + 1
          PROVE  /\ f.fields[j][2] # "unsupported"
                 /\ Mentioned(f, j) => \E u \in uses'[c] : u[1] = f.fields[j][1]
      <4>1. CASE j = k
        <5>1. <<p, name>> \in uses'[c] /\ <<p, name>>[1] = f.fields[j][1]
          BY <4>1, <3>2, <1>5
        <5>2. QED BY <4>1, <5>1, <3>1
      <4>2. CASE j < k
        BY <4>2, <3>2, <2>3 DEF FInv, ListNeeded, f, k
      <4>3. QED BY <4>1, <4>2, <3>3, <1>14
    <3>4. QED BY <2>1, <3>2, <3>3, <1>14 DEF FInv, ListNeeded, f
  <2>4. QED BY <2>2, <2>3, <1>5
<1>17. QED BY <1>3, <1>10, <1>11, <1>12, <1>13, <1>15, <1>16 DEF FInv

LEMMA HeaderStep ==
  ASSUME FInv, NEW c \in Callers, Header(c)
  PROVE  FInv'
<1> DEFINE list == WithDefaults(imports[c])
<1>1. /\ phase[c] = "imports" /\ at[c] > Len(file[c].fields)
      /\ imports' = [imports EXCEPT ![c] = list]
      /\ phase' = [phase EXCEPT ![c] = "body"]
      /\ at' = [at EXCEPT ![c] = 1]
      /\ UNCHANGED <<vars, file, uses>>
  BY DEF Header
<1>2. /\ DOMAIN list = DOMAIN imports[c] \cup DOMAIN Defaults
      /\ \A q \in DOMAIN list :
           list[q] = IF q \in DOMAIN Defaults THEN Defaults[q] ELSE imports[c][q]
  BY DEF WithDefaults
<1> HIDE DEF list
<1>3. IInv'
  BY <1>1, StepIInv DEF FInv
<1>4. FileTypeOK'
  BY <1>1, <1>2, <1>3, DefaultsAssumption DEF FInv, FileTypeOK, IInv, vars
<1>5. ToldNames'
  BY <1>1, <1>2 DEF FInv, ToldNames, DefaultsKept, FileTypeOK, vars
<1>6. DefaultsKept'
  BY <1>1 DEF FInv, DefaultsKept, vars
<1>7. Asking'
  <2>1. pc[c] = "idle"
    BY <1>1, FilesAssumption DEF FInv, Asking, FileTypeOK
  <2>2. QED BY <2>1, <1>1 DEF FInv, Asking, FileTypeOK, Foreign, fieldPath, fieldKind, vars
<1>8. \A k \in 1..Len(file[c].fields) : k < at[c]
  BY <1>1, FilesAssumption DEF FInv, FileTypeOK
<1>9. ListCovers'
  BY <1>1, <1>2, <1>8 DEF FInv, ListCovers, FileTypeOK
<1>10. ListNeeded'
  BY <1>1, <1>2 DEF FInv, ListNeeded, FileTypeOK
<1>11. QED BY <1>3, <1>4, <1>5, <1>6, <1>7, <1>9, <1>10 DEF FInv

\* Write or Fail: only the phase changes.
LEMMA EndStep ==
  ASSUME FInv, NEW c \in Callers, Write(c) \/ Fail(c)
  PROVE  FInv'
<1>1. /\ phase[c] \in {"imports", "body"} /\ UNCHANGED <<vars, file, at, imports, uses>>
      /\ \/ /\ phase' = [phase EXCEPT ![c] = "written"]
            /\ phase[c] = "body" /\ at[c] > Len(file[c].fields)
         \/ phase' = [phase EXCEPT ![c] = "failed"] /\ pc[c] = "idle"
  BY DEF Write, Fail, AtField
<1>2. IInv'
  BY <1>1, StepIInv DEF FInv
<1>3. FileTypeOK'
  BY <1>1, <1>2 DEF FInv, FileTypeOK, IInv, vars
<1>4. ToldNames' /\ DefaultsKept'
  BY <1>1 DEF FInv, ToldNames, DefaultsKept, vars
<1>5. Asking'
  <2>1. pc[c] = "idle"
    BY <1>1, FilesAssumption DEF FInv, Asking, FileTypeOK
  <2>2. QED BY <2>1, <1>1 DEF FInv, Asking, FileTypeOK, Foreign, fieldPath, fieldKind, vars
<1>6. phase[c] = "body" /\ at[c] > Len(file[c].fields) =>
        \A k \in 1..Len(file[c].fields) : k < at[c]
  BY FilesAssumption DEF FInv, FileTypeOK
<1>7. ListCovers'
  BY <1>1 DEF FInv, ListCovers, FileTypeOK
<1>8. ListNeeded'
  BY <1>1, <1>6 DEF FInv, ListNeeded, FileTypeOK
<1>9. QED BY <1>2, <1>3, <1>4, <1>5, <1>7, <1>8 DEF FInv

LEMMA StepFInv == FInv /\ [FileNext]_allVars => FInv'
<1> SUFFICES ASSUME FInv, [FileNext]_allVars PROVE FInv'
  OBVIOUS
<1>1. CASE UNCHANGED allVars
  <2>1. IInv'
    BY <1>1, StepIInv DEF FInv, allVars
  <2>2. QED
    BY <2>1, <1>1 DEF FInv, FileTypeOK, IInv, ToldNames, DefaultsKept, Asking, ListCovers,
       ListNeeded, Foreign, fieldPath, fieldKind, allVars, fileVars, vars
<1>2. CASE FileNext
  BY <1>2, OpenStep, PassStep, AskStep, WorkStep, LearnStep, HeaderStep, EndStep DEF FileNext
<1>3. QED BY <1>1, <1>2

-----------------------------------------------------------------------------

\* The files that are being generated are callers of resolvePkgName and nothing
\* more: what is proved of any callers holds of them (gen.go:43-51, 107-127).
THEOREM FilesAreCallers == FileSpec => Spec
<1>1. FileInit => Init
  BY DEF FileInit
<1>2. [FileNext]_allVars => [Next]_vars
  BY FileStepIsStep DEF allVars
<1>3. QED BY <1>1, <1>2, PTL DEF FileSpec, Spec

\* Every variable keeps its type, those of the files included
\* (gen.go:43-77, package.go:36-88).
THEOREM FilesTypeCorrect == FileSpec => []FileTypeOK
<1>1. FInv => FileTypeOK
  BY DEF FInv
<1>2. QED BY <1>1, InitFInv, StepFInv, PTL DEF FileSpec

\* Every name in the code of a file is in its import list, and a file that is
\* written imports nothing else, whatever is generated meanwhile
\* (gen.go:43-51, 107-127, 150-166).
THEOREM AlwaysImportsMatchBody == FileSpec => []ImportsMatchBody
<1>1. FInv => ImportsMatchBody
  <2> SUFFICES ASSUME FInv, NEW c \in Callers
      PROVE  /\ phase[c] \in {"body", "written"} =>
                 \A u \in uses[c] : u[1] \in DOMAIN imports[c] /\ imports[c][u[1]] = u[2]
             /\ phase[c] = "written" =>
                 DOMAIN imports[c] \subseteq { u[1] : u \in uses[c] } \cup DOMAIN Defaults
    BY DEF ImportsMatchBody
  <2>1. ASSUME phase[c] \in {"body", "written"}, NEW u \in uses[c]
        PROVE  u[1] \in DOMAIN imports[c] /\ imports[c][u[1]] = u[2]
    BY <2>1 DEF FInv, ListCovers, ToldNames
  <2>2. ASSUME phase[c] = "written", NEW p \in DOMAIN imports[c], p \notin DOMAIN Defaults
        PROVE  \E u \in uses[c] : u[1] = p
    <3>1. PICK k \in 1..Len(file[c].fields) : Wanted(file[c], k) /\ file[c].fields[k][1] = p
      BY <2>2 DEF FInv, ListNeeded
    <3>2. file[c] \in Files /\ file[c].fields \in Seq(Paths \X Kinds)
      BY FilesAssumption DEF FInv, FileTypeOK
    <3>3. file[c].fields[k] \in Paths \X Kinds
      BY <3>2
    <3>4. file[c].fields[k][2] # "unsupported" /\ file[c].fields[k][2] # "deferred"
      BY <2>2, <3>1, <3>2, FilesAssumption DEF FInv, ListNeeded
    <3>5. Mentioned(file[c], k)
      BY <3>1, <3>3, <3>4 DEF Wanted, Mentioned, Imported, Named, Kinds
    <3>6. QED BY <2>2, <3>1, <3>5 DEF FInv, ListNeeded
  <2>3. QED BY <2>1, <2>2
<1>2. QED BY <1>1, InitFInv, StepFInv, PTL DEF FileSpec

\* No two imports of a file have one name, the defaults included
\* (gen.go:49-50, package.go:23-34).
THEOREM AlwaysImportsDistinct == FileSpec => []ImportsDistinct
<1>1. FInv => ImportsDistinct
  BY DEF FInv, ImportsDistinct, ToldNames, IInv, NamesOfPaths
<1>2. QED BY <1>1, InitFInv, StepFInv, PTL DEF FileSpec
=============================================================================
