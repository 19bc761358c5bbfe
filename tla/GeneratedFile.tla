---------------------------- MODULE GeneratedFile ----------------------------
(***************************************************************************)
(* WriteTupleEncodersToFile and WriteMapEncodersToFile (writefile.go) as    *)
(* callers of resolvePkgName: the import list is printed first, from the   *)
(* kinds of the fields (Imports), and the templates name the types of the  *)
(* fields afterwards, each with a call of its own.  A file that lacks a    *)
(* name, has one twice or has one that its code never mentions is one that *)
(* Go refuses to compile.  Fields of built-in types ask nothing and are    *)
(* left out.                                                               *)
(***************************************************************************)
EXTENDS PkgNames, Sequences

CONSTANT Files   \* what a call generates: a package, and <<path, kind>> of the fields

\* "scalar" is a named integer or string, "deferred" a pointer to a Deferred, and
\* "unsupported" any type the generator has no template for, as []string.
Kinds == {"struct", "*struct", "[]struct", "map", "scalar", "bool", "cid", "deferred",
          "unsupported"}

ASSUME FilesAssumption ==
  \A f \in Files :
    /\ f.pkg \in Paths
    /\ f.fields \in Seq(Paths \X Kinds)
    /\ \A k \in 1..Len(f.fields) :
         f.fields[k][2] = "deferred" => f.fields[k][1] \in DOMAIN Defaults

VARIABLES
  phase,     \* "none", "imports", "body", "written" or "failed", of each caller's file
  file,      \* the member of Files it generates
  at,        \* the field it is at
  imports,   \* the names in the import list, by path
  uses       \* <<path, name>> for every type named in the code

fileVars == <<phase, file, at, imports, uses>>
allVars == <<vars, fileVars>>

FileInit ==
  /\ Init
  /\ phase = [c \in Callers |-> "none"]
  /\ file \in [Callers -> Files]
  /\ at = [c \in Callers |-> 1]
  /\ imports = [c \in Callers |-> <<>>]
  /\ uses = [c \in Callers |-> {}]

Open(c) ==
  /\ phase[c] \in {"none", "written", "failed"}
  /\ \E f \in Files : file' = [file EXCEPT ![c] = f]
  /\ phase' = [phase EXCEPT ![c] = "imports"]
  /\ at' = [at EXCEPT ![c] = 1]
  /\ imports' = [imports EXCEPT ![c] = <<>>]
  /\ uses' = [uses EXCEPT ![c] = {}]
  /\ UNCHANGED vars

\* The kinds whose types Imports looks into.  (Mutant: a struct is a struct, by
\* pointer too.)
StructsAreSkipped(kind) == kind \notin {"struct", "*struct", "bool", "cid"}
Imported(kind) == kind \notin {"struct", "bool", "cid"}

\* The kinds whose types the templates name.
Named(kind) == kind \in {"*struct", "[]struct", "map", "scalar"}

AtField(c) ==
  /\ phase[c] \in {"imports", "body"}
  /\ at[c] <= Len(file[c].fields)
  /\ pc[c] = "idle"

fieldPath(c) == file[c].fields[at[c]][1]
fieldKind(c) == file[c].fields[at[c]][2]

Supported(c) == phase[c] = "body" => fieldKind(c) # "unsupported"

\* A type of the package itself has no package name.
Foreign(c) ==
  /\ fieldPath(c) # file[c].pkg
  /\ IF phase[c] = "imports" THEN Imported(fieldKind(c)) ELSE Named(fieldKind(c))

Pass(c) ==
  /\ AtField(c)
  /\ Supported(c)
  /\ ~Foreign(c)
  /\ at' = [at EXCEPT ![c] = @ + 1]
  /\ UNCHANGED <<vars, phase, file, imports, uses>>

Ask(c) ==
  /\ AtField(c)
  /\ Supported(c)
  /\ Foreign(c)
  /\ Call(c)
  /\ path'[c] = fieldPath(c)
  /\ UNCHANGED fileVars

Work(c) ==
  /\ Lock(c) \/ Unknown(c) \/ Taken(c) \/ Free(c)
  /\ UNCHANGED fileVars

Note(c, name) ==
  IF phase[c] = "imports"
  THEN /\ imports' = [imports EXCEPT ![c] = Put(@, path[c], name)]
       /\ UNCHANGED uses
  ELSE /\ uses' = [uses EXCEPT ![c] = @ \cup {<<path[c], name>>}]
       /\ UNCHANGED imports

\* The call has returned.
Learn(c) ==
  /\ Known(c) \/ Record(c)
  /\ Note(c, pkgPathToPkgName'[path[c]])
  /\ at' = [at EXCEPT ![c] = @ + 1]
  /\ UNCHANGED <<phase, file>>

\* dedupImports of a list that ends with the defaults.
WithDefaults(list) ==
  [p \in DOMAIN list \cup DOMAIN Defaults |->
     IF p \in DOMAIN Defaults THEN Defaults[p] ELSE list[p]]

\* PrintHeaderAndUtilityMethods.
Header(c) ==
  /\ phase[c] = "imports"
  /\ at[c] > Len(file[c].fields)
  /\ imports' = [imports EXCEPT ![c] = WithDefaults(@)]
  /\ phase' = [phase EXCEPT ![c] = "body"]
  /\ at' = [at EXCEPT ![c] = 1]
  /\ UNCHANGED <<vars, file, uses>>

Write(c) ==
  /\ phase[c] = "body"
  /\ at[c] > Len(file[c].fields)
  /\ phase' = [phase EXCEPT ![c] = "written"]
  /\ UNCHANGED <<vars, file, at, imports, uses>>

\* "failed to generate encoders": nothing is written, but the names stay.
Fail(c) ==
  /\ AtField(c)
  /\ ~Supported(c)
  /\ phase' = [phase EXCEPT ![c] = "failed"]
  /\ UNCHANGED <<vars, file, at, imports, uses>>

FileNext ==
  \E c \in Callers :
    Open(c) \/ Pass(c) \/ Ask(c) \/ Work(c) \/ Learn(c) \/ Header(c) \/ Write(c) \/ Fail(c)

FileSpec == FileInit /\ [][FileNext]_allVars

\* A goroutine is scheduled sooner or later, and a sync.Mutex starves none.
FileFairness ==
  \A c \in Callers :
    /\ WF_allVars(Work(c) \/ Learn(c))
    /\ SF_allVars(Lock(c) /\ UNCHANGED fileVars)

FairFileSpec == FileSpec /\ FileFairness

-----------------------------------------------------------------------------

FileTypeOK ==
  /\ TypeOK
  /\ phase \in [Callers -> {"none", "imports", "body", "written", "failed"}]
  /\ file \in [Callers -> Files]
  /\ at \in [Callers -> Nat \ {0}]
  /\ DOMAIN imports = Callers /\ DOMAIN uses = Callers
  /\ \A c \in Callers :
       /\ DOMAIN imports[c] \subseteq Paths
       /\ uses[c] \subseteq Paths \X DOMAIN pkgNameToPkgPath

\* What the code of a file names is in its import list under the same name,
\* although other files are generated between the two calls, and a file that is
\* written imports nothing that it does not name: the switch in Imports
\* (gen.go:149-161) and the templates agree about every kind of field.
ImportsMatchBody ==
  \A c \in Callers :
    /\ phase[c] \in {"body", "written"} =>
         \A u \in uses[c] : u[1] \in DOMAIN imports[c] /\ imports[c][u[1]] = u[2]
    /\ phase[c] = "written" =>
         DOMAIN imports[c] \subseteq { u[1] : u \in uses[c] } \cup DOMAIN Defaults

\* No two imports of a file have one name, the defaults that every file has
\* included (gen.go:49-50, package.go:23-34).
ImportsDistinct ==
  \A c \in Callers :
    phase[c] \in {"body", "written"} =>
      \A p, q \in DOMAIN imports[c] : imports[c][p] = imports[c][q] => p = q
=============================================================================
