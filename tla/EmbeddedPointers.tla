-------------------------- MODULE EmbeddedPointers --------------------------
(***************************************************************************)
(* MarshalCBOR of one flattened value by several goroutines: the emitted   *)
(* InitNilEmbeddedStruct (gen.go) writes to the value it is called on, so  *)
(* that a marshaller replaces the nil pointers that another may be about   *)
(* to replace.  A struct embeds one pointer at most (two are not emitted), *)
(* so that the structs of a value are a chain; and a load or a store of a  *)
(* pointer is one step, as it is in every build.                           *)
(***************************************************************************)
EXTENDS Naturals, Sequences

CONSTANTS
  Marshallers,   \* goroutines
  Giver,         \* who made the value they share
  Nil

ASSUME WhoAssumption == Giver \notin Marshallers /\ Nil \notin Marshallers \cup {Giver}

VARIABLES
  levels,    \* of each field that is written: how many embedded pointers are above it
  deepest,   \* how many pointers are embedded in each other
  given,     \* how many of them were not nil before anybody marshalled
  next,      \* who made the struct that the pointer in a struct points to, or Nil
  mpc,       \* where each goroutine is
  cur,       \* the struct it is at
  held,      \* what it has found in, or assigned to, the pointer in that struct
  seen       \* who made the structs that its fields were read from

shared == <<levels, deepest, given>>
shareVars == <<levels, deepest, given, next, mpc, cur, held, seen>>

Who == Marshallers \cup {Giver}

\* A struct is known by who made it and how deep it is.
Top == <<Giver, 0>>

ShareInit ==
  /\ levels = <<>> /\ deepest = 0 /\ given = 0
  /\ next = [o \in Who \X {0} |-> Nil]
  /\ mpc = [m \in Marshallers |-> "none"]
  /\ cur = [m \in Marshallers |-> Top]
  /\ held = [m \in Marshallers |-> Nil]
  /\ seen = [m \in Marshallers |-> <<>>]

\* A value of a generated type whose first k embedded pointers are set.
Share(ls, d, k) ==
  /\ \A m \in Marshallers : mpc[m] = "none"
  /\ k <= d /\ \A j \in DOMAIN ls : ls[j] <= d
  /\ levels' = ls /\ deepest' = d /\ given' = k
  /\ next' = [o \in Who \X (0..d) |-> IF o[1] = Giver /\ o[2] < k THEN Giver ELSE Nil]
  /\ mpc' = [m \in Marshallers |-> "idle"]
  /\ UNCHANGED <<cur, held, seen>>

Goto(m, l) == mpc' = [mpc EXCEPT ![m] = l]

Begin(m) ==
  /\ mpc[m] = "idle"
  /\ Goto(m, "init")
  /\ UNCHANGED <<shared, next, cur, held, seen>>

\* The struct has no embedded pointer.  (Mutant: only the outermost is looked at.)
OutermostOnly(o) == o[2] = 1 \/ o[2] = deepest
Innermost(o) == o[2] = deepest

\* t.Mid == nil  (Mutant: a new one in any case.)
AlwaysNil(o) == TRUE
IsNil(o) == next[o] = Nil

Set(m) ==
  /\ mpc[m] = "init"
  /\ ~Innermost(cur[m])
  /\ ~IsNil(cur[m])
  /\ held' = [held EXCEPT ![m] = next[cur[m]]]
  /\ Goto(m, "enter")
  /\ UNCHANGED <<shared, next, cur, seen>>

Unset(m) ==
  /\ mpc[m] = "init"
  /\ ~Innermost(cur[m])
  /\ IsNil(cur[m])
  /\ Goto(m, "assign")
  /\ UNCHANGED <<shared, next, cur, held, seen>>

\* t.Mid = &Mid{}
Assign(m) ==
  /\ mpc[m] = "assign"
  /\ next' = [next EXCEPT ![cur[m]] = m]
  /\ held' = [held EXCEPT ![m] = m]
  /\ Goto(m, "enter")
  /\ UNCHANGED <<shared, cur, seen>>

\* t.Mid.InitNilEmbeddedStruct(): a build may load the pointer again, or not.
Descend(m) ==
  /\ mpc[m] = "enter"
  /\ \E w \in {held[m], next[cur[m]]} : cur' = [cur EXCEPT ![m] = <<w, @[2] + 1>>]
  /\ Goto(m, "init")
  /\ UNCHANGED <<shared, next, held, seen>>

Leave(m) ==
  /\ mpc[m] = "init"
  /\ Innermost(cur[m])
  /\ cur' = [cur EXCEPT ![m] = Top]
  /\ Goto(m, "fields")
  /\ UNCHANGED <<shared, next, held, seen>>

AtField(m) == mpc[m] = "fields" /\ Len(seen[m]) < Len(levels)
level(m) == levels[Len(seen[m]) + 1]

\* t.X, through the pointers above X.
Load(m) ==
  /\ AtField(m)
  /\ cur[m][2] < level(m)
  /\ next[cur[m]] # Nil
  /\ cur' = [cur EXCEPT ![m] = <<next[@], @[2] + 1>>]
  /\ UNCHANGED <<shared, next, mpc, held, seen>>

Panic(m) ==
  /\ AtField(m)
  /\ cur[m][2] < level(m)
  /\ next[cur[m]] = Nil
  /\ Goto(m, "panic")
  /\ UNCHANGED <<shared, next, cur, held, seen>>

WriteField(m) ==
  /\ AtField(m)
  /\ cur[m][2] = level(m)
  /\ seen' = [seen EXCEPT ![m] = Append(@, cur[m][1])]
  /\ cur' = [cur EXCEPT ![m] = Top]
  /\ UNCHANGED <<shared, next, mpc, held>>

Done(m) ==
  /\ mpc[m] = "fields"
  /\ Len(seen[m]) = Len(levels)
  /\ Goto(m, "done")
  /\ UNCHANGED <<shared, next, cur, held, seen>>

MarshalCBOR(m) ==
  \/ Begin(m) \/ Set(m) \/ Unset(m) \/ Assign(m) \/ Descend(m) \/ Leave(m)
  \/ Load(m) \/ Panic(m) \/ WriteField(m) \/ Done(m)

ShareNext ==
  \/ \E d, k \in Nat, ls \in Seq(Nat) : Share(ls, d, k)
  \/ \E m \in Marshallers : MarshalCBOR(m)

ShareSpec == ShareInit /\ [][ShareNext]_shareVars

-----------------------------------------------------------------------------

ShareTypeOK ==
  /\ levels \in Seq(Nat) /\ deepest \in Nat /\ given \in 0..deepest
  /\ next \in [Who \X (0..deepest) -> Who \cup {Nil}]
  /\ mpc \in [Marshallers ->
                {"none", "idle", "init", "assign", "enter", "fields", "panic", "done"}]
  /\ cur \in [Marshallers -> Who \X (0..deepest)]
  /\ held \in [Marshallers -> Who \cup {Nil}]
  /\ seen \in [Marshallers -> Seq(Who)]

\* What each of several goroutines writes is the value that was given to them: a
\* field below a pointer that was set is never read from a struct that some
\* InitNilEmbeddedStruct made, and one below a pointer that was nil never from
\* anything but zeros (gen.go:85-92, 619-622).
SawTheValue ==
  \A m \in Marshallers : \A j \in DOMAIN seen[m] :
    seen[m][j] = Giver <=> levels[j] <= given

\* Marshalling dereferences a nil pointer only where two goroutines marshal one
\* value and two pointers embedded in each other were nil: then a second goroutine
\* may replace the outer struct by one whose inner pointer is nil (gen.go:86-90).
NoNilPanic ==
  \A m \in Marshallers :
    mpc[m] = "panic" =>
      /\ given + 2 <= deepest
      /\ \E o \in Marshallers \ {m} : mpc[o] # "idle"
=============================================================================
