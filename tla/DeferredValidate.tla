-------------------------- MODULE DeferredValidate --------------------------
(***************************************************************************)
(* Deferred.UnmarshalCBOR and ValidateCBOR on the same bytes, each with a  *)
(* reader of its own, one loop iteration of both at a time.  They share    *)
(* nothing, so that any other interleaving ends the same way.  Once there  *)
(* is a verdict, the Deferred may be read again from where it stopped.     *)
(***************************************************************************)
EXTENDS Deferred

VARIABLES vpos, vremaining, verdict

V == INSTANCE Validate WITH pos <- vpos, remaining <- vremaining

validateVars == <<vpos, vremaining, verdict>>
bothVars == <<vars, validateVars>>

BothInit == Init /\ V!Init

Start == V!ValidateCBOR /\ Unmarshal

BothStep == Step /\ V!Step

Validated == verdict \in {"ok", "error"}

Again == Validated /\ Unmarshal /\ UNCHANGED validateVars

StepAlone == Validated /\ Step /\ UNCHANGED validateVars

BothNext == Start \/ BothStep \/ Again \/ StepAlone

BothSpec == BothInit /\ [][BothNext]_bothVars

\* The loops go on by themselves; whether they are called is up to the caller.
BothFairSpec == BothSpec /\ WF_bothVars(BothStep) /\ WF_bothVars(StepAlone)

-----------------------------------------------------------------------------

\* ValidateCBOR stays within the byte array, whichever of its two readers of the
\* payload (Seek here, ReadFrom there) meets its end (validate.go:32-38).
ValidateTypeOK == V!TypeOK

\* How the two go on from a state in which both are reading.
Agree ==
  /\ verdict' = "reading" <=> call' = "reading"
  /\ verdict' = "ok" <=> Raw' # << >> /\ pos' = Len(input)

\* "The code here is basically identical to the previous function"
\* (validate.go:11): the two loops end together, and ValidateCBOR accepts the
\* bytes if and only if they unmarshal into a Deferred that leaves none over.
SameVerdict == [][verdict = "reading" => Agree]_bothVars

\* ... and therefore, as a Deferred returns, so does ValidateCBOR, even though
\* neither can take a step here without the other.
BothReturn == verdict = "reading" ~> Validated
=============================================================================
