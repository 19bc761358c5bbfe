------------------------------ MODULE CborItem ------------------------------
(***************************************************************************)
(* What the scanners of whole items (Deferred.UnmarshalCBOR, ValidateCBOR, *)
(* ScanForLinks) make of a header: how many more items it announces, and   *)
(* how many bytes of payload.                                              *)
(***************************************************************************)
EXTENDS CborHeader

\* remaining is a uint64.
Uint64(n) == n % Limit(Len(Widths))

\* What an item adds to the items still to be read.  (Mutant: the
\* keys of a map forgotten.)
KeysForgotten(maj, extra) == IF maj = MajTag THEN 1 ELSE IF maj \in {MajArray, MajMap} THEN extra ELSE 0
Nested(maj, extra) ==
  CASE maj = MajTag   -> 1
    [] maj = MajArray -> extra
    [] maj = MajMap   -> 2 * extra
    [] OTHER          -> 0

IsString(maj)    == maj \in {MajByteString, MajTextString}
IsContainer(maj) == maj \in {MajArray, MajMap}

\* The bytes of payload a header announces.
Payload(maj, extra) == IF IsString(maj) THEN extra ELSE 0
=============================================================================
