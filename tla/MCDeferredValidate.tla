------------------------- MODULE MCDeferredValidate -------------------------
(* The streams and the wire format of MCItems, for the Deferred and for      *)
(* ValidateCBOR.                                                             *)
EXTENDS SharedRaw, MCItems

\* Numbers, strings, containers, and strings that are cut or too long, twice in a row.
Short == { << First(MajUnsignedInt, 0) >>, << First(MajUnsignedInt, 3), 5 >>,
           << First(MajByteString, 2), 7, 9 >>, << First(MajTextString, 1), 8 >>,
           << First(MajArray, 1), First(MajTextString, 0) >>, << First(MajByteString, 2), 7 >>,
           << First(MajTextString, 3), 4 >> }
MCFollowed == { a \o b \o c : a, b \in Short, c \in Short \cup {<< >>} }
AllInputs == MCInputs \cup MCFollowed
=============================================================================
