CONSTANTS
  MajRange = 8
  LowRange = 6
  Inline = 3
  Widths <- MCWidths
  BigEndian <- MCBigEndian
  Uint <- MCUint
  MaxLength = 3
  ByteArrayMaxLen = 3
  Inputs <- AllInputs
  Followed <- MCFollowed
  MinRead = 1
  Spares = {3}
  MaxCalls = 2
  MaxKept = 1
SPECIFICATION SharedFairSpec
INVARIANTS TypeOK RawIsInput CounterBounded ReadsOneItem ValidateTypeOK HoldsRaw UnreadIntact KeptUnchanged
PROPERTIES SameVerdict Returns BothReturn
CHECK_DEADLOCK FALSE
