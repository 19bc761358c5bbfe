CONSTANTS
  MajRange = 8
  LowRange = 32
  Inline = 24
  Widths <- MCWidths
  BigEndian <- MCBigEndian
  Uint <- MCUint
  MaxLength = 3
  ByteArrayMaxLen = 4
  MaxMapLen = 2
  LinkTag = 42
  MaxCid = 5
  MaxLink = 5
  IsCid <- MCIsCid
  Structs <- MixedStructs
  Values <- MCValues
  TupleArrivals <- WholeCutOrReplaced
SPECIFICATION TupleSpec
INVARIANTS RoundTrip TupleNoneOfAPart OneEncoding
CHECK_DEADLOCK FALSE
