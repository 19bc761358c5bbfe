CONSTANTS
  MajRange = 8
  LowRange = 32
  Inline = 24
  Widths <- MCWidths
  BigEndian <- MCBigEndian
  Uint <- MCUint
  MaxLength = 3
  ByteArrayMaxLen = 4
  MaxMapLen = 2
  LinkTag = 42
  MaxCid = 5
  MaxLink = 5
  IsCid <- MCIsCid
  Structs <- Int8
  Values <- MCValues
  TupleArrivals <- OtherInts
SPECIFICATION TupleSpec
INVARIANT OverflowRefused
CHECK_DEADLOCK FALSE
