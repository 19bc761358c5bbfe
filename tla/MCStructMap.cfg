CONSTANTS
  MajRange = 8
  LowRange = 32
  Inline = 24
  Widths <- MCWidths
  BigEndian <- MCBigEndian
  Uint <- MCUint
  MaxLength = 4
  ByteArrayMaxLen = 4
  MaxMapLen = 2
  LinkTag = 42
  MaxCid = 5
  MaxLink = 5
  IsCid <- MCIsCid
  Pairs <- MCPairs
  Values <- MCValues
  MapArrivals <- AnyOrderOrCut
SPECIFICATION MapSpec
INVARIANTS Compatible LastWins MapNoneOfAPart KeysSorted
CHECK_DEADLOCK FALSE
