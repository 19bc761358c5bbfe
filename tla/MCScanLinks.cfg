CONSTANTS
  MajRange = 8
  LowRange = 6
  Inline = 3
  Widths <- MCWidths
  BigEndian <- MCBigEndian
  Uint <- MCUint
  LinkTag = 2
  MaxLink = 2
  IsCid <- MCIsCid
  Inputs <- MCInputs
SPECIFICATION FairSpec
INVARIANTS TypeOK ScansOneItem
PROPERTY Returns
CHECK_DEADLOCK FALSE
