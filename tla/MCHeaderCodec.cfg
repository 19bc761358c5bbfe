CONSTANTS
  MajRange = 2
  LowRange = 5
  Inline = 2
  Widths <- MCWidths
  BigEndian <- MCBigEndian
  Uint <- MCUint
  Wires <- MCWires
  Followers <- MCFollowers
SPECIFICATION HeaderSpec
INVARIANTS HeaderRoundTrip HeaderOneEncoding
CHECK_DEADLOCK FALSE
