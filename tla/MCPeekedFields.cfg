CONSTANTS
  Data <- MCData
  MaxBuf = 4
  Null = 246
  Buffered = {TRUE, FALSE}
  Quirks = {"eof_with_data", "eof_on_empty_buffer", "fail"}
SPECIFICATION FieldsSpec
INVARIANTS TypeOK LastByteFresh ReadsInOrder
PROPERTY IsByteScanner
CHECK_DEADLOCK FALSE
