SPECIFICATION Spec
CHECK_DEADLOCK FALSE
CONSTANTS
  ByteBits = 4
  flagsBitLen = 3
  IntBytes = 2
  Error = Error
  NULL = NULL
  Input <- Inputs
  Xid = {0, 15}
  Place = {58, 127, 128}
INVARIANTS
  RoundTrip
  TruncationRejected
  FieldsIndependent
  BitsAgree
