SPECIFICATION Spec
CONSTANTS
  ByteBits = 2
  CountBytes = 1
  CodepointBytes = 1
  LengthBytes = 1
  TotalBytes = 2
  DecodeBufferBytes = 2
  OutputBufferSize = 4
  Utf8Length <- MCUtf8Length
  MaxForeign = 0
  MaxText = 3
  Inputs <- MCDamaged
INVARIANTS
  DecodeErrorsAreFileErrors
\* the call returns
CHECK_DEADLOCK FALSE
