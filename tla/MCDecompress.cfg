SPECIFICATION Spec
CONSTANTS
  ByteBits = 2
  CountBytes = 1
  CodepointBytes = 1
  LengthBytes = 1
  TotalBytes = 2
  DecodeBufferBytes = 2
  OutputBufferSize = 4
  Utf8Length <- MCUtf8Length
  MaxForeign = 7
  MaxText = 4
  Inputs <- MCInputs
INVARIANTS
  TypeOK
  DecodesText
  BitsAccounted
  SuccessReadsAll
PROPERTIES
  ImplementsDecompressSpec
  TerminatesBelowLimit
\* the call returns or throws
CHECK_DEADLOCK FALSE
