SPECIFICATION Spec
CONSTANTS
  AsciiCount = 128
  MaxBuffered = 4
  PageOctets = 2
  MaxCodepoints = 4
  Codepoints <- MCCodepoints
  Files <- MCFiles
  Rewrites <- MCRewrites
INVARIANTS
  TypeOK
  CopyOfVersion
  UnchangedFileLoads
  ReadsInOrder
  ReturnsFrequencyTable
  CountsExact
  CountsComplete
  FailsOnlyOnInvalid
PROPERTIES
  Terminates
\* the call returns or throws
CHECK_DEADLOCK FALSE
