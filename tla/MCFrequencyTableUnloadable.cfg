SPECIFICATION Spec
CONSTANTS
  AsciiCount = 128
  MaxBuffered = 4
  PageOctets = 2
  MaxCodepoints = 1
  Codepoints <- MCCodepoints
  Files <- MCUnloadable
  Rewrites <- MCRewrites
INVARIANTS
  LoadErrorsAreFileErrors
\* the call returns or throws
CHECK_DEADLOCK FALSE
