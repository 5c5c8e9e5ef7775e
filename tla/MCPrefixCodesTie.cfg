SPECIFICATION Spec
CONSTANTS
  MaxSymbols = 4
  MaxCount = 3
  Codepoints <- MCCodepoints
  Tables <- MCTables
PROPERTIES
  TieTakenFromFirst
\* the call returns
CHECK_DEADLOCK FALSE
