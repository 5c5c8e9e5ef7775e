SPECIFICATION Spec
CONSTANTS
  MaxSymbols = 6
  MaxCount = 5
  Codepoints <- MCCodepoints
  Tables <- MCTables
INVARIANTS
  TypeOK
  QueuesAscending
  PrefixFree
  Optimal
  LongCodesNeedLongInputs
PROPERTIES
  MergesTwoSmallest
  ImplementsPrefixCodeSpec
  Terminates
\* the call returns
CHECK_DEADLOCK FALSE
