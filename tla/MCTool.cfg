SPECIFICATION Spec
CONSTANTS
  Runs = {r1, r2, r3}
  SharedOutputs = FALSE
  DiskMayFill = TRUE
  MaxKills = 1
  UserFiles <- MCUserFiles
  Texts <- MCTexts
  Invalid <- MCInvalid
  CommandLines <- MCPipeline
  Unsearchable <- MCUnsearchable
  Creatable <- MCCreatable
SYMMETRY MCSymmetry
INVARIANTS
  TypeOK
  NothingInvented
  TerminatedOnlyByEdit
PROPERTIES
  OnlyOwnOutputsChange
  CompressionComplete
  DecompressionComplete
\* every run ends and nobody has to edit or remove a file
CHECK_DEADLOCK FALSE
