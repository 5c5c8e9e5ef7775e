SPECIFICATION Spec
CONSTANTS
  Runs = {r1, r2}
  SharedOutputs = FALSE
  DiskMayFill = TRUE
  MaxKills = 1
  UserFiles <- MCUserFiles
  Texts <- MCTexts
  Invalid <- MCInvalid
  CommandLines <- MCCommandLines
  Unsearchable <- MCUnsearchable
  Creatable <- MCCreatable
PROPERTIES
  EveryRunEnds
\* every run ends and nobody has to edit or remove a file
CHECK_DEADLOCK FALSE
