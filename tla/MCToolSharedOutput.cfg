SPECIFICATION Spec
CONSTANTS
  Runs = {r1, r2}
  SharedOutputs = TRUE
  DiskMayFill = FALSE
  MaxKills = 0
  UserFiles <- MCUserFiles
  Texts <- MCTexts
  Invalid <- MCInvalid
  CommandLines <- MCCommandLines
  Unsearchable <- MCUnsearchable
  Creatable <- MCCreatable
PROPERTIES
  OutputMustNotExist
\* every run ends and nobody has to edit or remove a file
CHECK_DEADLOCK FALSE
