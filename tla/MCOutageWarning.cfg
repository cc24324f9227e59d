SPECIFICATION Spec
CONSTANTS
  NumConditions = 1
  Kind <- FileKinds
  Groups <- FileGroups
  WithEvents = TRUE
  MaxChunks = 1
CHECK_DEADLOCK FALSE
INVARIANT
  WarningAttempted
