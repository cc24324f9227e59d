SPECIFICATION FairSpec
CONSTANTS
  NumConditions = 3
  Kind <- MixedKinds
  Groups <- MixedGroups
  WithEvents = TRUE
  MaxChunks = 1
CHECK_DEADLOCK FALSE
INVARIANTS
  TypeOK
  ExitZeroIsEarned
  InputUntouched
  WatchedBeforeReading
  CopyFirstWins
  DeliveredRecords
PROPERTIES
  Latched
  ImplementsLifecycle
  LatchedGroupExits
  EndOfInputExits
