SPECIFICATION FairSpec
CONSTANTS
  MinOffset <- MinusTwo
  MaxOffset = 2
  Inputs <- AllInputs
CHECK_DEADLOCK FALSE
INVARIANTS
  TypeOK
  AcceptsWhatIsDescribed
  PlanMeansArguments
  EarliestInstant
  StandaloneOptions
  BlocksOnlyUnkept
PROPERTY
  RecordsDoNotDelayExit
