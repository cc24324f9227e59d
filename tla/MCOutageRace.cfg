SPECIFICATION Spec
CONSTANTS
  NumConditions = 2
  Kind <- FileAndTimeKinds
  Groups <- FileAndTimeGroups
  WithEvents = FALSE
  MaxChunks = 1
CHECK_DEADLOCK FALSE
INVARIANT
  ImmediateEventNotRaced
