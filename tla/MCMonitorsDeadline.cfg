SPECIFICATION FairSpec
CONSTANTS
  Kinds = {"datetime"}
  Modes = {"once"}
  Duration = 0
  Deadline = 2
  MaxWait = 2
  MaxChanges = 0
  MaxSignals = 0
  MaxSettings = 1
CHECK_DEADLOCK FALSE
INVARIANT
  NotBeforeDeadline
