SPECIFICATION FairSpec
CONSTANTS
  Kinds <- AllKinds
  Modes = {"once", "continuous"}
  Duration = 2
  Deadline = 5
  MaxWait = 2
  MaxChanges = 4
  MaxSignals = 3
  MaxSettings = 2
CHECK_DEADLOCK FALSE
INVARIANTS
  TypeOK
  EventsAreDue
PROPERTIES
  OccurrenceIsReported
  ImplementsLeaf
