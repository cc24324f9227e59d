SPECIFICATION FairSpec
CONSTANTS
  root = root
  inner = inner
  a = a
  b = b
  Nodes <- NestedNodes
  Op <- NestedOp
  Children <- NestedChildren
  Root = root
  Modes = {"once"}
  Repeating = {}
  External = {}
  MayCancel = FALSE
  MaxEvents <- OnceEach
CHECK_DEADLOCK FALSE
INVARIANTS
  EventsAreDue
  NothingCountedTwice
PROPERTY
  ImplementsPlan
