SPECIFICATION FairSpec
CONSTANTS
  root = root
  inner = inner
  a = a
  b = b
  Nodes <- PairNodes
  Op <- PairOp
  Children <- PairChildren
  Root = root
  Modes = {"continuous"}
  Repeating = {a}
  External = {a}
  MayCancel = TRUE
  MaxEvents <- TwiceA
CHECK_DEADLOCK FALSE
INVARIANTS
  TypeOK
  NothingCountedTwice
  ClosedIsCleanedUp
PROPERTIES
  EverythingEnds
  DeadBranchCloses
