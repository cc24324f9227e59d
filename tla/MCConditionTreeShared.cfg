SPECIFICATION FairSpec
CONSTANTS
  root = root
  inner = inner
  a = a
  b = b
  Nodes <- SharedNodes
  Op <- SharedOp
  Children <- SharedChildren
  Root = root
  Modes = {"once", "continuous"}
  Repeating = {a, b}
  External = {a, b}
  MayCancel = FALSE
  MaxEvents <- OnlyB
CHECK_DEADLOCK FALSE
PROPERTIES
  NothingStuck
  EverythingEnds
  DeadBranchCloses
