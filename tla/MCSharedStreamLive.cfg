SPECIFICATION FairSpec
CONSTANTS
  Subscriptions = {s1, s2}
  MaxEvents = 1
  None = None
CHECK_DEADLOCK FALSE
PROPERTY
  Reclaimed
