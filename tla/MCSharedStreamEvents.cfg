SPECIFICATION Spec
CONSTANTS
  Subscriptions = {s1, s2}
  MaxEvents = 2
  None = None
SYMMETRY SubscriptionSymmetry
CHECK_DEADLOCK FALSE
INVARIANTS
  TypeOK
  InOrderNoGap
  EndIsComplete
