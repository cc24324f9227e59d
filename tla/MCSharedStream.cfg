SPECIFICATION Spec
CONSTANTS
  Subscriptions = {s1, s2, s3}
  MaxEvents = 1
  None = None
SYMMETRY SubscriptionSymmetry
CONSTRAINT TwoExecutions
CHECK_DEADLOCK FALSE
INVARIANTS
  NoPanic
  OneExecution
  RegistryInv
PROPERTY
  NeverRevived
