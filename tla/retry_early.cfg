SPECIFICATION Spec
CONSTANTS
  NumDeliveries = 1
  Base = 2
  Width = 3
  BackoffBase = 2
  BackoffCap = 3
  MaxAttempts = 3
  Concurrency = 1
  IdleInterval = 20
  MaxTime = 10
  MaxUpsets = 0
PROPERTIES
  RetryWaitsForGate
CHECK_DEADLOCK FALSE
