SPECIFICATION Spec
CONSTANTS
  NumDeliveries = 2
  Base = 2
  Width = 3
  BackoffBase = 2
  BackoffCap = 3
  MaxAttempts = 3
  Concurrency = 1
  IdleInterval = 20
  MaxTime = 10
  MaxUpsets = 2
INVARIANTS
  NoOversleep
  GatesFollowSchedule
PROPERTIES
  EarlyByLessThanASecond
CHECK_DEADLOCK FALSE
