SPECIFICATION FairSpec
CONSTANTS
  Leader = Leader
  Kids = {k1}
  StdoutCap = 1
  HasTimeout = TRUE
  Escapes = TRUE
  MaxBytes = 2
  Excess = 1
PROPERTY
  TimeoutBoundsTheRun
CHECK_DEADLOCK FALSE
