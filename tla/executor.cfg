SPECIFICATION FairSpec
CONSTANTS
  Leader = Leader
  Kids = {k1, k2}
  StdoutCap = 1
  HasTimeout = TRUE
  Escapes = TRUE
  MaxBytes = 2
  Excess = 1
INVARIANTS
  NoSurvivors
  SuccessIsWhole
PROPERTIES
  ReturnsUnlessHeld
CHECK_DEADLOCK FALSE
