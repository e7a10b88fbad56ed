SPECIFICATION Spec
CONSTANTS
  SeqMax = 1
  SeedMax = 0
  TailMax = 2
  DefaultListLimit = 1
  MaxListLimit = 2
  MaxTime = 2
  MaxAhead = 1
  MaxRows = 3
  MaxUpsets = 2
CONSTRAINT ReaderAlone
INVARIANTS
  TypeOK
  IdsAscend
  PagesAreExact
PROPERTIES
  OldestFirst
CHECK_DEADLOCK FALSE
