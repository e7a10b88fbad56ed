SPECIFICATION ResumedSpec
CONSTANTS
  Commands = {c1, c2}
  c1 = c1
  c2 = c2
  None = None
  Unset = Unset
  NotSet = NotSet
  Second = 1000
  Word <- TheWords
  Names <- TheNames
  Queues <- TheQueues
  DefaultFile <- TheFile
  DefaultStateDir <- TheStateDir
  Invocations <- TheInvocations
SYMMETRY Symmetry
INVARIANTS
  TypeOK
  SuccessIsDurable
  ClientChecksSuffice
  ReapplyIsNoOp
  DisableSticks
  CacheCoherent
  SpawnedAlike
CHECK_DEADLOCK FALSE
