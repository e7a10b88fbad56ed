SPECIFICATION RegisteredSpec
CONSTANTS
  q1 = q1  q2 = q2  p1 = p1  p2 = p2
  Queues = {q1, q2}
  NoQueue = NoQueue  NoPid = NoPid  NoRow = NoRow
  Payloads = {p1}
  NumActions = 2
  Defs <- CycleDefs
  Pids = {g1, g2}
  MaxMessages = 2
  MaxVersions = 1
  MaxHops = 1
  MaxLines = 1
  StoreFaults = TRUE
  Handlers = {h1}
  Ops = {"send", "replay"}
  IdleTimeout = FALSE
  MaxBoots = 3
INVARIANTS
  TypeOK
  BusyCounterExact
  InflightExact
  OutputsHaveDoneOrigin
  OrphansWereUntracked
  AttemptsWithinBudget
PROPERTIES
  ImplementsPromise
  StopLeavesNoTask
SYMMETRY PidSymmetry
