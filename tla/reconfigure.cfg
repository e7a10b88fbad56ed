SPECIFICATION RegisteredSpec
CONSTANTS
  q1 = q1  q2 = q2  p1 = p1  p2 = p2
  Queues = {q1, q2}
  NoQueue = NoQueue  NoPid = NoPid  NoRow = NoRow
  Payloads = {p1, p2}
  NumActions = 1
  Defs <- EditDefs
  Pids = {g1, g2}
  MaxMessages = 2
  MaxVersions = 2
  MaxHops = 2
  MaxLines = 1
  StoreFaults = FALSE
  Handlers = {h1}
  Ops = {"send", "apply", "enable", "disable", "replay"}
  IdleTimeout = TRUE
  MaxBoots = 1
INVARIANTS
  BusyCounterExact
  ClaimsAreVetted
PROPERTIES
  ConcurrencyRespected
  NoClaimAfterDisableReturns
  IdleSparesWork
SYMMETRY PidSymmetry
