SPECIFICATION RegisteredFairSpec
CONSTANTS
  q1 = q1  q2 = q2  p1 = p1  p2 = p2
  Queues = {q1, q2}
  NoQueue = NoQueue  NoPid = NoPid  NoRow = NoRow
  Payloads = {p1}
  NumActions = 1
  Defs <- RetryDefs
  Pids = {g1}
  MaxMessages = 1
  MaxVersions = 1
  MaxHops = 1
  MaxLines = 0
  StoreFaults = FALSE
  Handlers = {h1}
  Ops = {"send", "disable"}
  IdleTimeout = FALSE
  MaxBoots = 1
PROPERTY
  DisableStrandsNothing
