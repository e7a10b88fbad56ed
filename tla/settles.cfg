SPECIFICATION RegisteredFairSpec
CONSTANTS
  q1 = q1  q2 = q2  p1 = p1  p2 = p2
  Queues = {q1, q2}
  NoQueue = NoQueue  NoPid = NoPid  NoRow = NoRow
  Payloads = {p1}
  NumActions = 1
  Defs <- SettleDefs
  Pids = {g1}
  MaxMessages = 2
  MaxVersions = 2
  MaxHops = 1
  MaxLines = 1
  StoreFaults = FALSE
  Handlers = {h1}
  Ops = {"send", "apply", "disable", "abandon"}
  IdleTimeout = FALSE
  MaxBoots = 2
PROPERTIES
  StopCompletes
  EveryDeliverySettles
