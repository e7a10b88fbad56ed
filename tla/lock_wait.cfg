SPECIFICATION Spec
CONSTANTS
  Daemons = {d1, d2}
  Clients = {c1, c2}
  Nobody = Nobody
  Commands = {"ensure", "down"}
  ShutdownGrace = 5
  TermGrace = 5
  LockWait = 7
  Faults = {}
PROPERTIES
  SuccessorOutlastsDrain
