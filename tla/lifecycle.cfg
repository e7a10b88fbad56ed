SPECIFICATION FairSpec
CONSTANTS
  Daemons = {d1, d2}
  Clients = {c1, c2}
  Nobody = Nobody
  Commands = {"ensure", "down"}
  ShutdownGrace = 2
  TermGrace = 2
  LockWait = 3
  Faults = {"idle", "crash", "failure", "abandon", "foreground"}
INVARIANTS
  TypeOK
  SingleFlight
  ServingIsReachable
  OneDaemonHasTheStore
PROPERTIES
  RefusalsAreLate
  RunSparesOtherSockets
  StopMeansDead
  StopEndsTheProcess
