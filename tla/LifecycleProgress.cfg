SPECIFICATION FairSpec
CONSTANTS
  Jobs = {j1}
  RunnerIds = {r1}
  Clients = {c1}
  Watchdog = watchdog
  Main = main
  NoRunner = NoRunner
  Requests = {"start", "stop", "delete", "enable"}
  Faults = FALSE
PROPERTIES RequestsReturn DeadJobRevived DeletedJobEnds
