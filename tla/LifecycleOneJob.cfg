SPECIFICATION Spec
CONSTANTS
  Jobs = {j1}
  RunnerIds = {r1, r2}
  Clients = {c1}
  Watchdog = watchdog
  Main = main
  NoRunner = NoRunner
  Requests = {"start", "stop", "restart", "delete", "enable"}
  Faults = TRUE
SYMMETRY Symmetry
INVARIANTS TypeOK RegistrySound OneTaskPerJob StopExcludesStart StatusTellsPolling
PROPERTIES ImplementsService NoPollAfterShutdown NoStartWhileStopping
