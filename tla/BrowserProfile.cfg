SPECIFICATION FairSpec
CONSTANTS
  Managers = {m1, m2, m3}
  Drivers = {d1, d2, d3}
  None = None
  PlainFaults = 3
  WorkerFaults = 1
INVARIANTS TypeOK JobHoldsBrowser RecycleSparesWorker
PROPERTY BrowserRecovers
