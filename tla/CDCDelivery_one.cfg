\* One sync: retries, a fault, one version written late.
SPECIFICATION FairSpec
CONSTANTS
  Rows = {a, b}
  Syncs = {s1}
  Watches = {}
  NoTask = NoTask
  MaxTracking = 2
  MaxLate = 1
  MaxRetries = 2
  MaxFaults = 1
PROPERTY SyncLogCloses
CHECK_DEADLOCK FALSE
