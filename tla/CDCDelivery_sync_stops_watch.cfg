\* A manual sync of a watched job, no fault at all.
SPECIFICATION FairSpec
CONSTANTS
  Rows = {a}
  Syncs = {s1}
  Watches = {w1}
  NoTask = NoTask
  MaxTracking = 1
  MaxLate = 0
  MaxRetries = 0
  MaxFaults = 0
PROPERTY SyncKeepsWatching
CHECK_DEADLOCK FALSE
