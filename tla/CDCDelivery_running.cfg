\* Liveness: a job that stays RUNNING delivers every change.
SPECIFICATION FairSpec
CONSTANTS
  Rows = {a}
  Syncs = {}
  Watches = {w1, w2}
  NoTask = NoTask
  MaxTracking = 1
  MaxLate = 0
  MaxRetries = 0
  MaxFaults = 1
PROPERTY RunningJobDelivers
CHECK_DEADLOCK FALSE
