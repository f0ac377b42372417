\* One-shot syncs against each other: stale commits, retries, a worker loss.
SPECIFICATION Spec
CONSTANTS
  Rows = {a, b}
  Syncs = {s1, s2}
  Watches = {}
  NoTask = NoTask
  MaxTracking = 2
  MaxLate = 0
  MaxRetries = 0
  MaxFaults = 1
SYMMETRY Symmetry
INVARIANT NoLoss
PROPERTY AtLeastOnce
CHECK_DEADLOCK FALSE
