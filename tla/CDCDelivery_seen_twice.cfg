\* Two syncs of the same checkpoint, no fault at all.
SPECIFICATION Spec
CONSTANTS
  Rows = {a}
  Syncs = {s1, s2}
  Watches = {}
  NoTask = NoTask
  MaxTracking = 1
  MaxLate = 0
  MaxRetries = 0
  MaxFaults = 0
INVARIANT SeenOnce
CHECK_DEADLOCK FALSE
