\* A fire time in the gap between one check's window and the next.
SPECIFICATION Spec
CONSTANTS
  Interval = 3
  Delay = 1
  Fires = {5}
  MaxTime = 12
INVARIANT EveryFireRuns
CHECK_DEADLOCK FALSE
