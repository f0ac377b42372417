\* Fire times spaced and the checks at any offset to them, as slow as they may be.
SPECIFICATION Spec
CONSTANTS
  Interval = 3
  Delay = 1
  Fires = {4, 15}
  MaxTime = 20
INVARIANT AtMostOneRunPerFire
INVARIANT SpacedFiresRun
CHECK_DEADLOCK FALSE
