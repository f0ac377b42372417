\* The run state test_run_service.py says execution must not overwrite.
SPECIFICATION FairSpec
CONSTANTS
  Runs = {r1}
  Workers = {w1}
  NoRun = NoRun
  Sinkless = {}
  MaxRedeliveries = 0
PROPERTY CancelNeverOverwritten
CHECK_DEADLOCK FALSE
