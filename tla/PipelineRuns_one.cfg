\* One run, two workers, its message redelivered up to twice: all the races on one row.
SPECIFICATION FairSpec
CONSTANTS
  Runs = {r1}
  Workers = {w1, w2}
  NoRun = NoRun
  Sinkless = {}
  MaxRedeliveries = 2
INVARIANT CancelHonoured
INVARIANT NoRunForgotten
INVARIANT OneWritePerDelivery
PROPERTY QueuedRunsSettle
CHECK_DEADLOCK FALSE
