\* Two runs, one without a destination, that share the pipeline's status and the workers.
SPECIFICATION Spec
CONSTANTS
  Runs = {r1, r2}
  Workers = {w1, w2}
  NoRun = NoRun
  Sinkless = {r2}
  MaxRedeliveries = 0
SYMMETRY Symmetry
INVARIANT ReportedSuccessIsReal
CHECK_DEADLOCK FALSE
