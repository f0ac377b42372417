\* Every wiring of three nodes and an id that is none of them with three edges.
SPECIFICATION FairSpec
CONSTANTS
  a = a
  b = b
  d = d
  Nodes = {a, b, d}
  Strangers = {x}
  NumEdges = 3
  KindChoices <- MCKinds
INVARIANT TypeOK
INVARIANT InputsFirst
INVARIANT CyclesRefused
INVARIANT ValidatedExecutes
INVARIANT OutcomeTellsAll
PROPERTY ExecutionEnds
CHECK_DEADLOCK FALSE
