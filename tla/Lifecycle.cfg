SPECIFICATION Spec
CONSTANTS
  Workers = {w1, w2}
  Addresses = {a1, a2}
  NULL = NULL
  MaxStarts = 3
  MaxRuns = 1
  MaxFailures = 1
  MaxIncrements = 2
SYMMETRY Symmetry
INVARIANTS
  DeathsExplained
  ResourcesKept
  CounterExact
CHECK_DEADLOCK FALSE
