SPECIFICATION Spec
CONSTANTS
  Adders = {t1, t2}
  num_groups = 2
  Scenarios <- LogsOrTraces
SYMMETRY Symmetry
INVARIANTS
  LogsAccounted
  EarliestFirst
  FirstExtractionComplete
CHECK_DEADLOCK FALSE
