SPECIFICATION Spec
CONSTANTS
  Adders = {t1, t2}
  num_groups = 2
  Scenarios <- Twice
SYMMETRY Symmetry
INVARIANTS
  ExtractionComplete
CHECK_DEADLOCK FALSE
