SPECIFICATION Spec
CONSTANTS
  Threads = {t1}
  capacity = 1
  max_calls_ = 2
  delta_ = 2
  PutValues = {3}
  MaxTime = 7
  MaxMeas = 4
INVARIANTS
  ResultSaved
CHECK_DEADLOCK FALSE
