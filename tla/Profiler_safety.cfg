SPECIFICATION Spec
CONSTANTS
  Threads = {t1, t2}
  capacity = 1
  max_calls_ = 2
  delta_ = 2
  PutValues = {3}
  MaxTime = 7
  MaxMeas = 4
SYMMETRY Symmetry
INVARIANTS
  MeasurementsAccounted
  ReportHonest
  MeasuresRunningTime
CHECK_DEADLOCK FALSE
