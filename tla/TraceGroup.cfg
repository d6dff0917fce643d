SPECIFICATION FairSpec
CONSTANTS
  Writers = {w1, w2}
  TRACE_ENTRIES_NUM = 2
  MaxTraces = 3
  MaxStarts = 1
INVARIANTS
  TracesAccounted
  TornOnlyIfRaced
  EarliestFirst
  ExtractionComplete
PROPERTY ExtractionEnds
CHECK_DEADLOCK FALSE
