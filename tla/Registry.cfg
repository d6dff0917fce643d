SPECIFICATION Spec
CONSTANTS
  Processes = {p1, p2}
  Addresses = {a1, a2}
  NULL = NULL
  FormatList <- TwoFormats
  PointList <- TwoPoints
  MAX_TRACE_FORMATS = 3
  PROF_GROUP_MAX = 2
  MaxEnds = 3
SYMMETRY Symmetry
INVARIANTS
  DeathsExplained
  FormatsRight
  ReportsRight
  SavesAtHome
PROPERTIES
  RegistryKept
CHECK_DEADLOCK FALSE
