SPECIFICATION Spec
CONSTANTS
  Processes = {p1, p2}
  GroupList <- TwoGroups
  EventList <- TwoEvents
  MAX_GROUP_NUM = 3
  NUM_COUNTERS = 3
  MaxCrashes = 3
SYMMETRY Symmetry
INVARIANTS
  HandlesSound
  LogsReachGroup
CHECK_DEADLOCK FALSE
PROPERTIES
  RegistrySettles
