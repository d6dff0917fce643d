SPECIFICATION FairSpec
CONSTANTS
  Loggers = {l1}
  Readers = {r1}
  NoThread = NoThread
  NoEntry = NoEntry
  number_chunks_ = 3
  MaxLogs = 2
  MaxClock = 2
  MayCrash = TRUE
PROPERTIES
  LogsReadableAfterCrash
CHECK_DEADLOCK FALSE
