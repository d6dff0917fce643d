SPECIFICATION FairSpec
CONSTANTS
  Loggers = {l1, l2}
  Readers = {r1}
  NoThread = NoThread
  NoEntry = NoEntry
  number_chunks_ = 4
  MaxLogs = 2
  MaxClock = 4
  MayCrash = TRUE
INVARIANTS
  LogsAccounted
  OrderKept
  DropsOnlyWhenFull
PROPERTIES
  ImplementsLogBuffer
  AddLogReturns
  GetLogEntryReturns
CHECK_DEADLOCK FALSE
