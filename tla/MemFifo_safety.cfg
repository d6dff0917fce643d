SPECIFICATION Spec
CONSTANTS
  Threads = {t1, t2, t3}
  NoThread = NoThread
  Entries = {a, b}
  NoEntry = NoEntry
  number_chunks_ = 4
SYMMETRY Symmetry
INVARIANTS
  ChecksStayValid
  NoRacingCopies
  PoppedWhole
  IInv
PROPERTY ImplementsQueue
