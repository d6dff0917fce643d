SPECIFICATION FairAreaSpec
CONSTANTS
  Readers = {r1, r2}
  Consumer = r1
  NoThread = NoThread
  Sizes <- TwoToFour
  MaxValues = 5
INVARIANTS
  ReadsInOrder
  ChunksApart
  ReadsPublished
  SwapPublishes
  HandedInTurn
PROPERTIES
  FifoDrains
CHECK_DEADLOCK FALSE
