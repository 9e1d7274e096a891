SPECIFICATION Spec
CONSTANTS
  Cells = 12
  MaxThreads = 3
  Sizes = {1, 2}
  Reserves = {0, 1, 2}
INVARIANT CellsOnce
CHECK_DEADLOCK FALSE
