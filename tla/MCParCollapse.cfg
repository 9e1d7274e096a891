SPECIFICATION Spec
CONSTANTS
  Inputs <- OneFrame
  Grain = 1
  Cap = 4
  Cells = 9
  MaxThreads = 3
  Sizes = {0, 2}
  Reserves = {1}
INVARIANTS StopsLast EveryLeafOnce
PROPERTIES BanksUsed Terminates
