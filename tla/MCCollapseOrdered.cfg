SPECIFICATION Spec
CONSTANTS
  Word = 256
  Buckets = 4
  Limits = {1, 3, 20}
  Nets <- PriorityNets
INVARIANTS NothingLost ShallowestFirst LeavesRight
PROPERTY Terminates
