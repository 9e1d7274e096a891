SPECIFICATION Spec
CONSTANTS
  Word = 256
  Nets <- AllNets
INVARIANTS LeavesRight Linear
PROPERTY Terminates
