SPECIFICATION Spec
CONSTANTS
  Word = 256
  Cap = 16
  Passes = 2
  Nets <- StructureNets
INVARIANTS SecondPassIdle NormalForm
PROPERTY Terminates
