SPECIFICATION Spec
CONSTANTS
    Inputs <- Contents
    Evaluated <- Evals
    Read <- ReadSets
    MaxTensors = 30
INVARIANTS
    ResultRight
    Restored
    OwnTable
PROPERTY
    Terminates
CHECK_DEADLOCK FALSE
