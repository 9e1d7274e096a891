SPECIFICATION Spec
CONSTANTS
    MaxKernels = 4
    Cases <- SoundCases
    Later <- LaterCases
    MaxEvals = 2
INVARIANTS
    ReadsIntact
    WritesFit
    OneOwner
    ResultsRight
PROPERTY
    Terminates
CHECK_DEADLOCK FALSE
