SPECIFICATION Spec
CONSTANTS
    Inputs <- BothInputs
    Numbers = {3}
    Calls = {"neg", "sub", "sum", "rmax", "reshape", "permute", "expand", "shrink", "pad", "mm"}
    MaxCalls = 3
    MaxSize = 6
    Asked <- Sound
INVARIANTS
    ResultRight
    StaysInside
    InputsReady
PROPERTY
    Terminates
CHECK_DEADLOCK FALSE
