SPECIFICATION Spec
CONSTANTS
    P = 31
    Inputs <- MCInputs
    Target = 1
    Numbers = {3}
    Calls <- MCCalls
    MaxSize = 4
    Asks <- MCAsks
    Asked <- MCAsked
INVARIANTS
    ForwardRight
    ReverseRight
    ValueKept
PROPERTY Terminates
CHECK_DEADLOCK FALSE
