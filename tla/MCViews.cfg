SPECIFICATION Spec
CONSTANTS
    Bases <- Vectors
    MaxSize = 8
    MaxRank = 3
    MaxOps = 3
    Asked <- Expressible
INVARIANTS
    ReadRight
    SpanFits
    MergesWhenPossible
CHECK_DEADLOCK FALSE
