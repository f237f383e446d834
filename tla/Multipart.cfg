SPECIFICATION Spec
CONSTANTS
    c1 = c1
    c2 = c2
    Contexts <- MCContexts
    Setups <- MCSetups
    Block = 4
    LenField = 2
    Word = 75
    TextLimit = 10
    AadLimit = 8
    MaxFaults = 1
INVARIANTS OkIsReference HoldsTheRest RefusedRightly
CHECK_DEADLOCK FALSE
