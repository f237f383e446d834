SPECIFICATION Spec
CONSTANTS
    Defs <- MCDefs
    Signed <- MCSigned
    Stored <- MCStored
INVARIANTS
    ComesBack
    ReadsBack
CHECK_DEADLOCK FALSE
