SPECIFICATION Spec
CONSTANTS
    Defs <- MCDefs
    Signed <- MCSigned
    Stored <- MCStored
INVARIANT
    SerialComesBack
CHECK_DEADLOCK FALSE
