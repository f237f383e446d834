SPECIFICATION Spec
CONSTANTS
    Plans <- MCDocumented
    LockSlots = TRUE
    Damageable <- LossyLine
    MaxRuns = 1
INVARIANT LockedCertIsComplete
CHECK_DEADLOCK FALSE
