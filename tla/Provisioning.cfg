SPECIFICATION Spec
CONSTANTS
    Plans <- MCPlans
    LockSlots = TRUE
    Damageable <- LossyLine
    MaxRuns = 3
INVARIANTS
    ProvisionedRight
    LockedCertIsComplete
    LockedConfigIsComplete
    CleanRunFinishes
PROPERTY ScriptEnds
CHECK_DEADLOCK FALSE
