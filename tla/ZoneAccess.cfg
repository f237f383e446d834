SPECIFICATION Spec
CONSTANTS
    Targets <- MCTargets
    CallsOn <- MCCallsOn
    MaxCalls = 2
    MaxFaults = 1
INVARIANTS
    ReadIsRange
    WriteIsPrefix
    WholeWhenOk
    CleanCallSucceeds
    CompareTells
    KeyRoundTrip
CHECK_DEADLOCK FALSE
