SPECIFICATION Spec
CONSTANTS
    t1 = t1
    t2 = t2
    u1 = u1
    p = p
    q = q
    Threads <- MCThreads
    Processes <- MCProcesses
    ProcessOf <- MCProcessOf
    Handles = {h1, h2}
    MaxSessions = 2
    Ta100 = TRUE
    OpsOf <- MCAesOps
    Races = {}
INVARIANTS
    AesReserved
    TheOnlyLeaks
    MutualExclusion
PROPERTIES
    LockComesBack
