SPECIFICATION FairSpec
CONSTANTS
    t1 = t1
    t2 = t2
    u1 = u1
    p = p
    q = q
    Threads <- MCPair
    Processes <- MCOne
    ProcessOf <- MCPairOf
    Handles = {h1, h2}
    MaxSessions = 2
    Ta100 = TRUE
    OpsOf <- MCLoginOps
    Races = {}
INVARIANTS
    TypeOK
    LoginHoldsAuth
PROPERTIES
    CallsReturn
