SPECIFICATION Spec
CONSTANTS
    g = g
    h1 = h1
    Handles <- MCHandles
    Global = g
    Driver = "master"
    ChipType = "TrustFlex"
    MaxRef = 4
INVARIANTS
    TypeOK
    LiveOwnsBus
    RefsAreAccounted
    DetectionIsRight
