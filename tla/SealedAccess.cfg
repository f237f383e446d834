SPECIFICATION Spec
CONSTANTS
    a = a
    b = b
    k = k
    t = t
    Users = {u1, u2}
    Slots = {k, t}
    KeySlot = k
    Data = {a, b}
    IoKey = a
    NoData = NoData
    Calls <- MCCalls
    MaxCalls = 3
INVARIANTS
    CleanCallSucceeds
PROPERTIES
    MacTells
    OkWriteLanded
    OnlyWhatWasSealed
    ReadTells
    MessageIsOwn
CHECK_DEADLOCK FALSE
