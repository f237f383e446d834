SPECIFICATION Spec
CONSTANTS
    RxRetries = 2
    MaxDelayCount = 2
    SendFailures <- CustomFailures
    FastBus = TRUE
INVARIANTS
    TypeOK
    SuccessIsOwnAnswer
    AtMostOnce
    CleanCallSucceeds
    BusSpeed
PROPERTIES
    CallReturns
    ImplementsCommandCall
