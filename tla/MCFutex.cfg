SPECIFICATION ConsumingSpec
CONSTANTS
    Cap = 2
    M = 4
    Lens = {0, 1, 3}
    StorageFails = FALSE
    MaxBytes = 6
    Waiters = {TRUE}
    Contexts = {"background"}
INVARIANTS
    BlockingTypeOK
    NoLostWakeup
    WriteCountTrue
PROPERTIES
    WriteReturns
    ReadReturnsData
CHECK_DEADLOCK FALSE
