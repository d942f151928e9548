SPECIFICATION BSpec
CONSTANTS
    Cap = 2
    M = 4
    Lens = {3}
    StorageFails = TRUE
    MaxBytes = 5
    Waiters = {TRUE, FALSE}
    Contexts = {"cancellable"}
INVARIANTS
    WriteCountTrue
    NoLostWakeup
    WakeInv
PROPERTIES
    ReadReturnsAfterClose
    CancelReturns
CHECK_DEADLOCK FALSE
