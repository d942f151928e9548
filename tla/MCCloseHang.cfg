SPECIFICATION BSpec
CONSTANTS
    Cap = 2
    M = 4
    Lens = {1}
    StorageFails = FALSE
    MaxBytes = 2
    Waiters = {TRUE}
    Contexts = {"background"}
PROPERTY ReadReturnsAfterClose
CHECK_DEADLOCK FALSE
