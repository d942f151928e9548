SPECIFICATION WasmSpec
CONSTANTS
    Cap = 1
    M = 2
    Lens = {2}
    StorageFails = FALSE
    MaxBytes = 4
    Writes = {a, b}
    Reads = {x}
    WaitFails = TRUE
INVARIANTS
    NoLostNotify
    WritesAddUp
PROPERTIES
    WritesSettle
    ReadsSettle
CHECK_DEADLOCK FALSE
