SPECIFICATION OrderSpec
CONSTANTS
    Cap = 2
    Lens = {1, 2}
    Kinds = {"weak"}
    MaxBytes = 3
INVARIANTS
    OrderedFifo
CHECK_DEADLOCK FALSE
