SPECIFICATION OrderSpec
CONSTANTS
    Cap = 4
    Lens = {1, 3, 5}
    Kinds = {"tso", "locked", "atomics"}
    MaxBytes = 9
INVARIANTS
    OrderedFifo
    PublishedIsThere
    PendingHitsFree
CHECK_DEADLOCK FALSE
