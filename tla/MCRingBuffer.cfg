SPECIFICATION Spec
CONSTANTS
    Cap = 4
    M = 8
    Lens = {0, 3, 5}
    StorageFails = TRUE
    MaxBytes = 12
INVARIANTS
    TypeOK
    Fifo
    NoDataRace
    UnreadIntact
    DistancesTrue
    RingInv
PROPERTIES
    FullMeansFull
    EmptyMeansEmpty
    RefinesStream
