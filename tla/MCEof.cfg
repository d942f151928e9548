SPECIFICATION Spec
CONSTANTS
    Cap = 2
    M = 4
    Lens = {1, 2}
    StorageFails = FALSE
    MaxBytes = 3
PROPERTIES
    EofMeansDrained
