SPECIFICATION AndroidSpec
CONSTANTS
    w1 = w1
    w2 = w2
    r1 = r1
    r2 = r2
    Writers = {w1, w2}
    Readers = {r1, r2}
    Size <- TwoSizes
    Fds = {0, 1, 2}
    Regions = {1, 2, 3}
    None = 0
    NoFd = 99
    SysFails = TRUE
INVARIANTS
    AndroidInv
    FdsOwned
    FdsAccounted
    RightRegion
CHECK_DEADLOCK FALSE
