SPECIFICATION SegSafety
CONSTANTS
    p1 = p1
    p2 = p2
    c1 = c1
    c2 = c2
    Producers = {p1, p2}
    Consumers = {c1}
    Size <- TwoSizes
    Files = {1, 2, 3, 4}
    NoFile = 0
    Exclusive = TRUE
    SysFails = TRUE
INVARIANTS
    SegTypeOK
    MappedWithinFile
    WriterReachable
    CapacityAgrees
    SegInv
PROPERTIES
    NewSegmentIsNew
