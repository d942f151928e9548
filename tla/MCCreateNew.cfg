SPECIFICATION SegSafety
CONSTANTS
    p1 = p1
    p2 = p2
    c1 = c1
    c2 = c2
    Producers = {p1}
    Consumers = {c1}
    Size <- OneSize
    Files = {1, 2, 3}
    NoFile = 0
    Exclusive = FALSE
    SysFails = FALSE
PROPERTIES
    NewSegmentIsNew
