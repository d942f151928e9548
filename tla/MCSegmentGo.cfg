SPECIFICATION SegSpec
CONSTANTS
    p1 = p1
    p2 = p2
    c1 = c1
    c2 = c2
    Producers = {p1}
    Consumers = {c1, c2}
    Size <- OneSize
    Files = {1, 2, 3, 4}
    NoFile = 0
    Exclusive = FALSE
    SysFails = FALSE
PROPERTIES
    ConsumerAttaches
