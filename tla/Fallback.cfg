SPECIFICATION FairSpec
CONSTANTS
    Subs = {c1, c2, c3}
    RingSize = 1
    MaxSeq = 3
    WireCap = 1
    MaxFaults = 2
    MaxNoProgress = 2

    
PROPERTIES
    ImplementsDelivery
    CallEnds
CHECK_DEADLOCK FALSE
