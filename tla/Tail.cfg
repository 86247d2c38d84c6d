SPECIFICATION FairSpec
CONSTANTS
    Subs = {c1, c2, c3}
    RingSize = 2
    MaxSeq = 6
    WireCap = 1
    MaxFaults = 1
    MaxNoProgressRounds = 2
INVARIANT
    TailIsHonest
PROPERTY
    TailAdvances
CHECK_DEADLOCK FALSE
