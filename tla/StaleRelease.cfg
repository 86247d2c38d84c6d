SPECIFICATION Spec
CONSTANTS
    Runs = {r1, r2, r3}
    Slow = {r1}
    None = None
    Duration = 6
    RenewEvery = 2
    MaxLatency = 1
    MaxFails = 1
INVARIANTS
    HealthyExclusive
CHECK_DEADLOCK FALSE
