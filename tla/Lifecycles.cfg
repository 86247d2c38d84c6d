SPECIFICATION LifecycleSpec
CONSTANTS
    Consumers = {c1, c2}
    Slots = 1
    Ops = 1
    Streams = {a1, a2, a3}
    Late = {a3}
    ArchiveQueue = 2
    ArchiveWorkers = {w1, w2}
    Dirs = {1, 2}
    Persistent = {2}
    WsSteps = {"s1", "s2", "s3"}
    WsNeeds <- NeedsOf
    Mounted <- MountsOf
    Writable <- WritesOf
    WsService = {"s3"}
    WsCached = {"s2"}
    Sessions = {h1}
    ShellOn <- ShellOf
    WsAttempts <- AttemptsOf
    LeasingRuns = {"r1", "r2"}
    Workspaces = {"a", "b"}
    Order <- PlanOrder
    ByName <- NameOrder
    NoRun = NoRun
    MaxAge = 1
    MaxSize <- PlanBound
    MaxBytes = 2
    MaxTime = 2
    MaxFailures = 1
    K8sMounts = {m1, m2}
    Platforms = {"amd64", "arm64"}
    SshMounts = {m1, m2}
    Inputs = 2
    Outputs = 2
    Dests = {d1}
    MaxEvents = 3
    QueueDepth = 1
    ReportDepth = 2
    Attempts = 2
    Deliveries = {v1, v2}
INVARIANTS
    ServicesHold
    
    
    PersistHolds
    VerdictsAreTheSteps
    NothingIsLeft
    ExitIsTruthful
    NoSilence
    DispatchIsHonest

    
CHECK_DEADLOCK FALSE
