INIT ComponentInit
NEXT ComponentNext
CONSTANTS
    BasePlan <- TheBasePlan
    Fragments <- TheFragments
    PureSteps <- ThePureSteps
    MaxDepth = 2
    MaxNodes = 6
    MaxRuns = 7
    GenOps = 2
    WorkflowNames <- TwoWorkflows
    StepNames <- ThreeSteps
    ExpansionNames <- TwoExpansions
    Changes <- SomeChanges
    AllUnits <- ThreeUnits
    Owner <- OwnedBy
    DependsOn <- Dependencies
    DurationOf <- Lasting
    ShardNames <- ThreeShards
    Buckets = {0, 2}
    NeedChoices <- SomeNeeds
    HandlerChoices <- SomeHandlers
    EachChoices <- SomeEach
    MaxDeclared = 6
    ScopeOf <- TheScopes
    Claimed = {"src"}
    Caches = {"mod", "bin"}
    Paths = {"/src", "/src/out"}
    Inside <- Nested
    MaxCalls = 3
    CacheRuns = {r1, r2}
    Settings <- TwoSettings
    Generators <- GeneratorStep
    Budgets = {2}
    MaxSweeps = 1
    MaxDeaths = 1
    Earlier <- StoredSetting
    Clients = {"k1", "k2"}
    Hostings <- TheHostings
    ReadOnlyClients = {}
    ScSteps = {"l1", "l2", "e1", "e2"}
    Placements = {{"e1", "e2"}, {}, {"l1", "l2", "e1", "e2"}}
    ScNeeds <- ScratchChain
    Steps = {"s1", "s2"}
    AnalyzeQueue = 1
    AnalyzeDecisions = 1
    MaxAttempts = 3
    ClientOps = 1
    Invokers = {i1, i2, i3}
    MuxSessions = 2
    Coordinators = {o1, o2}
    Opens = 2
    Pushes = 3
    Calls = {"f1", "f2", "f3"}
    Generated = {"f1", "f2"}
    Followed = {"f1"}
    PlatformOf <- FuncPlatforms
    Self = "amd64"
    Tags = {t1, t2}
    Digests = {"d1", "d2"}
    Pinned = {p1}
    Edits = 2
    Callers = {"q1", "q2"}
    Asks <- OneMayOpenAShell
    ControlSlots = 1
    Burst = 1
    LogCap = 2
    Chunk = 2
    LogLines = 4
    PaneAttempts = 2
    MaxBytes = 2
    RenderAttempts = 2
    MaxEvents = 5
    Verdicts = {"passed", "failed"}
    Files = {"f", "g"}
    MaxCommits = 2
    CommitCap = 1
    Versions <- SomeVersions
    Declared <- SomePipelines
    Tabs = {"t1", "t2"}
    ControlTimeout = 1
    HeaderBudget = 1
    ControlBudget = 2
    Requests = 2
    Runs = {r1, r2, r3}
    Slow = {}
    None = None
    Duration = 3
    RenewEvery = 1
    MaxLatency = 0
    MaxFails = 1
    VerifyPlans <- TheEditedPlan
    MaxLaunches = 2
    MaxSweepsSeen = 1
    PageSteps = {"s1", "s2"}
    PageBusy = {"s1"}
    PageStreams = {"stdout", "stderr"}
    PageTail = 2
    PageTries = 2
    PageBytes = 3
    PageClicks = 2
    Pushers = {"p1", "p2"}
    SendAttempts = 3
    PushFaults = 1
INVARIANTS
    ClusterLeaseHolds
    
    
    
    
    
    LockHolds
    
    
    
CHECK_DEADLOCK FALSE
