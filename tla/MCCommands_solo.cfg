SPECIFICATION FairCommandsSpec
CONSTANTS
    p1 = p1
    p2 = p2
    f1 = f1
    f2 = f2
    h1 = h1
    h2 = h2
    hx = hx
    a1 = a1
    a2 = a2
    AnyFlow = AnyFlow
    NoHop = NoHop
    NoAddr = NoAddr
    Flows = {f1, f2}
    Hops <- TwoHops
    WanHops <- KnownHops
    AddrOf <- Addresses
    DefaultRuleId = 94
    Procs = {p1}
    Batches <- AllBatches
    RemoveSets <- AllRemovals
    InitialConfigs <- AnyConfig
    FlushOptions <- AlwaysFlush
    SortedReply = TRUE
    MayCrash = FALSE
    MaxFaults = 0
    MaxStarts = 2
    MaxRuleId = 60
    lan0 = lan0
    wan0 = wan0
    other0 = other0
    size = size
    Tracked = {lan0, wan0}
    Untracked = {other0}
    Acl = size
    InitialKind <- HostAtStart
    StatsLen = 2
    MaxRounds = 3
    MaxChanges = 2
    k1 = k1
    k2 = k2
    Keys = {k1, k2}
    Rates = {0, 1, 4}
    Ticks = {1, 2}
    CountOpt = 3
    Modes = {1, 4}
    Codes = {0, 5}
    MaySplit = FALSE
    None = None
    Other = Other
    Count = 2
    Width = 4
    Times = {1, 3}
    MaxCalls = 3
    MaxExtra = 1
    MaxLost = 1
    Programs = {"steer", "twamp"}
CHECK_DEADLOCK FALSE
INVARIANTS CacheCoherent TwampTypeOK OwnReply Backlog StatisticsSound
PROPERTIES OthersUntouched DefaultRuleStays ImplementsTable RunReturnsUnlessLost
