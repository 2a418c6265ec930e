SPECIFICATION Spec
CONSTANTS
    p1 = p1
    p2 = p2
    f1 = f1
    f2 = f2
    h1 = h1
    h2 = h2
    hx = hx
    a1 = a1
    a2 = a2
    AnyFlow = AnyFlow
    NoHop = NoHop
    NoAddr = NoAddr
    Flows = {f1, f2}
    Hops <- TwoHops
    WanHops <- KnownHops
    AddrOf <- Addresses
    DefaultRuleId = 94
    Procs = {p1}
    Batches <- AllBatches
    RemoveSets <- AllRemovals
    InitialConfigs <- FlushedOnly
    FlushOptions <- NeverFlush
    SortedReply = TRUE
    MayCrash = FALSE
    MaxFaults = 0
    MaxStarts = 2
    MaxRuleId = 60
CHECK_DEADLOCK FALSE
PROPERTIES OthersUntouched
