SPECIFICATION Spec
CONSTANTS
    lan0 = lan0
    wan1 = wan1
    port1 = port1
    port2 = port2
    i1 = i1
    i2 = i2
    hop1 = hop1
    peer1 = peer1
    f1 = f1
    f2 = f2
    NA = NA
    None = None
    NoIndex = NoIndex
    ZeroHop = ZeroHop
    NoPeer = NoPeer
    Uppers = {lan0, wan1}
    Lowers = {port1, port2}
    Indexes = {i1, i2}
    IfIndex <- PortIndexes
    Hops = {hop1}
    Peers = {peer1}
    Declared <- Moving
    MaxObjects = 2
    Keys = {f1, f2}
    Updates <- SomeUpdates
    Intervals = {0, 2000}
    FlowThreshold = 2
    Modulus = 1048576
    MaxBytes = 4
    MaxCalls = 2
CHECK_DEADLOCK FALSE
INVARIANTS Conservation OneLatePerCall NamesOfIndexes
PROPERTIES OnlySlowHeldBack
