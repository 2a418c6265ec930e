SPECIFICATION Spec
CONSTANTS
    lan0 = lan0
    wan1 = wan1
    port1 = port1
    port2 = port2
    port3 = port3
    i1 = i1
    i2 = i2
    hop1 = hop1
    peer1 = peer1
    peer2 = peer2
    None = None
    NoIndex = NoIndex
    ZeroHop = ZeroHop
    NoPeer = NoPeer
    Uppers = {lan0, wan1}
    Lowers = {port1, port2, port3}
    Indexes = {i1, i2}
    IfIndex <- PortIndexes
    Hops = {hop1}
    Peers = {peer1, peer2}
    Declared <- Moving
    Configured <- OnlyWan
    Handlers = {h1}
    RemoveWaits = TRUE
    Notifications <- StatsOnly
    SkipTwamp = FALSE
    ChanCap = 1
    MaxObjects = 3
CHECK_DEADLOCK FALSE
INVARIANTS DelayOfOwnLink
