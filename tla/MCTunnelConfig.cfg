SPECIFICATION Spec
CONSTANTS
    p1 = p1
    p2 = p2
    r = r
    s = s
    v = v
    x = x
    i1 = i1
    i2 = i2
    Callers = {p1, p2}
    Clients = {p2}
    Tunnels = {r, s, v, x}
    KindOf <- KindsOf
    InterfaceOf <- InterfacesOf
    NoInterface = NoInterface
    InitialConfig <- OnlyR
    MaxFaults = 2
    MaxCalls = 3
CHECK_DEADLOCK FALSE
INVARIANTS PartsTogether
PROPERTIES AddComplete DeleteComplete StrandedStays
