SPECIFICATION Spec
CONSTANTS
    Hops = 2
    Peers = {0, 1, 2, 3}
    Streams = {"s1"}
    WindowInit = 5
    Increment = 2
    CwndMin = 1
    CwndMax = 5
    MaxCircuits = 1
    MaxCapacity = 1
    MaxAge = 0
    MaxIdle = 0
    RateSlots = 1
    PeerLimit = 1
    PeerWindow = 1
    GlobalLimit = 3
    GlobalWindow = 1
    TableMax = 2
    HopLimit = 3
    MaxPackets = 4
    MaxReturn = 1
    MaxTime = 1
INVARIANT DepthAloneIsLimited
