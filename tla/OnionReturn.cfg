SPECIFICATION Spec
CONSTANTS
    Hops = 2
    Peers = {0, 1, 2, 3}
    Streams = {"s1"}
    WindowInit = 2
    Increment = 2
    CwndMin = 1
    CwndMax = 2
    MaxCircuits = 1
    MaxCapacity = 1
    MaxAge = 0
    MaxIdle = 0
    RateSlots = 1
    PeerLimit = 1
    PeerWindow = 1
    GlobalLimit = 3
    GlobalWindow = 1
    TableMax = 2
    HopLimit = 2
    MaxPackets = 3
    MaxReturn = 1
    MaxTime = 1
INVARIANT ReturnReadable
