SPECIFICATION Spec
CONSTANTS
    Peers = {"p1", "p2"}
    Initiators = {"p1"}
    Removable = {"p1", "p2"}
    WindowInit = 1
    Increment = 1
    CwndMin = 1
    CwndMax = 1
    MaxCircuits = 2
    MaxCapacity = 2
    MaxAge = 2
    MaxIdle = 1
    RateSlots = 2
    PeerLimit = 2
    PeerWindow = 2
    GlobalLimit = 3
    GlobalWindow = 1
    PoolAge = 2
    SweepPeriod = 1
    MaxTime = 4
    MaxSessions = 2
    MaxFrames = 2
INVARIANTS CircuitTableOK FramesInOrder StaleAreSwept PeerRateBounded
 
