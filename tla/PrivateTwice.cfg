SPECIFICATION CallsSpec
CONSTANTS
    Nodes = {1, 2, 3, 4}
    Stored <- MCStored
    Links <- MCLinks
    FirstKnown = {1, 2}
    Callers = {"a", "b"}
    Mixes <- MCMixes
    Slots = {1, 2, 3, 4}
    GroupSlots = {1, 2}
    Alpha = 1
    Near = 3
    Quorum = 2
    Paths = 2
    Agree = 2
    Replicas = 2
    Covers = 1
    PrivateSlots = 2
    LinkKinds = {"tcp", "websocket", "tls", "fronted"}
    MaxFrames = 2
    LanNodes = {"m1", "m2"}
    GroveOf <- MCGroveOf
    NoGrove = "none"
    Seeds = {"s1"}
    DnsSeeds = {"d1"}
    PeerMin = 2
    MaxHeard = 2
    HeartbeatInterval = 3
    HeartbeatMaxAge = 5
    PollInterval = 1
    LaunchLines = {"method", "done", "error", "other"}
    MaxLines = 3
    PtFrames = 2
    Requests = {1, 2, 3}
    Hosts = {"h", "i"}
    CacheSlots = 1
    CacheTTL = 1
    Tunnels = {"t1", "t2"}
    Circuits = 1
INVARIANT PrivateAnsweredOnce
CHECK_DEADLOCK FALSE
