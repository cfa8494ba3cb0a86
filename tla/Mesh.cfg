SPECIFICATION MeshSpec
CONSTANTS
    TablePeers = {2, 4, 5, 6}
    Subnets = {"s1", "s2"}
    BucketSize = 2
    SubnetLimit = 2
    EvictAge = 0
    EclipseMin = 2
    EclipsePct = 50
    FreezeTime = 2
    EclipsePeriod = 1
    TableMaxTime = 2
    Gossipers = {"a", "b", "c"}
    Publishers = {"a", "b"}
    Neighbours <- MCLine
    Published = 1
    FanOut = 2
    SeenCap = 3
    SeenAge = 0
    RateSlots = 1
    RateLimit = 1
    RateWindow = 1
    GossipMaxTime = 1
    Leaving = {"r2"}
    Rotating = {"r1"}
    PoolRelays = {"r1", "r2", "r3"}
    Pinned <- MCPinned
    Dests = {"d1", "d2"}
    PoolSize = 2
    MaxStreams = 2
    CircuitAge = 1
    BuildPeriod = 1
    MaxRotations = 1
    PoolMaxTime = 3
    GuardPeers = {"g1", "g2", "g3"}
    SubnetOf <- MCSubnetOf
    GuardCount = 2
    VanguardCount = 1
    GuardLife = {1}
    VanguardLife <- MCVanguardLife
    FailLimit = 1
    BiasMin = 1
    BiasPct = 30
    MaxGuardCircuits = 1
    GuardMaxTime = 2
    Relays = {"r1", "r2"}
    CanaryAge = 2
    DescriptorAge = 1
    RelayDescTTL = 1
    CanarySlots = 1
    DescSlots = 1
    MaxDay = 3
    SendPeers = {p1, p2}
    Batched = TRUE
    BatchMax = 2
    ReconnectCap = 2
    RouteModes = {"DIRECT", "ONION"}
    MaxSent = 2
    MaxDials = 1
    ExitStreams = {s1, s2}
    SocksClients = {k1}
    Sites = {"a", "b"}
    PolicySites = {"a", "b"}
    ExitSlots = 2
    ExitRate = 2
    MaxSeconds = 1
    TurnClients = {t1}
    PeerIPs = {"i", "j"}
    PeerPorts = {1}
    ChannelNumbers = {16384, 16385}
    Allocations = 2
    Permissions = 1
    Channels = 2
    RelayPorts = 3
    MaxEpochs = 4
    Wrapping = "units"
    Plain = 2
    MaxFrames = 5
    MaxTokens = 3
    Refill = 2
    GateConns = {k2, k3}
    SeedLife = 3
    SeedsKept = 2
    AnswerTime = 2
    SeedBound = 4
    FrameLimit = 2
    BloomLife = 4
    PingPeriod = 2
    DeadAfter = 6
    RekeyPeriod = 4
    HourLength = 5
    HourBound = 2
    Handshakes = {"c1", "c2"}
    OpenerOf <- MCOpenerOf
    AnswererOf <- MCAnswererOf
    Room = 6
    RingSize = 3
    Batches <- MCBatches
    NoiseCap = 2
    NoiseWindow = 2
    MaxPushed = 6
    StreamIds = {"x", "y"}
    MaxSentOn = 3
INVARIANTS MeshTypeOK SiblingsAreClosest  OneDestination  StreamsInOrder ChallengesStandOpen RemovedForExcess KeysAgree
 
CHECK_DEADLOCK FALSE
