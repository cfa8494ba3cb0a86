SPECIFICATION GroupsSpec
CONSTANTS
    Ephemeral = FALSE
    MaxIntroPoints = 3
    KeepAlivePeriod = 1
    DescriptorTTL = 3
    RefreshWithin = 2
    Cookies = {"k1"}
    PendingSlots = 1
    MaxIntroductions = 2
    GhMaxTime = 4
    Owner = "o"
    Guests = {"a", "b", "c"}
    Rights = {"r", "x"}
    ValidRights = {"r"}
    MaxLeaves = 4
    HistoryCap = 2
    MaxCommits = 3
    MaxPosts = 4
    Joiners = {"n1"}
    GroveAdmins = {"a1", "a2"}
    Founder = "a1"
    MaxMembers = 2
    RequestWindow = 1
    MembershipTTLs = {1}
    MaxGroveTime = 2
    Bridges = {"A", "B", "C", "D"}
    GrovesOf <- MCGrovesOf
    Announcers = {"D"}
    DefaultTTL = 4
    MaxPathLen = 4
    MaxRoutes = 2
    MaxCircuits = 2
    MaxRounds = 2
    MaxCreated = 1
    Traders = {"a", "b"}
    MinUnits = 1
    MaxBuffered = 2
    MaxTracked = 2
    MaxRelayed = 2
    MaxWindows = 2
    Persons = {"p", "q", "r"}
    TrustSlots = 3
    VoucherSlots = 2
    CacheSlots = 1
    IssuerSlots = 1
    Threshold = 3
    GracePeriod = 2
    SybilMaxTime = 5
    Owners = {1, 2}
    Resolvers = {"n1"}
    PetnameMax = 1
    MaxStamp = 3
    MaxLookups = 1
    KeyVersions = 2
    MaxSeq = 2
    MaxLives = 2
    MaxChain = 2
    Secrets <- MCSecrets
    Randoms <- MCRandoms
    ShareCount = 3
    SharesNeeded = 2
INVARIANT AnyKReconstruct
CHECK_DEADLOCK FALSE
