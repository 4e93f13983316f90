CONSTANTS
    PayRequests = {"p1", "p2"}
    PayKeys = {"k1", "k2"}
    GraphQueries = {"q1", "q2"}
    ApiUsers = {"u1", "u2"}
    MaxPayments = 2
    MaxMillis = 2
    MaxPolls = 2
    Attempts = {"a1", "a2", "a3", "a4"}
    Keys = {"k1", "k2"}
    None = "none"
    Threads = {"t1", "t2", "t3", "t4"}
    Pools = {"rec", "pay"}
    MaxThreads = 1
    Shorteners = {"w1", "w2"}
    Redirects = {"d1"}
    Flushers = {"f1", "f2"}
    CodeBase = 2
    MaxConn = 2
    MaxId = 2
    MaxServed = 2
    TsRange = {0, 1, 2}
    DcBits = 1
    MachineBits = 1
    SeqBits = 1
    Videos = {"v1", "v2"}
    Qualities = {1, 2, 3}
    Scale <- MCScale
    ScaleUnit = 10
    SourceSizes = {7, 20}
    ChunkSize = 2
    MaxViews = 2
    Drivers = {"d1", "d2"}
    Riders = {"rider"}
    Rings = {1, 2}
    VehicleType <- MCVehicleType
    RoadFactor <- MCRoadFactor
    Ttl = 1
    MaxNow = 2
    MaxUpdates = 1
    Services = {"s1"}
    Candidates = {"c1", "c2"}
    MaxRevision = 6
    IndexLinks <- MCIndexLinks
    PageLinks <- MCPageLinks
    OutLinks <- MCOutLinks
    SeedLists <- MCSeedLists
    HashPositions <- MCHashPositions
    MaxPages = 6
    MaxDepth = 3
    MaxTrapParam = 3
    PolitenessDelay = 2
    CrawlDelay = 4
    RegionKeys = {"k1", "k2"}
    Lags = {1, 3}
    MaxLag = 2
    MaxWrites = 3
    MaxInstant = 4
    Regions = {"A", "B"}
    CartItems = {"x"}
    MaxPhysical = 3
    MaxStamps = 4
    Callers = {"c1", "c2"}
    Rate = 1
    Capacity = 2
    WindowSeconds = 3
    MaxRequests = 2
    MaxClock = 6
    MaxCalls = 4
    ApiServers = {"a1", "a2"}
    ServerOf <- MCServerOf
    ApiKeys = {"k"}
    KeyLimit <- MCKeyLimit
    Window = 2
    MaxTime = 4
    MaxOutages = 1
    MaxAnswers = 3
SPECIFICATION MCSpec
INVARIANTS
    HeartbeatBringsBack
