CONSTANTS
    Users = {alice, bob}
    Messages = {m1, m2}
    Conns = {c1, c2, c3}
    MaxSends = 1
    MaxFaults = 1
    None = None
    Queues = {"q1", "q2"}
    QueueOf <- MCQueueOf
    MsgIds = {"m", "p"}
    PoisonIds = {"p"}
    QueueAttempts = 3
    MaxCopies = 3
    MaxCrashes = 1
    Notifs <- MCNotifs
    NotifWorkers = {"w1", "w2"}
    Preferences = {{101, 102}, {101}}
    NotifyAttempts = 2
    MaxDeliveries = 3
    MaxNow = 2
    LogOrders = {"o1", "o2"}
    MaxTopic = 5
    MaxDelivered = 6
    OutboxOrders = {"x1", "x2"}
    NaiveOrders = {"n1"}
    MaxRelayed = 4
    Keys = {"k1", "k2", "k3"}
    PartitionOf <- MCPartitionOf
    GroupMembers = {"g1", "g2", "g3"}
    MaxSent = 3
    MaxRebalances = 3
    PayLogs <- MCPayLogs
    PayPartitions = {0, 1}
    MaxRetries = 3
    EventTimes = {0, 1, 3, 5, 8}
    ClickUsers = {"u1", "u2"}
    WindowSize = 3
    AllowedLateness = 1
    SessionGap = 2
    MaxSessionSecs = 4
    MaxArrivals = 4
    Strategies = {"none", "block", "drop", "reject"}
    BpProducers = {"pr1", "pr2"}
    MaxQueue = 2
    Offers = 4
    MaxAttempt = 2
    Tweeters = {"u1", "u2"}
    Readers = {"r"}
    ColdReader = "r"
    Follows <- MCFollows
    TimelineMax = 2
    FirstId = 9
    Batch = 3
    MaxTweets = 4
    MaxRuns = 2
SYMMETRY ChatSymmetry
SPECIFICATION MCSpec
INVARIANTS
    EachTypeOK
    ChatIsConsistent
    EventsAreKept
    DeliveredAndOnce
    GroupDelivers
    StreamsAreRight
    TimelinesAreTheNewest
CHECK_DEADLOCK FALSE
