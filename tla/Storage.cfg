SPECIFICATION MCSpec
CONSTANTS
    LsmKeys = {"a", "b"}
    LsmValues = {1, 2}
    MemtableSize = 2
    L0Threshold = 2
    MaxWrites = 5
    Readers = {"reader", "idle"}
    MaxXid = 4
    Hashes = {"x", "y"}
    Contents <- MCContents
    Uploaders = {"bob", "alice"}
    FileNames = {"doc"}
    MaxFileVersions = 2
    MaxReferences = 4
    ObjectKeys = {"k"}
    Bodies <- MCBodies
    MaxUploads = 2
    UrlExpiry = 1
    MaxTime = 2
    Replicas = {"r1", "r2"}
    Trials = 2
    MaxChecks = 2
    CacheReaders = {"t1", "t2"}
    HotThreads = {"h1", "h2"}
    BaseTtl = 2
    Jitter = 1
    NullTtl = 1
    LocalTtl = 1
    MaxVersions = 2
    MaxCacheTime = 2
    Fetchers = {"f1", "f2", "f3"}
    KeyTtl = 2
    LockTtl = 1
    MaxPolls = 1
    MaxTicks = 3
INVARIANTS
    TypeOK
    ReadsAreRight
    LookupsAreExact
    ReplicasAreHonest
    CachesConverge
PROPERTIES
    FilesAreWhole
    RoutingIsExact
