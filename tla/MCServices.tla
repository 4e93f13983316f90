-------------------------- MODULE MCServices --------------------------
(* The service and coordination labs for TLC, one at a time: they share        *)
(* nothing, so `lab' picks the one that runs and the others stand still.       *)
(* The constants get their values from the cfg, where they are functions,      *)
(* sequences or operators by way of the definitions that follow.               *)
EXTENDS Integers, Sequences, FiniteSets

CONSTANTS
    \* of ApiDesign (01/11)
    PayRequests, PayKeys, GraphQueries, ApiUsers, MaxPayments, MaxMillis, MaxPolls,
    \* of FailureModes (01/14): the idempotency store, then the bulkhead
    Attempts, Keys, None,
    Threads, Pools, MaxThreads,
    \* of UrlShortener (C01)
    Shorteners, Redirects, Flushers, CodeBase, MaxConn, MaxId, MaxServed,
    TsRange, DcBits, MachineBits, SeqBits,
    \* of VideoPipeline (C03)
    Videos, Qualities, Scale, ScaleUnit, SourceSizes, ChunkSize, MaxViews,
    \* of DriverDispatch (C04)
    Drivers, Riders, Rings, VehicleType, RoadFactor, Ttl, MaxNow, MaxUpdates,
    \* of ServiceRegistry (02/14)
    Services, Candidates, MaxRevision,
    \* of WebCrawler (C07)
    IndexLinks, PageLinks, OutLinks, SeedLists, HashPositions(_),
    MaxPages, MaxDepth, MaxTrapParam, PolitenessDelay, CrawlDelay,
    \* of MultiRegion (02/19): the regions, then the clocks
    RegionKeys, Lags, MaxLag, MaxWrites, MaxInstant,
    Regions, CartItems, MaxPhysical, MaxStamps,
    \* of RateLimiting: the algorithms (02/10), then the servers (C10)
    Callers, Rate, Capacity, WindowSeconds, MaxRequests, MaxClock, MaxCalls,
    ApiServers, ServerOf, ApiKeys, KeyLimit, Window, MaxTime, MaxOutages, MaxAnswers

\* The shares of the source that the three qualities keep.
MCScale == <<1, 4, 9>>

\* Both drivers send what riders ask for; the nearer one may be the slower one.
MCVehicleType == [d \in {"d1", "d2"} |-> "UberX"]
MCRoadFactor == [d \in {"d1", "d2"} |-> IF d = "d1" THEN 5 ELSE 2]

\* A small web: numbered pages that link in a circle, one page of another web that
\* links out of it and to a private page, and three lists of seeds.
MCIndexLinks == <<"p0", "p1">>
MCPageLinks == [p \in {"p0", "p1", "p2", "p3"} |->
  CASE p = "p0" -> <<"p3">> [] p = "p1" -> <<"p2", "p0">> [] p = "p2" -> <<"p3">> [] p = "p3" -> <<"p1">>]
MCOutLinks == [w \in {"mock", "other"} \X {"p1"} |->
  <<[host |-> w[1], path |-> "p0", page |-> 0, noise |-> TRUE],
    [host |-> "other", path |-> "p2", page |-> 0, noise |-> FALSE],
    [host |-> w[1], path |-> "private", page |-> 0, noise |-> FALSE]>>]
U(p, n) == [host |-> "mock", path |-> p, page |-> n, noise |-> FALSE]
MCSeedLists == {<<U("index", 0), U("p0", 0)>>, <<U("trap", 0)>>, <<U("p1", 0), U("private", 0)>>}
MCHashPositions(u) == LET q == u.page IN
  CASE u.path = "index" -> {1, 2} [] u.path = "p0" -> {3, 4} [] u.path = "p1" -> {5, 6}
    [] u.path = "p2" -> IF u.host = "mock" THEN {7, 8} ELSE {4, 5}
    [] u.path = "p3" -> IF u.host = "mock" THEN {8, 9} ELSE {20, 21}
    [] u.path = "private" -> {1, 6} [] OTHER -> {10 + q, 11 + q}

\* Two request threads on one server and one on another.
MCServerOf == [t1 |-> "a1", t2 |-> "a1", t3 |-> "a2"]
MCKeyLimit == [k |-> 2]

VARIABLES
    lab, apiService, pay, millis, keyStore, payments, replayed, excused,
    resolving, resolverCalls, adding, statsCopy, statsSum, fired, crowded, polls,
    client, attempt, key, answer, store, executed, pool, at, read, permits,
    completed, rejected, nextId, urls, writing, holder, urlCache, counter,
    redirect, flush, served, lostHits, step, size, objects, video,
    qualityRows, viewCount, redisViews, flushing, viewed, lostViews, ring,
    beat, status, now, updates, stale, request, was, steady, revision,
    service, beating, history, watchFrom, atWatch, changeLog, leaderKey,
    keyRevision, candidate, frontier, bloomBits, robotsRules, lastAccess,
    crawlClock, crawled, requests, seedUrls, instant, lag, primary, secondary, backlog,
    delivering, applied, seqNo, delivered, inRotation, arbiter, promoting,
    aIsDown, keyOf, overtaken, physical, hlc, stamps, cart, limiter, clock,
    call, bucket, entries, windowHits, results, unordered, time, redisUp,
    outages, counts, expiry, available, script, thread, answers, spoilt

Api == INSTANCE ApiDesign WITH service <- apiService
Failure == INSTANCE FailureModes
Shortener == INSTANCE UrlShortener
Pipeline == INSTANCE VideoPipeline
Dispatch == INSTANCE DriverDispatch
Registry == INSTANCE ServiceRegistry
Crawler == INSTANCE WebCrawler
Region == INSTANCE MultiRegion
Limits == INSTANCE RateLimiting

\* What the proofs assume of the constants: finite sets of threads and callers, numbers
\* that are natural, rings that are counted from one, and names that stand for nobody.
ApiAssumed == IsFiniteSet(ApiUsers) /\ IsFiniteSet(GraphQueries) /\ Api!NoKey \notin PayKeys
PoolAssumed == IsFiniteSet(Threads) /\ MaxThreads \in Nat
CodeAssumed == CodeBase \in Nat /\ CodeBase >= 2
SnowflakeAssumed ==
    /\ TsRange \subseteq Nat
    /\ 2^DcBits \in Nat \ {0} /\ 2^MachineBits \in Nat \ {0} /\ 2^SeqBits \in Nat \ {0}
ShortenerAssumed ==
    /\ CodeAssumed /\ SnowflakeAssumed /\ MaxId \in Nat
    /\ IsFiniteSet(Shorteners) /\ IsFiniteSet(Redirects) /\ IsFiniteSet(Flushers)
    /\ MaxConn \in Nat /\ Shortener!NoOne \notin Shorteners
PipelineAssumed ==
    /\ ScaleUnit \in Nat \ {0} /\ Scale \in [Qualities -> Nat] /\ Qualities \subseteq Nat
    /\ \A p, q \in Qualities : p < q => Scale[p] <= Scale[q]
    /\ SourceSizes \subseteq Nat /\ ChunkSize \in Nat
DispatchAssumed ==
    /\ Rings \subseteq Nat /\ \E n \in Rings : Rings = 1..n
    /\ Dispatch!NoMatch \notin Drivers /\ MaxNow \in Nat
RegistryAssumed == Registry!NoOne \notin Candidates
CrawlerAssumed ==
    /\ IndexLinks \in Seq(STRING) /\ PageLinks \in [DOMAIN PageLinks -> Seq(STRING)]
    /\ OutLinks \in [DOMAIN OutLinks -> Seq(Crawler!CrawlUrl)]
    /\ \A seeds \in SeedLists :
         /\ seeds \in Seq(Crawler!CrawlUrl)
         /\ \A i, j \in DOMAIN seeds :
              i # j => Crawler!Normalize(seeds[i]) # Crawler!Normalize(seeds[j])
    /\ MaxDepth \in Nat /\ MaxPages \in Nat /\ PolitenessDelay \in Nat
RegionAssumed == Lags \subseteq Nat /\ MaxStamps \in Nat
LimitsAssumed ==
    /\ IsFiniteSet(Callers) /\ Rate \in Nat /\ Capacity \in Nat
    /\ WindowSeconds \in Nat \ {0} /\ MaxRequests \in Nat /\ MaxCalls \in Nat /\ MaxClock \in Nat
ServersAssumed ==
    /\ ServerOf \in [DOMAIN ServerOf -> ApiServers]
    /\ KeyLimit \in [ApiKeys -> Nat]
    /\ Window \in Nat \ {0} /\ MaxOutages \in Nat

ASSUME MCAssumption ==
    /\ ApiAssumed /\ PoolAssumed /\ ShortenerAssumed /\ PipelineAssumed
    /\ DispatchAssumed /\ RegistryAssumed /\ CrawlerAssumed
    /\ RegionAssumed /\ LimitsAssumed /\ ServersAssumed

apiVars == <<apiService, pay, millis, keyStore, payments, replayed, excused, resolving,
    resolverCalls, adding, statsCopy, statsSum, fired, crowded, polls, client>>
storeVars == <<attempt, key, answer, store, executed>>
poolVars == <<pool, at, read, permits, completed, rejected>>
shortenerVars == <<nextId, urls, writing, holder, urlCache, counter, redirect, flush, served,
    lostHits>>
pipelineVars == <<step, size, objects, video, qualityRows, viewCount, redisViews, flushing,
    viewed, lostViews>>
dispatchVars == <<ring, beat, status, now, updates, stale, request, was, steady>>
registryVars == <<revision, service, beating, history, watchFrom, atWatch, changeLog,
    leaderKey, keyRevision, candidate>>
crawlerVars == <<frontier, bloomBits, robotsRules, lastAccess, crawlClock, crawled,
    requests, seedUrls>>
regionVars == <<instant, lag, primary, secondary, backlog, delivering, applied, seqNo,
    delivered, inRotation, arbiter, promoting, aIsDown, keyOf, overtaken>>
clockVars == <<physical, hlc, stamps, cart>>
limiterVars == <<limiter, clock, call, bucket, entries, windowHits, results, unordered>>
serversVars == <<time, redisUp, outages, counts, expiry, available, script, thread,
    answers, spoilt>>

Labs == {
    "api", "once", "bulkhead", "shortener", "video", "dispatch", "registry",
    "crawler", "regions", "clocks", "limiters", "servers"}

\* The labs that do not run start in one of their states.
MCInit ==
    /\ lab \in Labs
    /\ Api!Init /\ (lab # "api" => apiService = "rest")
    /\ Failure!StoreInit
    /\ Failure!PoolInit /\ (lab # "bulkhead" => pool = [t \in Threads |-> CHOOSE p \in Pools : TRUE])
    /\ Shortener!Init
    /\ Pipeline!Init /\ (lab # "video" => size = [v \in Videos |-> CHOOSE n \in SourceSizes : TRUE])
    /\ Dispatch!Init
    /\ Registry!Init
    /\ Crawler!Init /\ (lab # "crawler" => Len(frontier) = 1)
    /\ Region!RegionInit /\ (lab # "regions" => lag = CHOOSE l \in Lags : TRUE)
    /\ Region!ClockInit /\ (lab # "clocks" => physical = [r \in Regions |-> 1])
    /\ Limits!LimiterInit /\ (lab # "limiters" => limiter = CHOOSE l \in Limits!Limiters : TRUE)
    /\ Limits!ServersInit

MCNext ==
    /\ UNCHANGED lab
    /\ IF lab = "api" THEN Api!Next ELSE UNCHANGED apiVars
    /\ IF lab = "once" THEN Failure!StoreNext ELSE UNCHANGED storeVars
    /\ IF lab = "bulkhead" THEN Failure!PoolNext ELSE UNCHANGED poolVars
    /\ IF lab = "shortener" THEN Shortener!Next ELSE UNCHANGED shortenerVars
    /\ IF lab = "video" THEN Pipeline!Next ELSE UNCHANGED pipelineVars
    /\ IF lab = "dispatch" THEN Dispatch!Next ELSE UNCHANGED dispatchVars
    /\ IF lab = "registry" THEN Registry!Next ELSE UNCHANGED registryVars
    /\ IF lab = "crawler" THEN Crawler!Next ELSE UNCHANGED crawlerVars
    /\ IF lab = "regions" THEN Region!RegionNext ELSE UNCHANGED regionVars
    /\ IF lab = "clocks" THEN Region!ClockNext ELSE UNCHANGED clockVars
    /\ IF lab = "limiters" THEN Limits!LimiterNext ELSE UNCHANGED limiterVars
    /\ IF lab = "servers" THEN Limits!ServersNext ELSE UNCHANGED serversVars

mcVars == <<lab, apiVars, storeVars, poolVars, shortenerVars, pipelineVars,
    dispatchVars, registryVars, crawlerVars, regionVars, clockVars,
    limiterVars, serversVars>>

MCSpec == MCInit /\ [][MCNext]_mcVars

\* Every variable of the lab that runs has its type.
TypeOK ==
    /\ lab = "api" => Api!TypeOK
    /\ lab = "once" => Failure!StoreTypeOK
    /\ lab = "bulkhead" => Failure!PoolTypeOK
    /\ lab = "shortener" => Shortener!TypeOK
    /\ lab = "video" => Pipeline!TypeOK
    /\ lab = "dispatch" => Dispatch!TypeOK
    /\ lab = "registry" => Registry!TypeOK
    /\ lab = "crawler" => Crawler!TypeOK
    /\ lab = "regions" => Region!RegionTypeOK
    /\ lab = "clocks" => Region!ClockTypeOK
    /\ lab = "limiters" => Limits!LimiterTypeOK
    /\ lab = "servers" => Limits!ServersTypeOK

\* A key pays twice only if two of its requests overlapped, one died between the
\* payment and the store, or the stored answer expired, and a replayed answer names
\* a payment of its key; resolver calls are accounted for while no query meets
\* another one or a reading of the counts (01/11).  A stored response is final
\* (01/14, phase 5); a pool never runs more calls than it has threads, and rejects
\* one only when every permit of its own is taken (01/14, phase 4).
RequestsAreHonoured ==
    /\ [](lab = "api" => Api!ApiIsHonest)
    /\ [](lab = "once" => Failure!StoreIsFinal)
    /\ [](lab = "bulkhead" => Failure!BulkheadIsTight)
    /\ [][lab = "bulkhead" => Failure!RejectsWhenFull]_poolVars

\* A short code stands for one URL (C01); a row the upload script made ready has a
\* file for each quality it lists (C03).  No hit and no view is counted twice or
\* invented: each is in the row, in Redis, in one flush, or was taken by a flush
\* that failed, which the code allows and the ghosts lostHits and lostViews book.
CountersAreExact ==
    /\ lab = "shortener" => Shortener!ShortenerIsSound
    /\ lab = "video" => Pipeline!VideosArePlayable

\* A driver in the geo index has a heartbeat; one who is offered was a candidate of
\* the last search and available at some moment of the request, and no candidate who
\* was available all along has a shorter ETA (C04).  The log of the registry's watcher
\* replays to the registry; a leader whose lease lives holds the key, with its
\* revision as the token once that is read, and no token is above it (02/14).
MembershipIsTrue ==
    /\ lab = "dispatch" => Dispatch!DispatchIsSound
    /\ lab = "registry" => Registry!RegistryIsSound

\* The crawler requests a page once, no more than MaxPages of them and none deeper than
\* MaxDepth or disallowed by the rules it has fetched, and waits its own delay between
\* two requests to a host; the Crawl-delay of the host it reads and does not heed (C07).
CrawlIsSound ==
    /\ lab = "crawler" => Crawler!CrawlIsSound

\* While no write has overtaken an older one and no delivery has failed, a region
\* shows what was delivered to it, and the two agree once nothing is on the way; there
\* is one failover, and a clock is ahead of what its region has seen (02/19).
RegionsConverge ==
    /\ lab = "regions" => Region!RegionsConverge
    /\ lab = "clocks" => Region!ClocksAreCausal

\* No limiter admits more than its bucket, its window or its log allows: the racy
\* bucket and the log while calls do not overtake each other, the sliding counter in
\* the windows of the clock and not in every span (02/10).  Servers admit no more than
\* the limit in a window whose counter was not lost on the way (C10).
LimitsHold ==
    /\ lab = "limiters" => Limits!LimitsHold
    /\ lab = "servers" => Limits!GlobalLimitHolds

\* What C04 says of a driver whose signal comes back after an eviction.
HeartbeatBringsBack == lab = "dispatch" => Dispatch!HeartbeatBringsBack
=============================================================================
