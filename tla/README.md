# TLA+ verification of the system-design-interview labs

This directory holds TLA+ specifications of the programs in this repository,
the configurations that model-check them with TLC, and theorems about them that
TLAPS proves. Every definition is written from the Python source (and, where it
decides how the program runs, from a `docker-compose.yml`); `PROJECT.json` names
the lines each definition models.

Contents: [the system](#1-the-system) · [modules](#2-the-modules) ·
[runs](#3-the-runs) · [bounds](#4-bounds) · [fairness](#5-fairness) ·
[proofs](#6-what-is-proved) · [divergences](#7-where-text-and-code-disagree) ·
[not modelled](#8-what-is-not-modelled) · [plan](#9-plan)

## 1. The system

The repository is a course of 46 labs. Each lab is a program of its own: an
`experiment.py` that drives it, in some labs one or more servers, and a compose
file with the databases and brokers they talk to. Labs share no code and no
state, so a component here is a lab, or the part of a lab that has logic of its
own. A lab is named by its directory: 02/14 is `src/02-advanced/14-...`, C07 is
`src/03-case-studies/07-...`. The labs fall into four groups.

- **Servers and protocols with concurrent state** — the payment service, the
  payment API, the chat server, two-phase commit, the sagas, the circuit breaker,
  the bulkhead, the URL shortener, driver dispatch, the rate limiter, the leader
  election. Several actors meet over shared state and something can be lost.
- **Messaging** — event log, outbox, work queue, Kafka group, dead letters,
  notification workers, timeline fan-out, stream windows, back-pressure. Here
  the questions are redelivery, order and what a crash loses.
- **Engines and structures** — LSM tree, MVCC, chunked files, multipart objects,
  search index, sketches, hash ring, cluster client, caches, replicas. One or few
  actors, and a data structure that must answer like a simpler one.
- **Measurements of somebody else's software** — latencies of nginx, Postgres,
  etcd, Elasticsearch. They hold no state of their own and are left out.

### 1.1 Inventory

| Component | State | Operations | Talks to | Hard behaviour | Correct when |
|---|---|---|---|---|---|
| Payment service (`03-case-studies/12-payment-system`) | tables `transactions`, `ledger_entries`, `outbox_events`; Redis keys per customer and key | `POST /charge`, `POST /refund` (the other endpoints read) | clients, Postgres, Redis | requests race on one key; COMMIT whose acknowledgement is lost; death between COMMIT and cache; Redis down; two refunds of one charge | one row per key; balanced books; cache never ahead of the table; every answer names the row of its key |
| Payment API (`02-advanced/15-idempotency-exactly-once`) | table `charges` with status and stored response | `POST /charge` in two transactions | clients, Postgres, a payment processor | a loser reads between the winner's commits; the owner fails between them; a retry with other parameters | only the owner charges; a replay is the owner's response; parameters match |
| WhatsApp server (`03-case-studies/05-whatsapp`) | `connected_users`; table `messages`; Redis presence | frames auth, message, read, heartbeat; the `finally` block | WebSocket clients, Postgres, Redis | reconnection while the old task ends; a message stored while its recipient registers; half-open sockets; restart | nothing queued is forgotten; the map names living tasks; presence comes back |
| Two-phase commit (`02-advanced/02-distributed-transactions`) | the coordinator's local variables; prepared transactions in two databases | `TwoPhaseCoordinator.run` | two Postgres servers | lost votes; COMMIT PREPARED failing half-way; a coordinator that dies and leaves locks | atomic over both databases; a verdict that is true; no overselling; a run returns |
| Saga (same lab) | `completed_steps`; each service's data | `execute_step`, `compensate` | services | a step that takes effect and raises; a compensation that fails; recovery by hand | all or nothing outside what was reported; undone in reverse |
| Idempotent step (same lab) | `inventory`, `saga_completed_steps` | `idempotent_deduct` | Postgres | redelivery during the first delivery's transaction; crash between statements | one deduction per key |
| Circuit breaker (`01-foundations/14-failure-modes-reliability`) | state, two counters, `opened_at` | `call`, `_on_success`, `_on_failure` | caller threads, a downstream service | outcomes recorded in any order, in any state; cooldown against late failures | the counters explain the state; it closes again |

The other modelled labs, in the same order of columns but shorter:

| Component | State and operations | Hard behaviour | Correct when |
|---|---|---|---|
| Bulkhead, idempotency store (01/14) | a semaphore and two counters per pool; a dictionary under a lock; `submit`, `execute` | `+=` on a shared attribute; `fn` runs outside the lock | no permit is lost; one stored response, which is final |
| API design (01/11) | payments cached in Redis; resolver counter; `POST /payments`, queries, `/resolver-stats` | check-then-act on the key; copy-then-reset | a key is charged once unless requests overlap, one dies or the answer expires; calls add up while no query meets another or a reading |
| URL shortener (C01) | table `urls`, a pool of connections, Redis counters; `shorten`, `redirect_url`, `flush_hits` | counters are taken before a connection is; two flushes at once | a code is one URL; every hit is counted or known to be lost |
| Video pipeline (C03) | rows, objects, view counters; upload, transcode, manifests, flush | the script dies between object and row; GETDEL inside a transaction | a row the script wrote is never ahead of its objects; views are accounted for, those of a failed flush as lost |
| Driver dispatch (C04) | geo index, heartbeats, status; updates, eviction, match | eviction and match work from a list read earlier | an indexed driver has a heartbeat; a match is the nearest candidate who stayed, and was available during the request |
| Registry and election (02/14) | etcd keys under leases; register, heartbeat, campaign, resign, watch | a lease that nobody refreshes; a token that is read later | one holder of a live lease; the watcher replays to the registry |
| Rate limiters (02/10, C10) | counters, logs and buckets in Redis | scripts run in another order than their times; Redis stops; servers share a connection | the promised bound per window, or over any interval |
| Multi-region (02/19) | replication queue, watermark, arbiter, hybrid clock | lag changes; failures are swallowed; promotion in two steps | delivered means visible; a timestamp is above what it knows |
| Web crawler (C07) | frontier, Bloom filter, robots cache, pages | false positives; traps; failing pages | no page twice, none disallowed or beyond the limits, at the crawler's own delay; nothing lost but by the filter |
| Event log, outbox (02/04) | a partition and its offsets; outbox rows | redelivery after a crash; a relay that dies half-way | a rebuilt projection is a replay; no committed order is lost |
| Work queue (02/05), notifications (C09) | queues, acknowledgements, dead letters; delivery rows | redelivery, crash before acknowledging, two workers on one key | nothing lost; processed once |
| Kafka group, dead-letter topic (02/06) | offsets, assignment | rebalance and crash between poll and commit | in order, at least once; committed means settled |
| Stream windows (02/07), back-pressure (02/18) | open windows and a watermark; a bounded list | late and out-of-order events; several producers read one length | streaming agrees with batch; bounded overshoot, every item accounted for |
| Timeline (C02) | tweets, Kafka, sorted sets | send before commit, repeated runs, expiry while fanning out | a timeline lacks only what is older than all it has |
| LSM tree, MVCC (02/17) | memtable and tables; row versions and snapshots | compaction order, tombstones; vacuum under an open snapshot | reads find the latest put; a snapshot never changes |
| Files (C06), objects (01/12) | chunks, versions; parts | a shared chunk while another client dies; saves on an old base | a version can be read back; an object is whole |
| Search (02/09, C08), sketches (02/16) | inverted index, refresh, rankings; bits, registers, centroids | pages across refreshes; hash collisions | exact phrases, complete pages; errors on the promised side only |
| Hash ring (02/01), sharding (01/05), cluster client (02/08, C11) | positions, shards, slots | joins and leaves; slots that move; a counter that grows while it is read | a key is where it is looked up; only neighbours' keys move |
| Replicas (01/03), partition (01/02) | a command stream and its prefixes | reads at any lag; WAIT times out; a write that waits for a replica | acknowledged reads are fresh; a confirmed write is replicated |
| Caching (01/06), stampede (01/06, 02/08, C11) | cached row, lock | a slow reader stores an old row; the lock expires under its holder | stale only through that race; one holder within its expiry |

The labs that are not modelled are listed in `PROJECT.json` and in section 8.

### 1.2 How they interact

Inside a lab, components meet over a database, a Redis server, a socket or a
lock; each model contains the component together with the part of that neighbour
it uses. Across labs there is one shared idea: an idempotency key. Three labs
implement it in three ways — a UNIQUE index with a cache in front, a row that is
claimed and completed in two transactions, and a table of completed steps
written in the transaction of the effect. Its promise is written down once, in
`OncePerKey`, and each of the three is shown to implement it.

## 2. The modules

```
OncePerKey  <---- PaymentService ---- MCPaymentContracts, PaymentServiceProofs
            \
             <--- PaymentApi -------- MCPaymentContracts, PaymentApiProofs
              \
               <- IdempotentStep ---- MCTransactions

CircuitBreaker --- MCLiveness
WhatsAppServer --- MCMessaging, MCLiveness

MCTransactions: TwoPhaseCommit Saga IdempotentStep   --- TransactionsProofs
MCMessaging: WhatsAppServer EventDriven WorkQueue    --- MessagingProofs
             KafkaTopics NotificationWorkers
             StreamWindows Backpressure Timeline
MCStorage:   StorageEngine GoogleDrive ObjectStore   --- StorageProofs
             SearchIndex Sketches HashRing
             ClusterCache ReplicaReads Caching
MCServices:  ApiDesign FailureModes UrlShortener     --- ServicesProofs
             VideoPipeline DriverDispatch WebCrawler
             ServiceRegistry MultiRegion RateLimiting
```

An arrow is `INSTANCE OncePerKey WITH ...` and the property
`ImplementsOncePerKey`. `Counting` holds the lemmas about numbers, finite sets and
sums that `TransactionsProofs`, `MessagingProofs`, `ServicesProofs` and `StorageProofs` share;
`CircuitBreaker` holds its own few theorems.

`MCTransactions`, `MCPaymentContracts`, `MCLiveness`, `MCMessaging`, `MCStorage`
and `MCServices` check several labs in one run. They instantiate each lab's
module, give its constants their values, and let a variable `lab`, chosen
initially, say which of them runs; the others stand still. Labs share nothing,
so their product would show nothing that the union does not. A property of such
a module is the conjunction of the properties of its labs, each under
`lab = "..." =>`, and its comment names them.

A module may hold two programs of a lab, or of two labs about one subject, that
share nothing but their constants: `EventDriven` has the event log and the
outbox, `KafkaTopics` a group and a dead-letter topic, `StorageEngine` a tree and
a heap, `ReplicaReads` the lagging replicas and the partition, `MultiRegion` the regions and the clocks, `FailureModes` the pool and the
store, `Caching` cache-aside and the stampede, `RateLimiting` the algorithms and
the servers. Each has variables of its own and a specification of its own, with
the name of the part in front: `OutboxInit`, `OutboxNext`, `OutboxSpec`. Next is
split by what drives the actions in the script: `Election` and `Reelection` are
phases 4 and 5 of the registry's lab, `Outage` is phase 4 of the rate limiter's.

The definitions named
`...Unchecked`, `...Swallowed` and so on, each under a comment that begins with
"Mutation:", are plausible mistakes in the definition that follows them. No
specification uses them: they are there to show that each property fails when
the code is wrong.

### OncePerKey (abstract)

State: `effect[k]`, what was done under key `k`, and `answers`, the pairs of key
and effect that clients were told. `Execute` gives a key its only effect;
`Answer` tells that effect. Anything that implements it never executes twice,
never changes an effect, and never tells two clients different things.

### PaymentService

One action per statement that reads or writes shared state. `pc[r]` is the next
statement of request `r`; what a transaction has done and not yet committed lives
in `pc` and `arg`, what is committed in `rows`, `ledger` and `outbox`. This is
READ COMMITTED: `Select` sees `Committed` only, `ChargeInsert` and `RefundInsert`
wait while a request in `Holders` has inserted the same key, `RefundUpdate` waits
for the row lock.

| Code | Action |
|---|---|
| validation, Redis GET | `ChargeStart` |
| first SELECT | `ChargeLookup` |
| duplicate: SETEX and answer | `ChargeRefill` |
| INSERT INTO transactions, UniqueViolation | `ChargeInsert`, `ChargeConflict` |
| ledger, outbox, COMMIT | `ChargeCommit` |
| SETEX and 201 | `ChargeFill` |
| refund: key SELECT; original SELECT and status test; INSERT; UPDATE; COMMIT | `RefundStart`, `RefundLoad`, `RefundInsert`, `RefundUpdate`, `RefundCommit` |
| `except Exception`: rollback, 500 | `DatabaseFails` |
| COMMIT done, acknowledgement lost | `CommitUnacknowledged` |
| `restart: on-failure` | `Crash` (every request in flight is lost; `cacheOn`, whether Redis answered at start-up, is decided anew) |
| Redis | `RedisUpOrDown`, `CacheExpire` |

A refund stores `"refund-" + key` in the same column as charges, and a client may
send such a string itself: `StoredKeys` is a pair of prefix and key so that the
two can collide. The row id is the request's identity, as `uuid4` makes it.

`init_db` creates a partial index whose predicate calls `NOW()`
(`payment_service.py:133-136`), which Postgres refuses because the predicate must
be immutable; the model takes the tables and the UNIQUE constraint as the
statements before that index intend them.

### PaymentApi

The same contract with a different protocol: `Claim` is the
`INSERT .. ON CONFLICT DO NOTHING` that waits for an open claim of the key,
`ClaimCommit` makes the row `'processing'`, `Processor` calls out,
`Finish` commits `'success'` with the response, and `Respond` sends the 201. A
loser goes to `Select`, which compares the parameters and answers 409, 422 or the
stored response. `Stored` is what an INTEGER column does to an amount: the model
counts in halves so that a fraction exists, and rounds it.

### TwoPhaseCommit

One run of the coordinator per element of `Txns`. `part[t][p]` is the transaction
of run `t` at participant `p`; `Blocked` is the row lock on the product, or the
primary key of the order, held by a transaction that is open *or prepared* — a
prepared one keeps its locks after its connection and its coordinator are gone.
`Operate`, `Prepare`, `VoteNo`, `Decide`, `Commit`, `Abort`, `Return` are the
lines of `run`, the `UnboundLocalError` of its simulated crash included (section 7); `VoteLost`, `CommitRaises`, `AbortSwallowed` and `Die` are its
exceptions and the end of the process.

### Saga

`effect[s][i]` counts how often step `i` of saga `s` is in place, net of
compensations. A function that raises either did nothing (`ExecuteFails`) or took
effect first (`ExecuteLost`; `CompensateFails` covers both); the orchestrator
cannot tell, and neither can the model's `completed`. `Recover` is the engineer of
phase 4 who runs a reported compensation by hand. `lost`, `stuck` and `recovered`
are history variables: they record what happened so that the properties can name
the exceptions exactly.

### IdempotentStep

`idempotent_deduct`: `Check`, `Update` (which waits for the row lock), `Insert`
of the key, `Commit`, with failures and crashes in between.

### WhatsAppServer

One asyncio process: an action is the code from one suspension to the next.
`psycopg2` and `redis` calls block the event loop, so a handler's SQL and the
dictionary accesses around it form one action; only `await websocket.send` and the
next frame separate two of them. A socket is open, dead (the peer is gone and
nobody has noticed: a write succeeds and is lost) or closed (a write raises).
`Finally` is the `finally` block of `handle_client`. A connection authenticates
once, as the lab's clients do.

### CircuitBreaker

`Admit` is the first lock section of `call`, `Respond` the function that runs
outside the lock, `OnSuccess` and `OnFailure` the second lock section.
`cooled` says that `recovery_timeout` has passed since `opened_at`; the counters
stop at `Cap`, which changes nothing since the code only compares them with two
thresholds that are at most `Cap`.

### Messaging

- **EventDriven** (02/04). `Sourcing...`: a Kafka partition, a group's committed offset, and
  everything its consumer was handed. `RebuildStep` folds events into orders;
  `ProjectionIsReplay` compares what a consumer with redeliveries rebuilds with
  a replay of the log. `Outbox...`: the dual write that a crash splits, and the
  order and its outbox row written together, the relay that publishes and then
  marks, and its crash in between.
- **WorkQueue** (02/05): queues bound to a fanout exchange, consumers with
  `prefetch_count=1` that handle, acknowledge, reject or crash. A nack with
  requeue puts a message back, marked redelivered; only dead-lettering adds to
  `x-death`.
- **KafkaTopics** (02/06). `Group...`: keyed sends, polls, automatic commits, eager
  rebalances when a member joins, leaves or crashes. `Parking...`: the
  payment processor that commits by hand; the send to its dead-letter topic
  raises, since the value is encoded twice.
- **NotificationWorkers** (C09): the checks of `process` in their order, the
  attempts, the recording of the delivery under its unique constraint and, as a step of
  its own, the count in the worker's statistics; two workers may hold one key.
- **Timeline** (C02): `producer.send` before the transaction commits, the fan-out
  worker with its trim, expiry and backfill, a second run of the lab.
- **StreamWindows** (02/07): `Arrive` is one turn of the loop of phase 5
  (watermark, window or side output, closing); batch functions are operators over
  the list of arrivals.
- **Backpressure** (02/18): a producer reads the length in one command and pushes
  in another.

### Storage, routing, caching

- **StorageEngine** (02/17). `Tree...`: `Put`, `Delete`, flush and compaction as the code chains
  them. A Bloom filter is *any* superset of its keys, which covers every false
  positive. `Heap...`: row versions with their creator and deleter, snapshots,
  VACUUM up to the oldest open snapshot.
- **GoogleDrive** (C06): one chunk at a time; the SELECT with the object or the UPDATE
  that follows it is one step, the INSERT of the row another (section 8); resumed uploads by a Redis set; the save on a base
  version. **ObjectStore** (01/12): parts in any order, interruption, presigned
  URLs.
- **SearchIndex** (02/09, C08): `phrase_search` over positions compared with a
  search of the texts; `search_after` pages across refreshes; reciprocal rank
  fusion in integers scaled by the ranks. **Sketches** (02/16): each structure with
  given hash values; TLC takes every stream over a few items.
- **HashRing** (02/01, 01/05): `sorted_keys` and the ring dictionary are kept
  separately, as in the code, and the shard routers with their rows.
  **ClusterCache** (02/08, C11): slots, hash tags, pipelines, the sharded counter
  read while it grows, Pub/Sub behind a barrier, sampled LRU.
- **ReplicaReads**. The consistency models lab (01/03): each phase is a script of SET,
  GET and WAIT; a replica is a prefix of the master's stream. What a key is set to before
  a loop is `Start`, a value no round writes; the lab writes 0, which stands here for a
  missing key. `Cap...` (01/02): the script from
  start to end around a log, its received and replayed positions, and a thread
  whose synchronous write outlives the `join` that waits for it.
- **Caching** (01/06, 02/08, C11). `CacheAside...`: a read is a look, a query and a store; the writer updates
  and deletes. `Stampede...`: the strategies of three labs over one key with
  expiry and one lock with expiry.

### Services and coordination

- **ApiDesign** (01/11), **FailureModes** (01/14, `Store...` and `Pool...`): request
  threads; each command to Redis, each lock section, each half of a `+=` is a step.
- **UrlShortener** (C01): each statement of `shorten`, `redirect_url` and
  `flush_hits`, and the pool of connections that raises when empty; Base62 and the
  Snowflake layout are operators. **VideoPipeline** (C03): object, row, object, with
  a script that may die in between; both kinds of flush; the rows that phase 7
  inserts as `ready` without a file (`SeedReady`).
- **DriverDispatch** (C04): pipelines are atomic, what is between two calls is not;
  `was` and `steady` record, for a match in progress, who was available at some
  moment and throughout.
- **ServiceRegistry** (02/14): leases that expire, the election transaction and the
  separate read of its token, the watch as a position in the history.
- **WebCrawler** (C07): one URL per step through the guards of `run_crawler` in
  their order, against the web of `mock_server.py`, whose `robots.txt` has a rule and a
  Crawl-delay (`CrawlDelay`), beside the delay the crawl is started with
  (`PolitenessDelay`); the dicts of the code are
  functions on the keys they hold. A history of requests with their times and one
  of the seeds let the properties speak of politeness and of what a bit of the
  filter stands for.
- **MultiRegion** (02/19). `Region...`: the replicator takes what is due, writes
  it and then notes it, three steps; `Clock...`: the clock's `now` and `update`.
- **RateLimiting**. `Limiter...` (02/10): a caller takes the time, its script runs later.
  `Servers...` (C10): threads of a server share `REDIS_AVAILABLE`, the client
  and the script; Redis stops with or without saving and starts again.

### What "as the code does it" means for external software

Redis, Postgres, Kafka, RabbitMQ, etcd and MinIO appear as the effect of the
commands the code sends: a command is atomic, a pipeline is atomic where it is a
MULTI and command by command where it is not, a lease or a key with an expiry may
expire when its time has come, a process may die between any two of its steps.

## 3. The runs

| Run | Configuration | Distinct states | Question and answer |
|---|---|---|---|
| `payment_races` | `PaymentRaces.cfg` | 472,096 | Three requests, charges and refunds, two key strings, every failure: is there one row per key (`OneRowPerKey`), do the books match the committed transactions, with a charge marked refunded exactly when a refund reverses it (`BooksAreClosed`), does Redis only name committed rows (`CacheBehindDatabase`), is history immutable (`HistoryIsImmutable`)? Yes. |
| `payment_contracts` | `PaymentContracts.cfg` | 128,469 | At the payment API, three attempts of two customers with one key: does only the owner charge (`OnlyOwnerProcesses`), is a response stored exactly for a success, is a client served its own parameters and is a 422 its own doing (`AnswersMatchRows`), is the contract kept (`ImplementsOncePerKey`), is everybody answered and does a key leave `'processing'` unless its owner failed (`RequestsSettle`)? At the payment service, two tenants with one key string: is the contract kept for each and every request answered (`TenantsAreServed`)? Yes. |
| `transactions` | `Transactions.cfg` | 97,846 | Two coordinators, three sagas, three deliveries of a step, two faults: atomic (`Atomic`, `SagasAreAtomic`), truthful (`VerdictIsTrue`), never oversold and one deduction per key (`StockIsKept`), always over (`EveryoneReturns`)? Yes, for sagas outside the steps whose failure was reported or whose success was not heard of. |
| `messaging` | `Messaging.cfg` | 947,546 | Chat (`ChatIsConsistent`), event log and outbox (`EventsAreKept`), work queue and notifications (`DeliveredAndOnce`), Kafka group and dead letters (`GroupDelivers`), windows and bounded queue (`StreamsAreRight`), timelines (`TimelinesAreTheNewest`): is what was accepted delivered, still on its way or accounted for? Yes; a notification is recorded once and may be sent more often. |
| `liveness` | `Liveness.cfg` | 11,351 | Does the breaker close for good after its downstream has recovered for good, does a flush end, does presence come back (`EverythingHeals`); do the counters explain the breaker's state (`OpenIffFailing`)? Yes. |
| `storage` | `Storage.cfg` | 486,302 | Do structures answer like the simple thing they stand for: `ReadsAreRight`, `FilesAreWhole`, `LookupsAreExact`, `RoutingIsExact`, `ReplicasAreHonest`, `CachesConverge`? Yes. |
| `services` | `Services.cfg` | 1,371,120 | Do counters, membership and limits hold while threads, servers and regions interleave, outside the cases that section 7 names: `RequestsAreHonoured`, `CountersAreExact`, `MembershipIsTrue`, `CrawlIsSound`, `RegionsConverge`, `LimitsHold`? Yes. |
| `payment_double_refund` | `PaymentDoubleRefund.cfg` | – | Is a charge refunded at most once? **No** (section 7). |
| `chat_lost_ack` | `ChatLostAck.cfg` | – | Is the receipt of a queued message kept for a sender who is away? **No**. |
| `breaker_probe` | `BreakerProbe.cfg` | – | Is one request let through by a half-open breaker? **No**. |
| `queue_poison` | `QueuePoison.cfg` | – | Is a poison message dead-lettered in the end? **No**. |
| `dispatch_comes_back` | `DispatchComesBack.cfg` | – | Is a driver available again once a heartbeat follows its eviction? **No**. |

Each property is accompanied by mutations of the definitions it is about, one at
least for each lab it speaks of, under which it fails in the same configuration
(`"mutants"` in `PROJECT.json`). They are the mistakes one would make here: the
cache filled before COMMIT, the key without its customer, `COMMIT PREPARED` failing
and the coordinator rolling the rest back, compensations run forwards, a
compaction that merges newest first, a watermark that lets a late event
in, a flush that reads a counter without deleting it, a token bucket without its
cap, a lock anybody may release.

Deadlock is checked in the payment runs, in `storage`, in `services`, in
`breaker_probe` and in `dispatch_comes_back`. Where a lab really stops — every
event arrived, every thread returned — its module has a step that says so and
changes nothing (`StreamEnds`, `CallsReturned`, `LabEnds`, ...), so a lab that is
stuck anywhere else is reported. `CHECK_DEADLOCK FALSE` appears in `messaging`,
`transactions`, `liveness`, `chat_lost_ack` and `queue_poison`, whose instances have a
chat, a saga or a delivery that is simply over.

## 4. Bounds

| Bound | Why it is enough |
|---|---|
| three requests (two tenants) | one winner of a key, one loser that reads between the winner's steps, one late retry or a refund of the winner's charge; two racing refunds need the charge and themselves |
| `Keys = {k, l}`, `{k}` | one key to collide on, a second so that two refunds differ; a collision of a charge's key with a refund's comes from the prefix |
| `Amounts = {0, 5}` | one that validation refuses and one that it accepts; the model compares amounts and never adds them |
| `Amounts = {20, 40}` (payment API, in halves) | two amounts that differ, so a retry can carry the wrong one; both whole, see section 7 for fractions |
| three deliveries of a step, three keys, two units of stock | a redelivery that races with the first delivery, and a last key that finds the stock sold out |
| two runs, one unit of stock | two runs that cannot both succeed, one of which may block on the other's locks |
| `MaxFaults` (2PC, sagas: 2; chat: 1) | bounds lost votes, raised exceptions, crashes: two in one run, or one in each of two; one restart or one dead socket among three connections |
| three sagas of three steps | a first, an inner and a last step to fail at; one saga running forwards while one compensates and one has been recovered |
| three connections of two users | a user's old and new connection beside the peer's |
| `MaxSends = 1` | a client sends a message id once; a message whose ACK1 was lost stays as it is |
| `Cap` (3 and 4) | the counters are compared with `Threshold` and `MinRequests`, which are not larger |
| `MaxTopic`, `MaxDelivered`, `MaxRelayed`, `MaxCopies`, `MaxDeliveries`, `MaxSent` (3 to 6) | two items of one order or key and one of another, so order within a key can go wrong, and one redelivery |
| `MaxCrashes`, `MaxOutages`, `MaxRuns`, `MaxRebalances` (1 to 3) | one crash splits every pair of steps; the second run meets what the first left; the third rebalance takes back what the second moved |
| `QueueAttempts`, `NotifyAttempts`, `MaxRetries`, `MaxAttempt` (2 to 3) | a first attempt, a repeated one, and the one that gives up |
| two or three workers, consumers, threads, servers | one that is overtaken, one that overtakes; a third where a limit is 2 (pool of connections, fetchers of a lock) |
| `EventTimes = {0, 1, 3, 5, 8}`, `WindowSize = 3`, lateness 1 | both edges of a window, an event late but accepted, one too late, one beyond the next window; four arrivals in every order |
| `MaxQueue = 2`, four offers, two producers | two producers see the same last free place |
| `TimelineMax = 2`, ids from 9 | a third tweet trims one; 9 and 10 sort differently as text |
| `MemtableSize = 2`, `L0Threshold = 2`, five writes | two flushes and a compaction, with a key that is overwritten and one that is deleted in between |
| `MaxXid = 4` | a snapshot, a writer before and after it, and VACUUM |
| contents of one or two chunks, two uploaders, two versions | a chunk shared by two files, the second upload resumed, two saves on one base |
| four texts of two words | a phrase at the start, inside, absent, and with a repeated word |
| `Items` with equal and unequal hashes, streams up to 4 | a collision in one row and not in the other |
| three nodes with one or two virtual nodes, keys `0..9` | wrap-around, a key on a node, a successor that leaves |
| two shards of a counter, four slots | a sum that is read while the part already read grows |
| caches: expiry 1 or 2, time up to 3 | a lock that expires under its holder, a value that expires while a slow reader stores an older one |
| `MaxRevision = 6`, two candidates | a leader, its successor and the return of the first |
| crawl: six pages, depth 3, two hosts | a cycle, a trap, a private path, a Bloom filter collision across hosts |
| `MaxWrites = 3`, lags 1 and 3 | a later write that arrives earlier on the same key |
| rate limits: window 2 or 3, limit 2, time to 4 or 6 | the end of one window and the start of the next; a script that runs after one with a later time |

Symmetry is declared only in runs without a liveness property, and every action
and property of those runs treats the permuted elements alike.

## 5. Fairness

Liveness is checked under weak fairness of what the program itself does, never of
the environment: no request has to arrive, no failure has to happen and no
service has to recover.

- `PaymentService`, `PaymentApi`: `WF_vars(Serve(r))`, `WF_vars(Handle(r))`. Each
  request has a thread of Flask's server, and Postgres grants a lock that is free.
  No fairness is needed for the waiting itself: a waiting request becomes enabled
  when the holder ends, and the properties show that it does end.
- `TwoPhaseCommit`, `Saga`: `WF_vars(Run(t))`, the loop of one process. The wait for
  a lock left by a dead coordinator is bounded by `lock_timeout=5000`
  (`docker-compose.yml`), which is why `VoteNo` is part of `Run`.
- `WhatsAppServer`: `WF_vars(Task(c))`, the event loop resumes a task whose await
  is over, and `WF_vars(Heartbeat(c))`, a client that stays connected sends its
  heartbeats, as the lab's clients do.
- `WorkQueue` (run `queue_poison`): weak fairness of each consumer's loop; a
  message that is ready is delivered and the handler returns.
- `CircuitBreaker`: `WF_vars(Step(t))` — a call returns (it has a timeout) and the
  program keeps calling, as the loops of phase 3 do — and `WF_vars(Cooldown)`,
  time passes. `EventuallyCloses` assumes that the downstream stays healthy from
  some moment on: `<>[]healthy` is its hypothesis, not a fairness condition.

## 6. What is proved

TLAPS checks the theorems below for every value of the constants that satisfies
the `ASSUME` of the module and the hypotheses of the theorem: any number of
requests, keys, customers, threads or runs. TLC evaluates the assumptions of
every module that a run's module extends. What a lab's proof needs of its
constants stands in the lab's module under a name (`QueueAssumptions`,
`NotifAssumptions`, `EventAssumptions`, `KafkaAssumptions`, `TimelineAssumptions`,
`WindowAssumptions`, `PressureAssumptions`, `SagaAssumptions`, `StepAssumptions`):
that sets are finite and bounds are numbers, that a notification's key belongs to
one user, and the like; those of the service labs (`ApiAssumed`, `PoolAssumed` and
so on) stand in `MCServices`, those of the storage labs (`LsmAssumed` and so on) in
`MCStorage`. Five of them are more than a set's being finite: the seeds of a
crawl differ after normalisation, or the frontier would hold a page twice
(`CrawlerAssumed`); the scale of the video qualities ascends (`PipelineAssumed`); the
search radii are `1..n` (`DispatchAssumed`); and `2^n` is a positive number
for the widths of a sharded id, which the prover does not know of itself
(`SnowflakeAssumed`); and the replicas of the consistency models lab are the two its scripts
name (`ReplicasAssumed`). `MCAssumption` of `MCTransactions`, of `MCMessaging`, of `MCServices`
and of `MCStorage` assumes their conjunction. The constants of these four modules
get their values in the cfg, so a theorem about `MCSpec` or `MCFairSpec` holds for every other value
too, and its property is the one TLC checks. Four labs of `MCStorage` (search, sketches, ring and
cluster), about which nothing is proved, have theirs as definitions.

| Theorem | Statement | Inductive invariant |
|---|---|---|
| `PaymentServiceProofs!TypeCorrect` | `Spec => []TypeOK` | `WellFormed`: the types, and what `pc[r]` says about `arg[r]` and `rows[r]` |
| `PaymentServiceProofs!KeysAreUnique` | `Spec => []OneRowPerKey` | `WellFormed /\ KeysGuarded` |
| `PaymentServiceProofs!CacheNeverAhead` | `Spec => []CacheBehindDatabase` | `WellFormed /\ KeysGuarded /\ Truthful` |
| `PaymentServiceProofs!Refinement` | `Spec => ImplementsOncePerKey` | the same |
| `PaymentServiceProofs!BooksClosed` | `Spec => []BooksAreClosed` | `WellFormed /\ BooksKept` |
| `PaymentServiceProofs!HistoryStands` | `Spec => HistoryIsImmutable` | the same |
| `PaymentApiProofs!ApiTypeCorrect`, `OneProcessor`, `ApiRefinement` | `TypeOK`, `OnlyOwnerProcesses`, `ImplementsOncePerKey` | `Inv` |
| `PaymentApiProofs!AnswersAreTrue` | `WholeAmounts /\ Spec => []AnswersMatchRows` | `Inv /\ RowCopies /\ ToldOwn /\ MismatchIsClientBug` |
| `TransactionsProofs!TwoPhaseTypeCorrect`, `TwoPhaseAtomic`, `TwoPhaseVerdict` | `TypeOK`, `Atomic`, `VerdictIsTrue` | `Inv`, whose core is `Progress` |
| `TransactionsProofs!TwoPhaseNeverOversells` | `Spec => []NeverOversold` | `Inv /\ StockInv` |
| `TransactionsProofs!SagaTypeCorrect`, `SagaAtomic` | `SagaAssumptions /\ Spec => []TypeOK`, `... => [](AllOrNothing /\ EffectsArePrefix)` | `SagaInv`, whose core is `StepEffect` |
| `TransactionsProofs!TransactionsTyped`, `SagasStayAtomic`, `StockStaysKept` | `MCFairSpec => []EachTypeOK`, `[]SagasAreAtomic`, `StockIsKept` | `EachInv`: the invariants above, `SagaStockInv` and `StepInv` |
| `TransactionsProofs!StepKeepsStock`, `StepRefinement` | `StepAssumptions /\ Spec => [](StockMatchesKeys /\ SkippedIsDone)`, `... => ImplementsOncePerKey` | `StepInv` |
| `MessagingProofs!RegisteredStaysAlive` | `Spec => []RegisteredIsAlive` | `Registry` |
| `MessagingProofs!ChatStaysConsistent` | `MCSpec => []ChatIsConsistent` | `ChatInv` |
| `MessagingProofs!EventsStayKept` | `MCSpec => []EventsAreKept` | `SourcingInv`, `OutboxInv` |
| `MessagingProofs!EveryMessageOnce` | `MCSpec => []DeliveredAndOnce` | `WorkInv`, `NoticesInv` |
| `MessagingProofs!GroupAlwaysDelivers` | `MCSpec => []GroupDelivers` | `GroupInv`, `ParkingInv` |
| `MessagingProofs!TimelinesStayNewest` | `MCSpec => []TimelinesAreTheNewest` | `TweetsInv` |
| `MessagingProofs!WindowsMatchBatch` | `StreamMatchesBatch`, the first part of `StreamsAreRight` | `WindowsInv` |
| `MessagingProofs!QueueStaysBounded` | `QueueIsBounded`, the part of `StreamsAreRight` about 02/18 | `PressureInv` |
| `MessagingProofs!MessagingTyped` | `MCSpec => []EachTypeOK` | all of these, and `TweetBounds` |
| `CircuitBreaker!BreakerTypeCorrect`, `BreakerExplained` | `TypeOK`, `OpenIffFailing` | `TypeOK /\ OpenIffFailing` |
| `ServicesProofs!RequestsStayHonoured` | `MCSpec => RequestsAreHonoured` | `ApiInv`, `StoreInv`, `PoolInv`, `BooksInv` |
| `ServicesProofs!LimitsStand` | `MCSpec => []LimitsHold` | `LimiterInv`, `ServersInv` |
| `ServicesProofs!MembershipStands` | `MCSpec => []MembershipIsTrue` | `DispatchInv`, `RegistryInv` |
| `ServicesProofs!RegionsAgree` | `MCSpec => []RegionsConverge` | `RegionsInv`, `ClocksInv` |
| `ServicesProofs!CountersStayExact` | `MCSpec => []CountersAreExact` | `ShortenerInv`, `VideoInv` |
| `ServicesProofs!CrawlStaysSound` | `MCSpec => []CrawlIsSound` | `CrawlInv` |
| `ServicesProofs!ServicesTyped` | `MCSpec => []TypeOK` | all of these, `FiredInv`, `ReadInv` and `BorrowedInv` |
| `ServicesProofs!PermitsKept`, `RejectedMeansFull` | `PoolSpec => []PermitsAccounted`, `PoolSpec => RejectedOnlyWhenFull` | `PoolInv`: the types and `PermitsAccounted` |
| `ServicesProofs!StoredResponseStays` | `StoreSpec => []StoreIsFinal` | `StoreInv` |
| `StorageProofs!ReadsStayRight` | `MCSpec => []ReadsAreRight` | `LsmInv`, `HeapInv` |
| `StorageProofs!FilesStayWhole` | `MCSpec => FilesAreWhole` | `DriveInv`, `BucketInv` |
| `StorageProofs!ReplicasStayHonest` | `MCSpec => []ReplicasAreHonest` | `ReplicaInv`, `CapInv` |
| `StorageProofs!CachesStayConverged` | `MCSpec => []CachesConverge` | `AsideInv`, `HotInv`, `StampedeInv` |

The arguments, and why the invariants must be strengthened:

- **One row per key.** `OneRowPerKey` alone is not inductive: a state in which two
  open transactions hold the same key satisfies it and the next two COMMITs break
  it. `KeysGuarded` says what the unique index does for open transactions: two of
  them never hold one key, and the key of an open one is not committed. That the
  key of a refund stays put while it is open needs `RowsOnlyGrow`, proved first:
  a committed row keeps its customer, its key and the charge it reverses.
- **The cache, and the answers.** `Truthful` says what a request knows at each
  statement: `found[r]` is a committed row of its key when it is about to fill the
  cache, its own row is committed when it is about to answer, and whoever was told
  a transaction was told the row of its key. `SelectGrows` — what a SELECT
  returned, every later SELECT returns — carries it over other requests' steps.
  The refinement then maps a COMMIT to `Execute`, each answer to `Answer`, and
  every other step to a stutter.
- **The books.** `BooksAreClosed` says that a committed transaction has two
  entries which balance; the next COMMIT must not add a third. `BooksKept`
  therefore says which two they are (`Booked`) and that entries belong to
  committed transactions only. That a reversal names a charge, and never another
  reversal, rests on the status test of the refund's SELECT: a refund's own row is
  inserted as refunded (`RefundsAreMarked`), so a row found completed is a charge
  (`TargetsAreCharges`). `HistoryStands` follows: the only UPDATE of a committed
  row is the mark of a refund whose target was completed.
- **Payment API.** `Inv` says that a claim being committed is alone on its key
  (`ClaimsExclusive`), that a loser's SELECT finds a row (`SelectFindsRow`), that a
  response is sent after it was committed (`RespondsAfterCommit`), that whoever was
  told an id was told the stored response (`ToldStored`), and that an owner sent
  the key it owns (`OwnersKey`). `AnswersAreTrue` adds that a row holds its owner's
  customer and rounded amount (`RowCopies`) and so do those of whoever was told of
  it (`ToldOwn`). Its hypothesis `WholeAmounts`, that no amount has a fraction (the
  column is an INTEGER), is needed for `MismatchIsClientBug` alone: without it the
  owner's own retry is a mismatch (section 7).
- **Two-phase commit.** `Progress(t)` ties the coordinator's program counter to
  both databases: while it votes nothing is committed and everyone counted in
  `votes` is prepared; while it commits, the participants before `at` are
  committed and the rest prepared. Only that makes a partial commit never meet a
  rollback, whatever dies in between. `StepIsLocal` reduces a step to one run.
- **The stock of two-phase commit.** The stock is what it was minus the committed
  deductions, a sum over the runs, so a COMMIT of a transaction prepared long ago
  must still find enough. `StockInv` says why it does: two transactions that have
  passed the stock test and are not over are one (`Holds`), since each keeps the
  row's lock, prepared or not, and while one of them holds it the stock covers its
  quantity.
- **Saga.** `AllOrNothing` speaks of sagas that are over. While one runs, `Reach`
  is how far its effects go: to the last recorded step on the way forward, to the
  step compensated next on the way back. `StepEffect` says what each step has left
  in place, the steps reported as stuck and the one whose success was not heard of
  included; it yields both properties. The hypotheses are that the number of steps
  and the bound on faults are natural numbers. The stock is
  what was there minus a sum over the sagas; a step of one saga changes one term,
  and a deduction is made only when enough is left (`SagaStockInv`).
- **Idempotent step.** From the UPDATE to the end of its transaction one delivery
  holds the row (`OneHoldsTheRow`), so the stock it tested and the key it found
  missing (`Knows`) still stand when it commits; a COMMIT adds one key to those
  that are counted. A delivery that is recorded is over (`RecordedIsOver`), so none
  stands under two keys, which the contract's `Execute` asks for. The hypotheses
  are that `Keys` is finite and that `None` is no delivery and no answer. These
  theorems are about `IdempotentStep` and stand in `TransactionsProofs`.
- **Chat server.** A task is registered under the user it authenticated as and no
  other, so the finally block that ends it removes its entry. `Registry` says so
  and that a task has a user exactly from `auth` on; `TaskKinds` reduces the
  handlers to two kinds, those that go on and those that end in that block.
- **The chat's queues.** That a message waits as sent only while its recipient has no
  entry, or one whose socket is gone, or somebody has it in hand is a fact about every message and every task at
  once. `Away` names the three excuses: a task carries the message (in the queue it
  read at authentication, or as the one it is delivering), the recipient has no
  entry or one whose socket is not open, or the message has reached the
  recipient's device and its status has not been written yet.
  `TaskOK` says that what a task carries is in the table, for its user, in the
  order of the table (`Table`), which gives `QueueIsSorted`. `Kept` describes what a
  step other than an authentication may do to what a task carries; each handler
  is shown to be such a step once, and the invariant is carried over by `Kept`
  alone.
- **Work queue.** A copy of a message is in exactly one place: waiting, with a
  consumer, acknowledged or among the dead letters (`OnePlace`). The handler
  records the id before it acknowledges (`HandledIsSeen`), an acknowledged copy's
  id is recorded and no id is processed twice (`Once`), so a redelivery after a
  crash is skipped. `Numbered` keeps new copies apart from old ones.
- **Notifications.** `KeyIsRaced` counts the sends of a key: before it is recorded,
  at most one for each worker about to record it and one for each crash; after
  that, at most one for each worker and each crash, the workers still about to
  send included. A repeated send therefore needs a race or a death.
  `StatsAreExact` is an invariant beside it: the statistics count what was handed out, but
  for the rows of workers that have yet to count them or died before they did.
- **Event log.** What a consumer was handed, with every redelivery, folds to the
  same orders as a prefix of the log (`CaughtUp`), because the consumer remembers
  the events it has applied. The fold of the module is unrolled once (`Unrolled`)
  to a recursive function; what the proof needs of it is one event at a time.
- **Outbox.** An order committed with its row has that row (`OutboxInv`), a row
  marked published, and the one the relay is about to mark, is in the topic.
- **Kafka group.** For each partition `LogOf` and `PolledOf` say what its records
  and the group's polls look like: the records of its keys in the order they were
  sent; everything below its position polled, and every poll of a record preceded
  by one of each record before it, whatever was polled again after a rebalance. `Balanced` is what an
  assignment must be for `OneOwnerEach`; counting the members without a partition
  needs the number of partitions and members only. `ParkingInv` states that
  everything before a partition's position is settled or parked.
- **Timelines.** `Above` is a strict total order of entries, so an entry's place in
  it is smaller than that of everything below, and a trim keeps exactly the first
  `TimelineMax` entries (`TrimKeeps`): what it drops finds the timeline full of
  entries that are no older. `NewestKept` says that of every entry that was
  handed to the worker, committed or not, which is what survives the next trim,
  a redelivery and a crash. `Fresh` is needed for the rows: messages of an open
  transaction were handed to nobody, so a commit adds no row that was missed.
- **Stream windows.** An arrival adds one to its window's count or to the late
  events, and one to the batch count of that window: `Adds` holds for every
  window, closed, open or never seen. A closed window is counted no more since
  whatever falls into it later is late.
- **Back-pressure.** A producer that has read a length below the bound pushes later.
  When it read it, the list was below the bound and at most the other producers
  were about to push; the sum of the two, not the length, is what no step takes
  beyond `MaxQueue + Cardinality(BpProducers) - 1`. Every push and every
  discarded offer is one in a counter of its producer, and the counters are added
  up with `TotalChange`.
- **Circuit breaker.** `OpenIffFailing` is inductive with the types: a failure more
  never undoes the condition that opened the breaker (`TripsGrows`), and a success
  resets the count and closes it, in whatever state it arrives.

- **Bulkhead.** `PermitsAccounted` counts the threads between `acquire` and
  `finally`; a step moves one thread in or out of that set and one permit the other
  way (`PermitKinds`), so the sum stays. A call that is turned away found no permit,
  hence `max_threads` calls of its pool are in that set. The hypotheses are that
  `Threads` is finite and the limit a natural number.
- **The bulkhead's counters.** `completed += 1` is a read and a write, so updates are
  lost and no sum of the counters stays. `BooksInv` bounds instead everything that
  a counter can still fall back to: what it holds, and what a thread that is about to
  write has read of it. Whichever of these is taken for each of the two counters, they
  add up to at most the calls that are over (`Understated`), since a write adds
  the one call that its thread ends.
- **Idempotency store.** A stored response was made by an attempt that has returned
  as the first and ran `fn` (`StoredByFirst`), and a deduplicated attempt was given
  what its key still stores (`Replayed`): the second look under the lock never
  replaces a response. What does not hold, that the firsts agree too, is the row
  `OneResponse` in section 7.
- **API lab.** A key is excused once two requests were under way with it,
  one died before its store or its answer expired. One that is
  not is served by one request at a time, and its payment is either what the key
  stores or what that request is about to store (`ChargedOnce`); what is stored or
  replayed is a payment that was made (`AnswersPaid`). While no query
  has met another one or a reading of the statistics, at most one of them is under way
  (`Alone`), and its calls are in the answers' sum or in the counter that was not read yet
  (`StatsInv`).
- **Limiters.** A token bucket pays for what it lets through: for every interval in
  which something was allowed, the tokens that are left, less what they were refilled
  by up to the interval's start, and the requests allowed since stay within the
  capacity (`BucketPays`). The racy bucket keeps this as long as its calls are not
  overtaken, since what a call has read is then still there (`ReadsStand`). The log
  holds an entry for every request that is within the window of all others
  (`LogHolds`), so whoever counts them counts these too. The products of times and
  rates are the lemmas of the module's first part.
- **Servers that share a counter.** The counter of a window is at least what was
  checked against it and passed (`WindowsCount`). When it is gone, its window is over
  and no thread has a request of it in hand, or the window is among those whose count
  an outage has spoilt: the expiry of a counter is after the end of its window
  (`CountersLive`).
- **Regions.** While no write has overtaken another, what is being delivered and what
  is queued are the writes after the last delivered one, in the order of their numbers
  and of their times, and each region holds the newest write of every key among those
  it has seen (`InStep`). `TakeReady` takes what is due; the times ascend, so that is a
  first part of the queue (`Queued`), which `NthInOrder` of `Counting` puts in order.
- **Hybrid clocks.** No timestamp a region knows of, its own or one that came with a
  message, is ahead of its clock (`ClockIsAhead`), and both `now` and `update` go
  beyond it (`NowIsLater`, `UpdatedIsLater`), whatever the physical clock does.
- **Dispatch.** `RiderKnows` says what a search relies on at each of its round trips:
  whoever is available now was available at some moment of it, and whoever was there
  throughout is outside the radii that were searched in vain or among the candidates
  of this one. An evicted driver leaves both sets.
- **Registry.** The watcher's log is a stretch of the history (`LogIsHistory`) and
  what has happened since the watch began leads from what the services were to what
  they are (`HistoryLeadsHere`); the fold of the log is unrolled to a recursive
  function. `LeaderInv` ties a live lease to the key, and the token, once its holder
  has read it, to the revision the key was made at (`KnowsToken`).
- **Short codes.** The digits of an id and the value of a code are recursive functions;
  that decoding gives the id back is proved by induction on the id, divided by the base
  again and again (`CodesComeBack`), so two ids never share a code. A sharded id is
  nested divisions with remainder, and each field comes off by the lemma about one of them.
- **Hits.** A GETDEL takes the hits of a code out of Redis into one flush, so a flush has
  counted nothing for a code that is still on its list (`TakenOnce`). The hits in the hands
  of all flushes are a sum, of which a step changes one term (`TotalChange`); with the row,
  Redis and what is lost they add up to what was served (`HitsKept`). That the sum moves
  into the row at the commit needs that hits are only held for codes with a row (`RowsOnly`).
- **Videos.** The script's position says which objects and rows there are (`ScriptFirst`),
  and a row of phase 7 has none (`SeedFirst`):
  objects come first at every step, so the order stands wherever the script dies. A larger
  quality is a larger object because the scale grows and division is monotonic.
- **Crawler.** Along the frontier depths never fall and differ by one at most, and no
  saved page is deeper than what waits (`BreadthFirst`): this makes the first way to a page
  a shortest one. What waits or was asked for is in the filter and what is appended was not
  (`FilterKnows`), so nothing is asked for twice. For what the crawl loses, every bit of
  the filter is owed to a URL that is settled, that is, waits, was asked for, was dropped
  by a rule or is too deep like all that follows it (`Accounted`). A link that the filter
  turned away is then settled itself, or every bit of it is owed to other URLs.
  The seeds are among those: the filter holds them before the first page is saved.
- **Types and limits.** Three limits need an invariant of their own: the resolvers that
  will still run are a sum over the queries (`FiredInv`), a thread has read a counter that
  is within the calls there are (`ReadInv`, from `Understated`), and whoever borrows a
  connection does so while the pool has one (`BorrowedInv`).
- **LSM tree.** The tables are newest first and those of level 0 before those of level 1
  (`Sorted`), so the first table that holds a key holds its newest value, and `Lookup` is
  that value. A flush puts the memtable in front; a compaction replaces the tables
  of level 0 by one that answers every live key as they did (`Merge`), and a key it no longer
  holds was deleted. That the value read is the last one put is then `LsmInv`; a deleted key may
  read as an older value, which section 7 names. The bound on the writes is a potential: a write pays
  for two entries, one is spent when the entry is flushed, the other when it is compacted; an
  entry of the memtable still owes two, one of level 0 owes one (`Filed`). Two
  entries of a level never share a place in `Filed`, a set of pairs of a table and a key.
- **Row versions.** Version `n` of the row ends where version `n + 1` begins
  (`VersionAt`), so a snapshot sees the version of its own transaction and no other
  (`VersionSeen`). VACUUM spares every version that ended after the oldest open snapshot
  began, so the version of an open snapshot is there (`HeapInv`).
- **The drive.** A chunk's row is inserted after its object is put, and neither is ever taken
  away, so what an upload has been through stays stored. `Carries` says what that is: the
  chunks before its next one, and the object of the next one once it was put; for an upload
  that is resumed, the chunks whose numbers are in its Redis set. When it completes, these
  are all the chunks, so the version it saves is whole (`FileKept`). Only `CompleteSave` moves a
  client from saving to idle with a version written, and UNIQUE on the file and the version
  lets it only while the last version is the base.
- **The bucket.** A part that was sent is the part of its upload's body that its number
  names (`PartsOf`), so when every number was sent, the parts taken by their numbers are
  the body, in whatever order they arrived (`AssembledWhole`). A completed upload stays so,
  so the object it made is still the body of one (`MadeBy`).
- **Lagging replicas.** What the scripts set is the argument: along a script the loops' values
  climb and the post comes before the reply (`Scripted`), proved for each of the six
  scripts (`EveryScript`). `StreamInv` carries that over to the stream, entry by entry, and a
  prefix of such a stream answers with a later value the longer it is. An answer that was
  given once is still there in every longer prefix (`StillThere`), and two acknowledgements mean
  that both replicas have applied the whole stream (`EveryoneAcked`).
- **The partition.** The synchronous write has at most one commit record, from the step that
  appends it on (`CapSync`), and it was received before the writer was released, or the
  standby's name had been reset, which happens after the `join` only. `CapSession`
  says where the session's own write is: at the position of its LSN, and a
  commit that still waits is after it.
- **Cache-aside.** A cached value, and a value a reader is about to store, is current, or the
  writer has still to delete, or a delete came after the reader had looked (`Excused`); time
  only takes entries away.
- **Stampede.** A fetcher that works within its lease is the one the lock names (`Leased`), a
  lock of the process is held by the one inside (`Kept`), and the stores are paid for by
  the expiries, none being due while the key is there (`Counts`). The fetchers that have lost
  the lock are where their strategy sends them (`Losers`).

**Counting.** Several of these arguments count: the free permits, the places of a
queue, the units of stock, the entries above an entry. The library's induction
theorems cannot be used, since they take an operator; but its principle of
well-founded induction takes a set. `Counting` derives from it what the other
modules cite: a set of numbers that contains 0 and is closed under adding one is
`Nat` (`NatBySets`), a set of numbers has a least and a bounded one a last
element, finite sets by adding elements (`SubsetsBySets`), what one change
does to a cardinality (`ButOne`) or to the sum of a function (`TotalChange`), and
that a sequence of places can be put in order (`InOrder`).

Model-checked only:

- every liveness property: liveness under fairness, and ENABLED, are outside the
  prover;
- of `StreamsAreRight`, `SessionsAreGaps` and `SnapshotsAreRight`: they sort and
  select with operators of the standard library that the prover cannot expand;
- `RoutingIsExact` of `MCStorage` and its types; and `LookupsAreExact`, whose structures are
  recursive functions over all streams of a few items, compared with a direct count:
  induction over data.

## 7. Where text and code disagree

Five runs have a counterexample, and `PROJECT.json` quotes the sentence each one
contradicts.

- **A charge can be refunded twice** (`payment_double_refund`). `refund()` reads
  the original without `FOR UPDATE` and its UPDATE does not test the status. Two
  refunds with different keys both read `'completed'`; the row lock orders their
  UPDATEs and prevents neither.
- **A delivery receipt is not queued** (`chat_lost_ack`). When a queued message is
  delivered and its sender is away, ACK2 is dropped.
- **A half-open breaker admits everybody** (`breaker_probe`). `call` rejects only
  in `OPEN`; the first caller after the cooldown moves the breaker to `HALF_OPEN`
  and all that follow pass.
- **A poison message is never dead-lettered** (`queue_poison`). The consumer of
  02/05 gives it back with `requeue=True` and counts attempts in `x-death`, which
  the broker extends only when it dead-letters: the attempt stays 1.
- **An evicted driver does not come back** (`dispatch_comes_back`). The location
  update of C04 writes the status with HSETNX, which leaves the OFFLINE that the
  eviction wrote.

Behaviour met while modelling that no run checks; the models contain it unless
the text says otherwise:

- The reversal of a refund is booked without a currency, so in the column's
  default: after refunding a charge in another currency, neither that currency nor
  the default sums to zero (`payment_service.py:483-494` against the header's
  "enforced per-currency").
  `BooksMatchTransactions` therefore compares amounts and sides, and a currency
  with its counter-entry's.
- A refund's key is looked up without the customer: another customer's refund with
  that key answers `duplicate` and refunds nothing. The contract's answers are
  those of charges.
- A process that found Redis at start-up fails a charge when Redis is down later:
  the GET is outside the `try` that would let Postgres answer.
- `GET /reconcile` is documented in the header and not implemented; a refund
  writes no outbox event; nothing reads the outbox.
- In the payment API an amount with a fraction is rounded when stored and compared
  unrounded, so an identical retry gets 422. `MismatchIsClientBug` is checked for
  whole amounts. A row stays `'processing'` after its owner failed, and every retry
  gets 409.
- Phase 2 of the two-phase commit lab uses phase 1's order id again, so db-orders
  would refuse the INSERT whether or not the stock suffices.
- A saga compensation that took effect and raised is reported as failed; running
  it by hand compensates twice. `NeverOversold` names that exception.
- Chat: `delivered` means written to a socket; a live message overtakes the queue
  being flushed; a later `delivered` overwrites `read`; the `finally` block of a
  replaced connection removes the new one's entry and presence key
  (`ws_server.py:231`), so the user is connected and unreachable until reconnecting.
  No property catches the entry: `ChatIsConsistent` lets a message wait as sent while
  its recipient has no entry, that user's included, `RegisteredIsAlive` says nothing of
  a user without one, and `PresenceHeals` speaks of the presence key only.
- Two-phase commit: with `simulate_crash_after_prepare`, the report of the stuck
  transactions prints `prepare_name` (line 179), which is unbound when the first
  operation failed: `run` raises `UnboundLocalError` instead of returning. `Decide`
  does so too, nothing being prepared.
- A success admitted while the breaker was closed and recorded after it opened
  closes it at once, without a cooldown or a probe.

Sentences of the labs that their code does not keep, met while modelling. Where a
definition is named, it states the sentence in the lab's module and stands there
as documentation; no run checks it, since the models below only confirm what
reading the lines shows.

| Lab | The text | The code | Stated as |
|---|---|---|---|
| 01/02 | a write that timed out leaves no bad data | the thread that was given up on commits it later (`experiment.py:472`) | `ReplicaReads!TimedOutWriteIsGone` |
| 01/02 | "Replica is still catching up" | the lab looks for the balance of phase 3, which the write of phase 4 that was given up on may have replaced: a replica that has everything is reported as behind (406-413) | `ReplicaReads!CaughtUpIsNoticed` |
| 01/03 | after WAIT 1 a read on replica 1 is "guaranteed fresh" (131) | the one that acknowledged may be the other replica | `ReplicaReads!WaitOneIsFresh` |
| 01/06, 02/08 | the winner of the mutex owns it ("This thread owns the lock", 02/08 `experiment.py:465`) | both mutexes are deleted by key, whoever's they are (01/06 `experiment.py:293`, 02/08 `experiment.py:474`): a holder that overran its expiry deletes the lock of the next one. `StampedeIsHeld` claims the ownership for the lock of C11 alone and nothing of these two once a holder has overrun | – |
| 01/11 | the key "makes this operation safe to retry any number of times" (`experiment.py:286-296`) | two requests with one key that overlap both find the cache empty and both pay (`rest_api.py:125-144`), so does a retry after a death before the store or after the expiry; `ApiIsHonest` excepts these keys (`excused`) | – |
| 01/11 | – | the counter is an unlocked `+=` (`graphql_api.py:77`) that is copied and then reset (154): queries that meet lose calls or have them counted twice; `ApiIsHonest` adds up while none does (`crowded`) | – |
| 01/11 | payments have ids | the id is the millisecond of the request (`rest_api.py:133`), so two requests may share it | `ApiDesign!PaymentIdsDiffer` |
| 01/14 | a duplicate UUID is answered with the stored response, without running again (519) | two concurrent attempts both run `fn`; the later one to store answers with its own | `FailureModes!OneResponse` |
| 02/06 | a poison payment goes to the dead-letter topic | the send encodes a value that the producer encodes again, and raises; the processor dies before it commits | `KafkaTopics!PoisonIsParked` |
| 02/08 | with a lock there is one query per miss (README 296-297) | a thread that looked before the value was stored and takes the lock after its release queries again: nothing looks a second time under the lock | `Caching!OneFetchPerMiss` |
| 02/10 | the log is exact in every window (README 55) | the time is taken before the script runs, and scripts run in another order | `RateLimiting!LogEnforcesAnyWindow` |
| 02/10 | the sliding window counter "would cap this at ≤10 in any 1s span" (`experiment.py:292`) | it weighs the last window as if its requests were spread evenly, so a span across the boundary may hold more; `LimitsHold` bounds it per window of the clock only | – |
| 02/14 | a fencing token is the revision of the put that won (130) | it is read later, and may be the successor's | `ServiceRegistry!TokensDiffer` |
| 02/17 | a deleted key reads as deleted (README 76-78) | a compaction drops the tombstone while an older value is still in a deeper table | `StorageEngine!DeletedStaysDeleted` |
| 02/18 | rejecting loses nothing, for producers retry | an item that is still rejected at the last attempt is given up, and the producer goes on to the next | `Backpressure!RejectLosesNothing` |
| 02/19 | what was delivered is visible in the secondary | a failed delivery is dropped, and an older write that arrives late overwrites a newer one | `MultiRegion!DeliveredMeansVisible` |
| 02/19 | – | a lag that shrinks lets a later write arrive first, and a failed delivery is dropped (101-117); no failover is needed for either. `RegionsConverge` holds while neither has happened (`overtaken`) | – |
| C01, C03 | – | hits and views are taken from Redis before the database has them (C01 `app.py:235`, C03 `experiment.py:599`), and a flush that fails loses them; `CountersAreExact` books them as `lostHits` and `lostViews` | – |
| C02 | the timeline is chronological (249) | tweets of one transaction share a score, and ids sort as text | `Timeline!TimelinesAreChronological` |
| C03 | the master playlist's entries can be fetched (README 357) | only the 360p playlist is written (380) | `VideoPipeline!MasterResolves` |
| C03 | – | phase 7 inserts five `ready` rows with no object and no qualities (570-577); `VideosArePlayable` speaks of the rows of the upload script | – |
| C04 | – | eviction removes a driver who reported between the scan and the removal; a match does not claim its driver, so two riders are given the same one | – |
| C06 | a chunk counts its references | the save of phase 5 inserts the chunks that are new and does not count a reference to those that exist | `GoogleDrive!CountsReferences` |
| C07 | "PolitenessTracker will wait at least {crawl_delay}s between requests to this domain" (`experiment.py:587`; README 204) | `RobotsCache` reads the Crawl-delay (268-281), phase 1 starts its tracker with 0.05 s (440) and `run_crawler` never asks for it, although the mock host sends `Crawl-delay: 1` (`mock_server.py:75`); `Polite` is about the tracker's own delay | – |
| C09 | the record "prevents double-delivery even when concurrent workers race past the pre-check" (`experiment.py:826-827`; "exactly-once delivery", README 123-125) | the record is inserted after the send: two workers that race send twice, and so does one that dies before its INSERT. Only the row and the statistics are single. `ResendsAreRaces` bounds the sends by the workers that raced or died | – |
| C10 | – | counts that Redis loses in an outage start again from nothing; `LimitsHold` excepts the windows whose count was lost (`spoilt`) | – |
| C11 | hot keys survive the cold fill (253) | sampling may evict a hot key while a cold one stays | `ClusterCache!HotOutliveCold` |
| C11 | the pipeline fills the node | a node of the cluster answers MOVED for slots it does not own, and the script stops | `ClusterCache!PipelineNeverRaises` |

## 8. What is not modelled

In the components that are modelled: formatting and serialisation, logging,
descriptions, timestamps other than the order they impose, read-only endpoints,
back-off delays, and what Postgres, Redis, Flask and the websockets library do
inside — they appear as the effect of the statements sent to them. Of the scripts
that drive the servers, the phases appear as the requests they may send, in every
order.

Restrictions and merged steps of the modelled components:

- `HashRing!AddNode` takes a node that is not on the ring, as every call of the labs
  does. `add_node` does not look: it would insert the positions of a node a second time.
- `GoogleDrive!LookUp` is the SELECT together with the `put_object` or the UPDATE that
  follows it. Rows and objects are never removed, so the object may as well be put at the
  time of the look; the UPDATE adds to whatever the count is by then.
- `Caching!SetEx` merges three demos of 01/06: `get_user`, which stores a row for
  `CACHE_TTL` and nothing for a missing one (100-102), the null marker (347) and the
  jittered expiry (406).
- `DriverDispatch!Eta` is the distance by the driver's road factor, in whole units;
  the code sorts by minutes rounded to a tenth, so candidates that close may change places.

Whole labs, and parts of modelled labs, that are left out, with the reason:

| Labs | Reason |
|---|---|
| scalability, load balancing, proxies, CDN, networking, observability, SQL/NoSQL, indexes (01/01, 01/07 to 01/10, 01/13, 02/11, 02/12) | they measure nginx, Postgres, MongoDB or Prometheus and keep no state of their own |
| replication (01/04) | the replica containers start postgres as root, which it refuses, and repeat `pg_basebackup` into a directory that is not empty: the states the script describes are not reached |
| Raft (02/03) | etcd implements the protocol; the script stops containers and looks |
| authentication, security | the project states correctness properties of the data paths only |
| retrying client, timeouts and cascade of 01/14 | `call_with_retry` keeps nothing but its attempt number; phases 1, 2 and 6 measure latency |
| relevance (02/09, C08) | BM25 is computed by Elasticsearch over reals; the models take scores as given and check what the scripts do with the order |
| error rates of the sketches (02/16) | statistics; checked are the sides on which an estimate may err |
| write-ahead log and B-tree of 02/17 | phases 1, 2 and 5 measure those of Postgres |
| RDB snapshot and hot-key timing of C11 | Redis takes the snapshot; the rest are latencies |
| SimHash of C07, heavy hitters of 02/16, surge prices of C04, celebrity merge of C02 | functions of given values that keep no state |

Some hazards of `PROJECT.json` have no property that would catch them, because the code
meets them and a property can only leave the case out; each says so in its note, and
section 7 in its rows. These are the compensation that is run twice, the counters that a
failed flush loses, the overlapping payments, the resolver's lost calls, the overtaken
writes and the mutex that another thread deletes. One more stands apart: the reversal
of a refund is booked in the column's default currency (`payment_service.py:487`). `RefundEntries` models it, so a
property "a refund reverses its charge in the same currency" would fail; no text
of the repository promises it, so it is neither asserted nor a finding.

## 9. Plan

Done: every lab that keeps state of its own and is not in the table above has a
module, and every module is checked by one of the runs of section 3. Theorems
cover the payment service and API, the transactions lab, the chat server, all
messaging labs, the breaker, all service and coordination
labs, and of the storage labs the tree, the heap, the drive, the bucket, the replicas, the
partition and the caches: every safety property of the runs `transactions`, `messaging` and
`services` but `StreamsAreRight`, of which two parts of four are theorems, and four of the
run `storage`.

Left, in the order of use:

| Proof | Needs |
|---|---|
| `RoutingIsExact` of `MCStorage` | the ring's positions sorted |

Compositions worth building: the outbox relay between `PaymentService` and a
consumer that implements `OncePerKey`; the circuit breaker in front of a
retrying client of an idempotent server.
