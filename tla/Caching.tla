-------------------------------- MODULE Caching --------------------------------
(* The caching labs (01/06, 02/08, C11). Two programs that share nothing: a   *)
(* cached row with its writer, and the ways to keep a stampede from the       *)
(* database.                                                                  *)
EXTENDS Integers, FiniteSets

CONSTANTS
  CacheReaders,   \* threads that call get_user
  HotThreads,     \* threads that read the hot key
  BaseTtl, Jitter,\* BASE_TTL and JITTER, in ticks
  NullTtl,        \* expiry of the null marker
  LocalTtl,       \* LOCAL_TTL
  MaxVersions,    \* bound: updates of the row
  MaxCacheTime,   \* bound: the clock
  Fetchers,     \* the threads
  KeyTtl,       \* expiry of the key, in ticks
  LockTtl,      \* expiry of the lock in Redis, in ticks
  MaxPolls,     \* how often a loser looks again
  MaxTicks      \* bound: the clock

VARIABLES
  row,            \* the row in the database
  entry,          \* the key in the cache: [value, until, deletes], or NoEntry
  deletes,        \* deletes of the key so far
  writer,         \* where the updating thread is
  reader,         \* thread -> [at, value, deletes]
  local,          \* when the local copy of the hot key was taken, -1 when there is none
  hot,            \* thread -> the time its look at the local copy saw, -1 when it has not looked
  fetched,        \* when the value of the local copy was read from Redis
  cacheClock,
  strategy,     \* "none", "mutex06", "mutex08", "lua", "local" or "per"
  cached,       \* when the key expires, 0 when it is not there
  lockRow,      \* the lock: [owner, until], or Free
  at,           \* thread -> where it is
  since,        \* thread -> when it took the lock
  polls,        \* thread -> looks it has spent
  stores,       \* how often the key was stored
  expiries,     \* how often the key has expired
  overrun,      \* whether a thread has held a Redis lock beyond its expiry
  ticks

-------------------------------------------------------------------------------
(* The cache-aside pattern of the caching lab (01/06): get_user, the update that *)
(* deletes the cached row after the write, the null marker of a missing row, the *)
(* jittered expiry, and the local copy of a hot key.  A user's row is its        *)
(* version; 0 is a row that does not exist.                                     *)
cacheAsideVars == <<row, entry, deletes, writer, reader, local, hot, fetched, cacheClock>>
aside == <<row, entry, deletes, writer, reader>>
hotKey == <<local, hot, fetched>>

NoEntry == [value |-> -1, until |-> 0, deletes |-> 0]
Looking == [at |-> "look", value |-> 0, deletes |-> 0]

CacheAsideInit ==
  /\ row \in {0, 1} /\ entry = NoEntry /\ deletes = 0
  /\ writer = "idle"
  /\ reader = [t \in CacheReaders |-> Looking]
  /\ local = -1 /\ hot = [h \in HotThreads |-> -1] /\ fetched = -1
  /\ cacheClock = 0

Cached == entry # NoEntry

\* max(1, int(BASE_TTL + uniform(-JITTER, JITTER))).
Jittered == {IF t < 1 THEN 1 ELSE t : t \in (BaseTtl - Jitter)..(BaseTtl + Jitter)}

\* r.get: the row, or the null marker.
Hit(t) ==
  /\ reader[t].at = "look" /\ Cached
  /\ reader' = [reader EXCEPT ![t] = [at |-> "served", value |-> entry.value, deletes |-> entry.deletes]]
  /\ UNCHANGED <<row, entry, deletes, writer, hotKey, cacheClock>>

\* A miss, and query_db.
QueryDb(t) ==
  /\ reader[t].at = "look" /\ ~Cached
  /\ reader' = [reader EXCEPT ![t] = [at |-> "queried", value |-> row, deletes |-> deletes]]
  /\ UNCHANGED <<row, entry, deletes, writer, hotKey, cacheClock>>

\* r.setex, of the row or of the null marker, with the time of the query gone by. One
\* reader stands for three demos: get_user (100-102), which stores a row for CACHE_TTL and
\* nothing for a missing one, the null marker (347) and the jittered expiry (406).
SetEx(t) ==
  /\ reader[t].at = "queried"
  /\ \E ttl \in IF reader[t].value = 0 THEN {NullTtl} ELSE Jittered :
       entry' = [value |-> reader[t].value, until |-> cacheClock + ttl, deletes |-> reader[t].deletes]
  /\ reader' = [reader EXCEPT ![t].at = "served"]
  /\ UNCHANGED <<row, deletes, writer, hotKey, cacheClock>>

Again(t) ==
  /\ reader[t].at = "served"
  /\ reader' = [reader EXCEPT ![t] = Looking]
  /\ UNCHANGED <<row, entry, deletes, writer, hotKey, cacheClock>>

\* Mutation: the key is deleted before the row is written.
UpdateRowDeleteFirst ==
  /\ row < MaxVersions
  /\ \/ writer = "idle" /\ writer' = "updated" /\ entry' = NoEntry /\ deletes' = deletes + 1 /\ UNCHANGED row
     \/ writer = "updated" /\ writer' = "idle" /\ row' = row + 1 /\ UNCHANGED <<entry, deletes>>
  /\ UNCHANGED <<reader, hotKey, cacheClock>>

\* Phase 3: the UPDATE (of a row, or the INSERT of a missing one), and then the
\* delete of the key.
UpdateRow ==
  /\ writer = "idle" /\ row < MaxVersions
  /\ row' = row + 1
  /\ writer' = "updated"
  /\ UNCHANGED <<entry, deletes, reader, hotKey, cacheClock>>

DeleteKey ==
  /\ writer = "updated"
  /\ entry' = NoEntry
  /\ deletes' = deletes + 1
  /\ writer' = "idle"
  /\ UNCHANGED <<row, reader, hotKey, cacheClock>>

\* read_hot_key looks at the clock and at the local copy.
LookLocal(h) ==
  /\ hot[h] = -1
  /\ ~(local # -1 /\ cacheClock - local < LocalTtl)
  /\ hot' = [hot EXCEPT ![h] = cacheClock]
  /\ UNCHANGED <<aside, local, fetched, cacheClock>>

\* The copy is stamped with the time of the look, not of the get.
FillLocal(h) ==
  /\ hot[h] # -1
  /\ local' = hot[h]
  /\ fetched' = cacheClock
  /\ hot' = [hot EXCEPT ![h] = -1]
  /\ UNCHANGED <<aside, cacheClock>>

CacheAsideTick ==
  /\ cacheClock < MaxCacheTime
  /\ cacheClock' = cacheClock + 1
  /\ entry' = IF Cached /\ entry.until <= cacheClock' THEN NoEntry ELSE entry
  /\ UNCHANGED <<row, deletes, writer, reader, hotKey>>

AsideNext ==
  \/ \E t \in CacheReaders : Hit(t) \/ QueryDb(t) \/ SetEx(t) \/ Again(t)
  \/ UpdateRow \/ DeleteKey
HotNext == \E h \in HotThreads : LookLocal(h) \/ FillLocal(h)

CacheAsideNext == AsideNext \/ HotNext \/ CacheAsideTick

CacheAsideSpec == CacheAsideInit /\ [][CacheAsideNext]_cacheAsideVars

-------------------------------------------------------------------------------
CacheAsideTypeOK ==
  /\ row \in 0..MaxVersions /\ writer \in {"idle", "updated"}
  /\ \A t \in CacheReaders : reader[t].at \in {"look", "queried", "served"}
  /\ local \in -1..cacheClock

\* What the cache holds has not expired and was in the database once; it is out of
\* date only while a delete is still to come or when its reader had queried before
\* the last delete and stored after it; what a thread was served is out of date
\* only for the same reason or because an update came after.
StaleOnlyByRace ==
  /\ Cached =>
       /\ entry.until > cacheClock /\ entry.value <= row
       /\ entry.value < row => writer = "updated" \/ entry.deletes < deletes
       /\ entry.until <= cacheClock + IF entry.value = 0 THEN NullTtl ELSE BaseTtl + Jitter
  /\ \A t \in CacheReaders : reader[t].at # "look" /\ reader[t].value < row =>
       writer = "updated" \/ reader[t].deletes < deletes
  \* A local hit is never older than LOCAL_TTL, whichever thread stored last.
  /\ local # -1 /\ cacheClock - local < LocalTtl => cacheClock - fetched < LocalTtl

-------------------------------------------------------------------------------
(* What the caching labs do when many threads miss one hot key (01/06 phase 4,  *)
(* 02/08 phase 6, C11 phases 4 and 8): nothing, a Redis mutex that is deleted,  *)
(* a Redis lock that only its owner releases, a lock of the process with a      *)
(* second look, and the probabilistic early recomputation.                      *)
stampedeVars == <<strategy, cached, lockRow, at, since, polls, stores, expiries, overrun, ticks>>

Free == [owner |-> "", until |-> 0]
InProcess == strategy \in {"local", "per"}
InRedis == strategy \in {"mutex06", "mutex08", "lua"}
Inside == {"recheck", "query", "store", "unlock"}
Holders == {t \in Fetchers : at[t] \in Inside}

StampedeInit ==
  /\ strategy \in {"none", "mutex06", "mutex08", "lua", "local", "per"}
  /\ cached = IF strategy = "per" THEN KeyTtl ELSE 0
  /\ lockRow = Free
  /\ at = [t \in Fetchers |-> "look"]
  /\ since = [t \in Fetchers |-> 0]
  /\ polls = [t \in Fetchers |-> 0]
  /\ stores = 0 /\ expiries = 0 /\ overrun = FALSE /\ ticks = 0

Go(t, where) == at' = [at EXCEPT ![t] = where]

\* The first look: 01/06 and the lock of C11 do not look before they try the lock;
\* per_get may decide to recompute a key that is still there.
Look(t) ==
  /\ at[t] = "look"
  /\ \/ strategy \notin {"mutex06", "lua"} /\ cached # 0 /\ Go(t, "served")
     \/ strategy \in {"mutex06", "lua"} /\ Go(t, "lock")
     \/ strategy \in {"mutex08", "local", "per"} /\ cached = 0 /\ Go(t, "lock")
     \/ strategy = "per" /\ cached # 0 /\ Go(t, "lock")
     \/ strategy = "none" /\ cached = 0 /\ Go(t, "query")
  /\ UNCHANGED <<strategy, cached, lockRow, since, polls, stores, expiries, overrun, ticks>>

\* SET NX EX, whose losers poll (or ask again, C11); acquire of a lock of the process waits.
TryAcquire(t) ==
  /\ at[t] = "lock"
  /\ InProcess => lockRow = Free
  /\ IF lockRow = Free
     THEN /\ lockRow' = [owner |-> t, until |-> IF InProcess THEN MaxTicks + 1 ELSE ticks + LockTtl]
          /\ since' = [since EXCEPT ![t] = ticks]
          /\ Go(t, IF InProcess THEN "recheck" ELSE "query")
     ELSE /\ Go(t, IF strategy = "lua" THEN "lock" ELSE "poll")
          /\ UNCHANGED <<lockRow, since>>
  /\ UNCHANGED <<strategy, cached, polls, stores, expiries, overrun, ticks>>

\* The second look, with the lock held: per_get with beta = 0 recomputes only a
\* key that is not there.
Recheck(t) ==
  /\ at[t] = "recheck"
  /\ Go(t, IF cached # 0 THEN "unlock" ELSE "query")
  /\ UNCHANGED <<strategy, cached, lockRow, since, polls, stores, expiries, overrun, ticks>>

\* The database answers, or the query fails: a finally releases the lock of 01/06
\* and a with statement that of the process, the locks of 02/08 and C11 stay until
\* they expire.
DbFetch(t) ==
  /\ at[t] = "query"
  /\ \/ Go(t, "store")
     \/ Go(t, IF strategy \in {"mutex06", "local", "per"} THEN "unlock" ELSE "failed")
  /\ UNCHANGED <<strategy, cached, lockRow, since, polls, stores, expiries, overrun, ticks>>

StoreKey(t) ==
  /\ at[t] = "store"
  /\ cached' = ticks + KeyTtl
  /\ stores' = stores + 1
  /\ Go(t, IF strategy = "none" THEN "served" ELSE "unlock")
  /\ UNCHANGED <<strategy, lockRow, since, polls, expiries, overrun, ticks>>

\* Mutation: the lock is deleted whoever owns it.
TryReleaseAny(t) ==
  /\ at[t] = "unlock"
  /\ lockRow' = Free
  /\ Go(t, "served")
  /\ UNCHANGED <<strategy, cached, since, polls, stores, expiries, overrun, ticks>>

\* DEL of the mutex; the Lua script of C11 deletes the lock only for its owner.
TryRelease(t) ==
  /\ at[t] = "unlock"
  /\ lockRow' = IF strategy = "lua" /\ lockRow.owner # t THEN lockRow ELSE Free
  /\ Go(t, "served")
  /\ UNCHANGED <<strategy, cached, since, polls, stores, expiries, overrun, ticks>>

\* A loser looks until the key is there; in the end 01/06 asks the database
\* without storing the answer, and 02/08 gives up with nothing.
Poll(t) ==
  /\ at[t] = "poll"
  /\ IF cached # 0
     THEN Go(t, "served") /\ UNCHANGED polls
     ELSE IF polls[t] < MaxPolls
     THEN polls' = [polls EXCEPT ![t] = @ + 1] /\ UNCHANGED at
     ELSE Go(t, IF strategy = "mutex06" THEN "served" ELSE "emptyhanded") /\ UNCHANGED polls
  /\ UNCHANGED <<strategy, cached, lockRow, since, stores, expiries, overrun, ticks>>

StampedeTick ==
  /\ ticks < MaxTicks
  /\ ticks' = ticks + 1
  /\ cached' = IF cached <= ticks' THEN 0 ELSE cached
  /\ expiries' = IF cached # 0 /\ cached <= ticks' THEN expiries + 1 ELSE expiries
  /\ lockRow' = IF lockRow.until <= ticks' THEN Free ELSE lockRow
  /\ overrun' = (overrun \/ (InRedis /\ \E t \in Holders : ticks' >= since[t] + LockTtl))
  /\ UNCHANGED <<strategy, at, since, polls, stores>>

AllSettled ==
  /\ ticks = MaxTicks
  /\ \A t \in Fetchers : at[t] \in {"served", "failed", "emptyhanded"}
  /\ UNCHANGED stampedeVars

StampedeNext ==
  \/ \E t \in Fetchers :
       \/ Look(t) \/ TryAcquire(t) \/ Recheck(t) \/ DbFetch(t)
       \/ StoreKey(t) \/ TryRelease(t) \/ Poll(t)
  \/ StampedeTick
  \/ AllSettled

StampedeSpec == StampedeInit /\ [][StampedeNext]_stampedeVars

-------------------------------------------------------------------------------
StampedeTypeOK ==
  /\ lockRow = Free \/ lockRow.owner \in Fetchers
  /\ cached = 0 \/ cached > ticks
  /\ \A t \in Fetchers : at[t] \in Inside \cup {"look", "lock", "poll", "served", "failed", "emptyhanded"}

WithinTtl(t) == ticks < since[t] + LockTtl

\* With the owner-checked lock of C11, two threads inside are never both within the
\* expiry of their locks.  The mutexes of 01/06 (293) and 02/08 (474) are deleted
\* whoever's they are: once a holder has overrun its expiry, its delete takes away the
\* lock of the next one, and nothing is said of them from then on; before, one thread is
\* inside.  The second look of the process locks makes one store per expiry; only 02/08
\* sends a thread away with nothing.
StampedeIsHeld ==
  /\ strategy = "lua" => \A t, u \in Holders : WithinTtl(t) /\ WithinTtl(u) => t = u
  /\ InRedis /\ ~overrun => Cardinality(Holders) <= 1
  /\ InProcess => Cardinality(Holders) <= 1 /\ stores <= expiries + (IF strategy = "local" THEN 1 ELSE 0)
  /\ (\E t \in Fetchers : at[t] = "emptyhanded") => strategy = "mutex08"

\* One thread asks the database; the others read what it stored.
OneFetchPerMiss == strategy = "mutex08" /\ ~overrun => stores <= expiries + 1
===============================================================================
