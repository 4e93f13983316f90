--------------------------- MODULE UrlShortener ----------------------------
(* The URL shortener (case study 01): /shorten takes an id under a placeholder   *)
(* code and names the row after it, /<code> reads through Redis, and the         *)
(* redirects counted in Redis are flushed to Postgres.  Everybody borrows from   *)
(* one connection pool, which raises when it is empty.                           *)
EXTENDS Integers, Sequences, FiniteSets, Functions

CONSTANTS
  Shorteners, Redirects, Flushers, \* requests being served at the same time
  CodeBase,      \* 62 in the code
  MaxConn,       \* maxconn of the pool
  MaxId,         \* bound: ids taken from the sequence
  MaxServed,     \* bound: no redirect starts on a code counted this often
  TsRange, DcBits, MachineBits, SeqBits \* the fields of a snowflake id

VARIABLES
  nextId,
  urls,      \* committed rows: id -> hits
  writing,   \* shortener -> 0, or the id of its uncommitted row
  holder,    \* the shortener whose uncommitted row has the placeholder code
  urlCache,  \* codes under url:<code>
  counter,   \* code -> value of hits:<code>, 0 when there is none
  redirect,  \* redirect -> [pc, code]
  flush,     \* flusher -> [pc, keys, deltas]
  served,    \* ghost: code -> redirects counted
  lostHits   \* ghost: code -> counted redirects that reach no row any more

vars == <<nextId, urls, writing, holder, urlCache, counter, redirect, flush, served, lostHits>>

NoOne == "nobody"

\* base62_encode: the digits of a positive id, the highest first.
Base62Encode(num) ==
  LET digits[n \in Nat] == IF n = 0 THEN <<>>
                           ELSE Append(digits[n \div CodeBase], n % CodeBase)
  IN IF num = 0 THEN <<0>> ELSE digits[num]

Base62Decode(code) ==
  LET value[k \in 0..Len(code)] == IF k = 0 THEN 0 ELSE value[k - 1] * CodeBase + code[k]
  IN value[Len(code)]

Codes == {Base62Encode(i) : i \in 1..MaxId}

\* Phase 6: (ts << 22) | (datacenter << 17) | (machine << 12) | seq.
SnowflakeId(ts, dc, machine, seq) ==
  ((ts * 2^DcBits + dc) * 2^MachineBits + machine) * 2^SeqBits + seq

\* A connection is held from getconn to putconn.
Borrowed ==
  Cardinality({w \in Shorteners : writing[w] # 0})
    + Cardinality({d \in Redirects : redirect[d].pc = "select"})
    + Cardinality({f \in Flushers : flush[f].pc = "update"})

PoolHasOne == Borrowed < MaxConn

-------------------------------------------------------------------------------
Init ==
  /\ nextId = 1
  /\ urls = <<>>
  /\ writing = [w \in Shorteners |-> 0]
  /\ holder = NoOne
  /\ urlCache = {}
  /\ counter = [c \in Codes |-> 0]
  /\ redirect = [d \in Redirects |-> [pc |-> "idle", code |-> <<>>]]
  /\ flush = [f \in Flushers |-> [pc |-> "idle", keys |-> {}, deltas |-> [c \in Codes |-> 0]]]
  /\ served = [c \in Codes |-> 0]
  /\ lostHits = [c \in Codes |-> 0]

\* INSERT: the sequence gives the id before the row meets the unique index, so a
\* request that waits for the placeholder already has its id.
TakeId(w) ==
  /\ writing[w] = 0 /\ PoolHasOne /\ nextId <= MaxId
  /\ writing' = [writing EXCEPT ![w] = nextId]
  /\ nextId' = nextId + 1
  /\ UNCHANGED <<urls, holder, urlCache, counter, redirect, flush, served, lostHits>>

TakePlaceholder(w) ==
  /\ writing[w] # 0 /\ holder = NoOne
  /\ holder' = w
  /\ UNCHANGED <<nextId, urls, writing, urlCache, counter, redirect, flush, served, lostHits>>

\* UPDATE short_code, and the commit.
NameAndCommit(w) ==
  /\ holder = w
  /\ urls' = [i \in DOMAIN urls \cup {writing[w]} |-> IF i = writing[w] THEN 0 ELSE urls[i]]
  /\ writing' = [writing EXCEPT ![w] = 0]
  /\ holder' = NoOne
  /\ UNCHANGED <<nextId, urlCache, counter, redirect, flush, served, lostHits>>

\* The request dies: its transaction is rolled back, its id is not given again.
Rollback(w) ==
  /\ writing[w] # 0
  /\ writing' = [writing EXCEPT ![w] = 0]
  /\ holder' = IF holder = w THEN NoOne ELSE holder
  /\ UNCHANGED <<nextId, urls, urlCache, counter, redirect, flush, served, lostHits>>

-------------------------------------------------------------------------------
Move(d, pc) == redirect' = [redirect EXCEPT ![d].pc = pc]

\* GET url:<code>.  On a miss getconn answers, or the request ends in an error.
Lookup(d, c) ==
  /\ redirect[d].pc = "idle" /\ served[c] < MaxServed
  /\ \/ c \in urlCache /\ redirect' = [redirect EXCEPT ![d] = [pc |-> "count", code |-> c]]
     \/ /\ c \notin urlCache /\ PoolHasOne
        /\ redirect' = [redirect EXCEPT ![d] = [pc |-> "select", code |-> c]]
  /\ UNCHANGED <<nextId, urls, writing, holder, urlCache, counter, flush, served, lostHits>>

\* SELECT; no row is a 404 and leaves no trace in the cache.
Select(d) ==
  /\ redirect[d].pc = "select"
  /\ IF Base62Decode(redirect[d].code) \in DOMAIN urls THEN Move(d, "store") ELSE Move(d, "idle")
  /\ UNCHANGED <<nextId, urls, writing, holder, urlCache, counter, flush, served, lostHits>>

Store(d) ==
  /\ redirect[d].pc = "store"
  /\ urlCache' = urlCache \cup {redirect[d].code}
  /\ Move(d, "count")
  /\ UNCHANGED <<nextId, urls, writing, holder, counter, flush, served, lostHits>>

\* INCR hits:<code>, then the 302.
CountHit(d) ==
  LET c == redirect[d].code
  IN /\ redirect[d].pc = "count"
     /\ counter' = [counter EXCEPT ![c] = @ + 1]
     /\ served' = [served EXCEPT ![c] = @ + 1]
     /\ Move(d, "idle")
     /\ UNCHANGED <<nextId, urls, writing, holder, urlCache, flush, lostHits>>

\* CACHE_TTL passes.
Expire(c) ==
  /\ c \in urlCache
  /\ urlCache' = urlCache \ {c}
  /\ UNCHANGED <<nextId, urls, writing, holder, counter, redirect, flush, served, lostHits>>

\* Phase 8: FLUSHALL takes the counters with the cache.
FlushAll ==
  /\ urlCache # {}
  /\ urlCache' = {}
  /\ lostHits' = [c \in Codes |-> lostHits[c] + counter[c]]
  /\ counter' = [c \in Codes |-> 0]
  /\ UNCHANGED <<nextId, urls, writing, holder, redirect, flush, served>>

-------------------------------------------------------------------------------
Scan(f) ==
  LET keys == {c \in Codes : counter[c] > 0}
  IN /\ flush[f].pc = "idle" /\ keys # {}
     /\ flush' = [flush EXCEPT ![f] = [@ EXCEPT !.pc = "getdel", !.keys = keys]]
     /\ UNCHANGED <<nextId, urls, writing, holder, urlCache, counter, redirect, served, lostHits>>

\* Mutation: the counter is read and left in place.
GetDelKeeps(f, c) ==
  /\ flush[f].pc = "getdel" /\ c \in flush[f].keys
  /\ flush' = [flush EXCEPT ![f].keys = @ \ {c}, ![f].deltas[c] = counter[c]]
  /\ UNCHANGED <<nextId, urls, writing, holder, urlCache, counter, redirect, served, lostHits>>

\* One GETDEL of the pipeline, which is not a transaction; 0 when somebody else
\* took the counter.
GetDel(f, c) ==
  /\ flush[f].pc = "getdel" /\ c \in flush[f].keys
  /\ flush' = [flush EXCEPT ![f].keys = @ \ {c}, ![f].deltas[c] = counter[c]]
  /\ counter' = [counter EXCEPT ![c] = 0]
  /\ UNCHANGED <<nextId, urls, writing, holder, urlCache, redirect, served, lostHits>>

FlushConnect(f) ==
  /\ flush[f].pc = "getdel" /\ flush[f].keys = {} /\ PoolHasOne
  /\ flush' = [flush EXCEPT ![f].pc = "update"]
  /\ UNCHANGED <<nextId, urls, writing, holder, urlCache, counter, redirect, served, lostHits>>

Flushed(f) == [flush[f] EXCEPT !.pc = "idle", !.keys = {}, !.deltas = [c \in Codes |-> 0]]

FlushCommit(f) ==
  /\ flush[f].pc = "update"
  /\ urls' = [i \in DOMAIN urls |-> urls[i] + flush[f].deltas[Base62Encode(i)]]
  /\ flush' = [flush EXCEPT ![f] = Flushed(f)]
  /\ UNCHANGED <<nextId, writing, holder, urlCache, counter, redirect, served, lostHits>>

\* The worker dies, Postgres ends its transaction, or the pool is empty after the
\* counters are gone: what it took is in nobody's hands.
FlushFails(f) ==
  /\ \/ flush[f].pc = "update"
     \/ flush[f].pc = "getdel" /\ flush[f].keys = {} /\ ~PoolHasOne
  /\ lostHits' = [c \in Codes |-> lostHits[c] + flush[f].deltas[c]]
  /\ flush' = [flush EXCEPT ![f] = Flushed(f)]
  /\ UNCHANGED <<nextId, urls, writing, holder, urlCache, counter, redirect, served>>

\* Every bound is reached and nobody is served.
ShortenerIdle ==
  /\ nextId > MaxId /\ \A c \in Codes : served[c] >= MaxServed
  /\ UNCHANGED vars

Shortening == \E w \in Shorteners : TakeId(w) \/ TakePlaceholder(w) \/ NameAndCommit(w) \/ Rollback(w)

Redirecting ==
  \/ \E d \in Redirects : (\E c \in Codes : Lookup(d, c)) \/ Select(d) \/ Store(d) \/ CountHit(d)
  \/ \E c \in Codes : Expire(c)

\* The hits counted in Redis are moved to the rows.
FlushHits ==
  \/ FlushAll
  \/ \E f \in Flushers : Scan(f) \/ (\E c \in Codes : GetDel(f, c)) \/ FlushConnect(f)
                           \/ FlushCommit(f) \/ FlushFails(f)

Next == ShortenerIdle \/ Shortening \/ Redirecting \/ FlushHits

Spec == Init /\ [][Next]_vars

-------------------------------------------------------------------------------
TypeOK ==
  /\ DOMAIN urls \subseteq 1..(nextId - 1)
  /\ holder = NoOne \/ writing[holder] # 0
  /\ Borrowed \in 0..MaxConn

\* The four fields that stand in a snowflake id.
FieldsOf(id) ==
  LET machines == id \div 2^SeqBits
      centres == machines \div 2^MachineBits
  IN <<centres \div 2^DcBits, centres % 2^DcBits, machines % 2^MachineBits, id % 2^SeqBits>>

\* Codes come back to their id, so no two rows share one, and an id to its fields, so
\* ids made in different milliseconds, machines or sequence numbers differ.
CodesAreUnique ==
  /\ \A i \in 0..MaxId : Base62Decode(Base62Encode(i)) = i
  /\ \A i, j \in 1..MaxId : i # j => Base62Encode(i) # Base62Encode(j)
  /\ \A t \in TsRange, d \in 0..(2^DcBits - 1), m \in 0..(2^MachineBits - 1), s \in 0..(2^SeqBits - 1) :
       FieldsOf(SnowflakeId(t, d, m, s)) = <<t, d, m, s>>

\* Only codes of committed rows are cached, and every redirect that was counted
\* is in the row, in Redis, in the hands of one flush, or was lost: never twice,
\* however flushes, redirects and failures meet.
ShortenerIsSound ==
  /\ \A c \in urlCache : Base62Decode(c) \in DOMAIN urls
  /\ \A i \in 1..MaxId :
       LET c == Base62Encode(i)
           held == SumFunction([f \in Flushers |-> flush[f].deltas[c]])
       IN served[c] = (IF i \in DOMAIN urls THEN urls[i] ELSE 0) + counter[c] + held + lostHits[c]
  /\ CodesAreUnique
=============================================================================
