------------------------------ MODULE RateLimiting ------------------------------
(* The rate limiters (02/10) and the servers that share one (C10), which      *)
(* share nothing with each other.                                             *)
EXTENDS Integers, Sequences, FiniteSets

CONSTANTS
  Callers,
  Rate, Capacity,   \* of the token bucket, tokens per tick
  WindowSeconds,    \* in ticks
  MaxRequests,      \* the limit of the window limiters
  MaxClock,         \* bound on the clock
  MaxCalls,         \* bound: requests made
  ApiServers,
  ServerOf,      \* request thread -> its server
  ApiKeys,
  KeyLimit,      \* KEY_LIMITS with DEFAULT_LIMIT
  Window,        \* DEFAULT_WINDOW, in ticks
  MaxTime,       \* bound on the clock
  MaxOutages,    \* bound: times Redis goes down
  MaxAnswers     \* bound: requests

VARIABLES
  limiter,   \* the function of the lab that is called
  clock,
  call,      \* caller -> [pc, now, tokens, last]
  bucket,    \* <<>>, or <<[tokens, last]>>: the hash of tb:<key>
  entries,   \* the sorted set of swl:<key>, as [ts, member]
  windowHits,\* window -> the counter under fw: or swc:
  results,   \* the calls in the order they ran, as [now, ok]
  unordered, \* ghost: a script ran with an older time than one before it, or two
             \* calls of token_bucket_racy overlapped

  time,
  redisUp,
  outages,
  counts,    \* <<key, window>> -> the counter, of those that exist
  expiry,    \* <<key, window>> -> when its TTL ends
  available, \* server -> REDIS_AVAILABLE
  script,    \* server -> whether _lua_script is set
  thread,    \* request thread -> [pc, key, now]
  answers,   \* sequence of [key, window, ok, open]: what the requests got, open when let through unchecked
  spoilt     \* ghost: keys with a counter that expired while a request of its window was on the way

-------------------------------------------------------------------------------
(* The rate limiting lab (02/10): the limiters of the lab over one key.  A       *)
(* caller takes the time first and its script runs in Redis later, so scripts    *)
(* may run in another order than their times.                                    *)
limiterVars == <<limiter, clock, call, bucket, entries, windowHits, results, unordered>>

Limiters == {"token_bucket", "token_bucket_racy", "sliding_window_log", "fixed_window",
             "sliding_window_counter"}

Idle == [pc |-> "idle", now |-> 0, tokens |-> 0, last |-> 0]

Smaller(a, b) == IF a < b THEN a ELSE b

LimiterInit ==
  /\ limiter \in Limiters
  /\ clock = 0
  /\ call = [c \in Callers |-> Idle]
  /\ bucket = <<>>
  /\ entries = {}
  /\ windowHits = [w \in 0..(MaxClock \div WindowSeconds) |-> 0]
  /\ results = <<>>
  /\ unordered = FALSE

LimiterTick ==
  /\ clock < MaxClock
  /\ clock' = clock + 1
  /\ UNCHANGED <<limiter, call, bucket, entries, windowHits, results, unordered>>

\* The refill of both token buckets, without the cap of an empty hash.
Refilled(b, now) ==
  IF b = <<>> THEN Capacity ELSE Smaller(Capacity, b[1].tokens + (now - b[1].last) * Rate)

\* now = time.time(); the racy bucket also reads the hash here.
TakeTime(c) ==
  /\ call[c].pc = "idle"
  /\ Len(results) + Cardinality({d \in Callers : call[d].pc = "taken"}) < MaxCalls
  /\ call' = [call EXCEPT ![c] = [pc |-> "taken", now |-> clock, tokens |-> Refilled(bucket, clock),
                                  last |-> Len(results)]]
  /\ UNCHANGED <<limiter, clock, bucket, entries, windowHits, results, unordered>>

Finish(c, ok) ==
  /\ results' = Append(results, [now |-> call[c].now, ok |-> ok])
  /\ call' = [call EXCEPT ![c] = Idle]
  /\ unordered' = (unordered \/ (\E i \in DOMAIN results : results[i].now > call[c].now)
                     \/ (limiter = "token_bucket_racy" /\ call[c].last # Len(results)))

\* Mutation: the refill is not capped.
TokenBucketUncapped(c) ==
  LET now == call[c].now
      tokens == IF bucket = <<>> THEN Capacity ELSE bucket[1].tokens + (now - bucket[1].last) * Rate
  IN /\ limiter = "token_bucket" /\ call[c].pc = "taken"
     /\ bucket' = <<[tokens |-> IF tokens >= 1 THEN tokens - 1 ELSE tokens, last |-> now]>>
     /\ Finish(c, tokens >= 1)
     /\ UNCHANGED <<limiter, clock, entries, windowHits>>

\* TOKEN_BUCKET_LUA; the hash expires only when it would be full.
TokenBucket(c) ==
  LET now == call[c].now
      tokens == Refilled(bucket, now)
  IN /\ limiter = "token_bucket" /\ call[c].pc = "taken"
     /\ bucket' = <<[tokens |-> IF tokens >= 1 THEN tokens - 1 ELSE tokens, last |-> now]>>
     /\ Finish(c, tokens >= 1)
     /\ UNCHANGED <<limiter, clock, entries, windowHits>>

\* token_bucket_racy decides on what it read before.
TokenBucketRacy(c) ==
  LET tokens == call[c].tokens
  IN /\ limiter = "token_bucket_racy" /\ call[c].pc = "taken"
     /\ bucket' = <<[tokens |-> IF tokens >= 1 THEN tokens - 1 ELSE tokens, last |-> call[c].now]>>
     /\ Finish(c, tokens >= 1)
     /\ UNCHANGED <<limiter, clock, entries, windowHits>>

\* Trim, add, count: a refused request stays in the set.  Members are unique, as
\* the time and the thread of a call are.
SlidingWindowLog(c) ==
  LET now == call[c].now
      kept == {e \in entries : e.ts > now - WindowSeconds} \cup {[ts |-> now, member |-> Len(results)]}
  IN /\ limiter = "sliding_window_log" /\ call[c].pc = "taken"
     /\ entries' = kept
     /\ Finish(c, Cardinality(kept) <= MaxRequests)
     /\ UNCHANGED <<limiter, clock, bucket, windowHits>>

\* INCR of the counter of the window the time falls in.
FixedWindow(c) ==
  LET w == call[c].now \div WindowSeconds
  IN /\ limiter = "fixed_window" /\ call[c].pc = "taken"
     /\ windowHits' = [windowHits EXCEPT ![w] = @ + 1]
     /\ Finish(c, windowHits'[w] <= MaxRequests)
     /\ UNCHANGED <<limiter, clock, bucket, entries>>

\* prev_count * weight + current_count <= limit, both sides times the window.
SlidingWindowCounter(c) ==
  LET now == call[c].now
      w == now \div WindowSeconds
      prev == IF w = 0 THEN 0 ELSE windowHits[w - 1]
  IN /\ limiter = "sliding_window_counter" /\ call[c].pc = "taken"
     /\ windowHits' = [windowHits EXCEPT ![w] = @ + 1]
     /\ Finish(c, prev * (WindowSeconds - (now % WindowSeconds)) + windowHits'[w] * WindowSeconds
                    <= MaxRequests * WindowSeconds)
     /\ UNCHANGED <<limiter, clock, bucket, entries>>

CallsDone == Len(results) = MaxCalls /\ UNCHANGED limiterVars

\* One token and several threads: the script takes it once, the commands of the racy bucket
\* may interleave.
TokenRace == \E c \in Callers : TokenBucket(c) \/ TokenBucketRacy(c)

\* A burst on each side of a window's boundary.
BoundaryBurst == \E c \in Callers : FixedWindow(c)

\* Requests faster than the log admits.
LogBurst == \E c \in Callers : SlidingWindowLog(c)

LimiterNext ==
  \/ LimiterTick
  \/ \E c \in Callers : TakeTime(c) \/ SlidingWindowCounter(c)
  \/ TokenRace \/ BoundaryBurst \/ LogBurst
  \/ CallsDone

LimiterSpec == LimiterInit /\ [][LimiterNext]_limiterVars

-------------------------------------------------------------------------------
LimiterTypeOK ==
  /\ limiter \in Limiters
  /\ Len(results) <= MaxCalls
  /\ bucket # <<>> => bucket[1].tokens <= Capacity

AllowedIn(from, to) ==
  Cardinality({i \in DOMAIN results : results[i].ok /\ results[i].now \in from..to})

\* What each limiter promises, by the times of the requests: the atomic bucket in
\* any order of scripts, capacity plus refill over every interval; the racy one
\* and the log only when calls do not overtake each other; the counters their
\* limit in every window, and so at most twice the limit over any span of one.
LimitsHold ==
  LET bucketBound == \A a \in 0..clock : \A b \in a..clock :
                       AllowedIn(a, b) <= Capacity + (b - a) * Rate
      windowBound == \A w \in DOMAIN windowHits :
                       AllowedIn(w * WindowSeconds, (w + 1) * WindowSeconds - 1) <= MaxRequests
  IN CASE limiter = "token_bucket" -> bucketBound
       [] limiter = "token_bucket_racy" -> unordered \/ bucketBound
       [] limiter = "sliding_window_log" ->
            unordered \/ \A t \in 0..clock : AllowedIn(t - WindowSeconds + 1, t) <= MaxRequests
       [] OTHER -> windowBound

\* The README of the lab: the log enforces the limit in any rolling window.
LogEnforcesAnyWindow ==
  limiter = "sliding_window_log" =>
    \A t \in 0..clock : AllowedIn(t - WindowSeconds + 1, t) <= MaxRequests

-------------------------------------------------------------------------------
(* The rate limiter (case study 10): two API servers behind nginx check every    *)
(* request against a fixed window in one Redis, and let it pass when Redis does  *)
(* not answer.  The connection is shared by the threads of a server.             *)
serversVars == <<time, redisUp, outages, counts, expiry, available, script, thread, answers, spoilt>>

ServerThreads == DOMAIN ServerOf

Waiting == [pc |-> "idle", key |-> "", now |-> 0]

ServersInit ==
  /\ time = 0
  /\ redisUp = TRUE
  /\ outages = 0
  /\ counts = <<>>
  /\ expiry = <<>>
  /\ available = [s \in ApiServers |-> TRUE]
  /\ script = [s \in ApiServers |-> TRUE]
  /\ thread = [t \in ServerThreads |-> Waiting]
  /\ answers = <<>>
  /\ spoilt = {}

\* Time passes, and what has reached its TTL is gone.
ServersTick ==
  LET gone == {x \in DOMAIN expiry : expiry[x] <= time + 1}
      kept == DOMAIN expiry \ gone
  IN /\ time < MaxTime
     /\ time' = time + 1
     /\ counts' = [x \in kept |-> counts[x]]
     /\ expiry' = [x \in kept |-> expiry[x]]
     /\ spoilt' = spoilt \cup {x \in gone : \E t \in ServerThreads :
                     thread[t].pc # "idle" /\ <<thread[t].key, thread[t].now \div Window>> = x}
     /\ UNCHANGED <<redisUp, outages, available, script, thread, answers>>

\* Redis stops: saving its data when it is told to, as docker stop does, and
\* losing it when it is killed.
RedisStops(saved) ==
  /\ redisUp /\ outages < MaxOutages
  /\ redisUp' = FALSE
  /\ outages' = outages + 1
  /\ counts' = IF saved THEN counts ELSE <<>>
  /\ expiry' = IF saved THEN expiry ELSE <<>>
  /\ spoilt' = IF saved THEN spoilt ELSE spoilt \cup DOMAIN counts
  /\ UNCHANGED <<time, available, script, thread, answers>>

RedisStarts ==
  /\ ~redisUp
  /\ redisUp' = TRUE
  /\ UNCHANGED <<time, outages, counts, expiry, available, script, thread, answers, spoilt>>

At(t, pc) == thread' = [thread EXCEPT ![t].pc = pc]

\* The answer of a request that was not checked.
FailOpen(t) ==
  /\ answers' = Append(answers, [key |-> thread[t].key, window |-> thread[t].now \div Window,
                                 ok |-> TRUE, open |-> TRUE])
  /\ thread' = [thread EXCEPT ![t] = Waiting]

\* now is taken; a server without a connection tries to get one first.
Receive(t, k) ==
  /\ thread[t].pc = "idle"
  /\ Len(answers) + Cardinality({u \in ServerThreads : thread[u].pc # "idle"}) < MaxAnswers
  /\ thread' = [thread EXCEPT ![t] = [pc |-> IF available[ServerOf[t]] THEN "call" ELSE "connect",
                                      key |-> k, now |-> time]]
  /\ UNCHANGED <<time, redisUp, outages, counts, expiry, available, script, answers, spoilt>>

\* _connect_redis: the script is registered before REDIS_AVAILABLE is set.
Connect(t) ==
  /\ thread[t].pc = "connect"
  /\ script' = [script EXCEPT ![ServerOf[t]] = redisUp]
  /\ available' = [available EXCEPT ![ServerOf[t]] = redisUp]
  /\ IF redisUp THEN At(t, "call") /\ UNCHANGED answers ELSE FailOpen(t)
  /\ UNCHANGED <<time, redisUp, outages, counts, expiry, spoilt>>

\* Mutation: the counter of a window is refused one late.
CallScriptOneMore(t) ==
  LET x == <<thread[t].key, thread[t].now \div Window>>
      count == IF x \in DOMAIN counts THEN counts[x] + 1 ELSE 1
  IN /\ thread[t].pc = "call" /\ redisUp /\ script[ServerOf[t]]
     /\ counts' = [y \in DOMAIN counts \cup {x} |-> IF y = x THEN count ELSE counts[y]]
     /\ expiry' = IF count = 1 THEN [y \in DOMAIN expiry \cup {x} |->
                                       IF y = x THEN time + Window ELSE expiry[y]] ELSE expiry
     /\ answers' = Append(answers, [key |-> x[1], window |-> x[2], open |-> FALSE,
                                    ok |-> count <= KeyLimit[x[1]] + 1])
     /\ thread' = [thread EXCEPT ![t] = Waiting]
     /\ UNCHANGED <<time, redisUp, outages, available, script, spoilt>>

\* RATE_LIMIT_LUA: INCR, and EXPIRE by the first of a window.
CallScript(t) ==
  LET x == <<thread[t].key, thread[t].now \div Window>>
      count == IF x \in DOMAIN counts THEN counts[x] + 1 ELSE 1
  IN /\ thread[t].pc = "call" /\ redisUp /\ script[ServerOf[t]]
     /\ counts' = [y \in DOMAIN counts \cup {x} |-> IF y = x THEN count ELSE counts[y]]
     /\ expiry' = IF count = 1 THEN [y \in DOMAIN expiry \cup {x} |->
                                       IF y = x THEN time + Window ELSE expiry[y]] ELSE expiry
     /\ answers' = Append(answers, [key |-> x[1], window |-> x[2], open |-> FALSE,
                                    ok |-> count <= KeyLimit[x[1]]])
     /\ thread' = [thread EXCEPT ![t] = Waiting]
     /\ UNCHANGED <<time, redisUp, outages, available, script, spoilt>>

\* The call raises, because Redis is down or another thread has just taken the
\* script away: REDIS_AVAILABLE falls first,
CallFails(t) ==
  /\ thread[t].pc = "call" /\ (~redisUp \/ ~script[ServerOf[t]])
  /\ available' = [available EXCEPT ![ServerOf[t]] = FALSE]
  /\ At(t, "drop")
  /\ UNCHANGED <<time, redisUp, outages, counts, expiry, script, answers, spoilt>>

\* and then the client and the script, which a thread in between may have set.
DropScript(t) ==
  /\ thread[t].pc = "drop"
  /\ script' = [script EXCEPT ![ServerOf[t]] = FALSE]
  /\ FailOpen(t)
  /\ UNCHANGED <<time, redisUp, outages, counts, expiry, available, spoilt>>

ServersIdle == Len(answers) = MaxAnswers /\ UNCHANGED serversVars

Outage == RedisStarts \/ \E saved \in BOOLEAN : RedisStops(saved)

\* Requests of several clients, to any server.
Burst == \E t \in ServerThreads, k \in ApiKeys : Receive(t, k)

ServersNext ==
  \/ ServersTick \/ Outage \/ ServersIdle
  \/ Burst
  \/ \E t \in ServerThreads : Connect(t) \/ CallScript(t) \/ CallFails(t) \/ DropScript(t)

ServersSpec == ServersInit /\ [][ServersNext]_serversVars

-------------------------------------------------------------------------------
ServersTypeOK ==
  /\ DOMAIN counts = DOMAIN expiry
  /\ outages <= MaxOutages

Passed(x, how) ==
  Cardinality({i \in DOMAIN answers : answers[i].ok /\ answers[i].open = how
                 /\ <<answers[i].key, answers[i].window>> = x})

\* The limit of a key holds over both servers in every window, for the requests
\* that were checked while no counter of the window was lost; nothing passes
\* unchecked unless Redis has been down, and a counter outlives its window.
GlobalLimitHolds ==
  /\ \A k \in ApiKeys, w \in 0..(MaxTime \div Window) :
       <<k, w>> \notin spoilt => Passed(<<k, w>>, FALSE) <= KeyLimit[k]
  /\ outages = 0 => \A i \in DOMAIN answers : ~answers[i].open
  /\ \A x \in DOMAIN expiry : expiry[x] >= (x[2] + 1) * Window
  /\ \A s \in ApiServers : available[s] /\ ~script[s] => outages > 0
===============================================================================
