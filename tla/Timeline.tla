----------------------------- MODULE Timeline ------------------------------
(* The timeline lab (C02): tweets are inserted in one transaction and produced   *)
(* to Kafka by tweeter, a worker fans them out into the followers' sorted sets,  *)
(* and an expired timeline is rebuilt from Postgres.  The lab may be run again,  *)
(* and its process may die.                                                      *)
EXTENDS Integers, Sequences, FiniteSets, Functions

CONSTANTS
  Tweeters, Readers,
  ColdReader,    \* the reader of phase 7
  Follows,       \* set of <<reader, tweeter>>
  TimelineMax,   \* TIMELINE_MAX
  FirstId,       \* next value of the tweets' BIGSERIAL
  Batch,         \* tweets the worker takes in a run (15)
  MaxTweets,     \* bound: tweets inserted
  MaxRuns        \* bound: runs of the lab

TimelineAssumptions ==
  ColdReader \in Readers /\ {TimelineMax, FirstId, Batch} \subseteq Nat /\ MaxRuns \in Nat \ {0}

VARIABLES
  run,        \* the lab's run, and the time of its transaction
  phase,      \* "post", "fanout", "read", "rebuild", "done"
  posted,     \* tweets inserted in the open transaction
  tweets,     \* committed rows, as [id, user, at]
  topic,      \* tweeter -> its partition of the topic
  consumed,   \* tweeter -> position of the worker
  committed,  \* tweeter -> offset of the group
  taken,      \* tweets the worker took in this run
  timeline,   \* reader -> set of [id, at]
  cold        \* readers whose timeline expired and was not rebuilt

vars == <<run, phase, posted, tweets, topic, consumed, committed, taken, timeline, cold>>
postVars   == <<posted, tweets, topic>>
workerVars == <<consumed, committed, taken>>

\* Messages of the topic, whether their rows were committed or not.
Sent == UNION {Range(topic[u]) : u \in Tweeters}
NextId == FirstId + Cardinality(Sent)
Followers(u) == {r \in Readers : <<r, u>> \in Follows}
Followees(r) == {u \in Tweeters : <<r, u>> \in Follows}

Init ==
  /\ run = 1
  /\ phase = "post"
  /\ posted = {} /\ tweets = {}
  /\ topic = [u \in Tweeters |-> <<>>]
  /\ consumed = [u \in Tweeters |-> 0]
  /\ committed = [u \in Tweeters |-> 0]
  /\ taken = 0
  /\ timeline = [r \in Readers |-> {}]
  /\ cold = {}

\* phase2_post_tweets: NOW() is the transaction's time; the message leaves before the commit.
PostTweet(u) ==
  LET tweet == [id |-> NextId, user |-> u, at |-> run]
  IN  /\ phase = "post" /\ Cardinality(Sent) < MaxTweets
      /\ posted' = posted \cup {tweet}
      /\ topic' = [topic EXCEPT ![u] = Append(@, tweet)]
      /\ UNCHANGED <<run, phase, tweets, workerVars, timeline, cold>>

CommitTweets ==
  /\ phase = "post"
  /\ tweets' = tweets \cup posted /\ posted' = {}
  /\ phase' = "fanout" /\ taken' = 0
  /\ UNCHANGED <<run, topic, consumed, committed, timeline, cold>>

\* Order of a sorted set: the score, then the member, a decimal string.
MemberKey(id) == IF id < 10 THEN 20 * id ELSE 2 * id + 1
Above(a, b) == a.at > b.at \/ (a.at = b.at /\ MemberKey(a.id) > MemberKey(b.id))

\* Mutation: the trim keeps one entry less.
TrimOneMore(entries) == {e \in entries : Cardinality({f \in entries : Above(f, e)}) < TimelineMax - 1}
\* zremrangebyrank 0 -(TIMELINE_MAX + 1).
Trim(entries) == {e \in entries : Cardinality({f \in entries : Above(f, e)}) < TimelineMax}

Entry(tweet) == [id |-> tweet.id, at |-> tweet.at]

\* phase3_fanout: one message, its followers' sorted sets in one pipeline.
FanOut(u) ==
  /\ phase = "fanout" /\ taken < Batch
  /\ consumed[u] < Len(topic[u])
  /\ LET tweet == topic[u][consumed[u] + 1]
     IN timeline' = [r \in Readers |-> IF r \in Followers(u) THEN Trim(timeline[r] \cup {Entry(tweet)})
                                       ELSE timeline[r]]
  /\ consumed' = [consumed EXCEPT ![u] = @ + 1]
  /\ taken' = taken + 1
  /\ UNCHANGED <<run, phase, postVars, committed, cold>>

\* The consumer commits on a timer of its own and when it is closed.
AutoCommit ==
  /\ phase = "fanout" /\ committed # consumed
  /\ committed' = consumed
  /\ UNCHANGED <<run, phase, postVars, consumed, taken, timeline, cold>>

\* The batch is full, or nothing came for consumer_timeout_ms.
CloseConsumer ==
  /\ phase = "fanout"
  /\ committed' = consumed
  /\ phase' = "read"
  /\ UNCHANGED <<run, postVars, consumed, taken, timeline, cold>>

\* phase7_cold_start: the key expires ...
Expire ==
  /\ phase = "read" /\ phase' = "rebuild"
  /\ timeline' = [timeline EXCEPT ![ColdReader] = {}]
  /\ cold' = cold \cup {ColdReader}
  /\ UNCHANGED <<run, postVars, workerVars>>

\* The rows of the followees, newest first with ties in any order, at most n.
Newest(r, n) ==
  LET rows == {t \in tweets : t.user \in Followees(r)}
  IN  {s \in SUBSET rows : /\ Cardinality(s) = IF Cardinality(rows) < n THEN Cardinality(rows) ELSE n
                           /\ \A t \in s, o \in rows \ s : t.at >= o.at}

\* ... and is rebuilt from the followees' rows.
Backfill ==
  /\ phase = "rebuild" /\ phase' = "done"
  /\ \E rows \in Newest(ColdReader, TimelineMax) :
       timeline' = [timeline EXCEPT ![ColdReader] = @ \cup {Entry(t) : t \in rows}]
  /\ cold' = cold \ {ColdReader}
  /\ UNCHANGED <<run, postVars, workerVars>>

\* The lab is run again, after its end or after its process died: an open transaction is
\* rolled back, its messages and the ids it drew are not.
RunAgain ==
  /\ run < MaxRuns
  /\ run' = run + 1
  /\ phase' = "post" /\ posted' = {}
  /\ consumed' = committed
  /\ taken' = 0
  /\ UNCHANGED <<tweets, topic, committed, timeline, cold>>

LabOver == run = MaxRuns /\ UNCHANGED vars

Next ==
  \/ \E u \in Tweeters : PostTweet(u) \/ FanOut(u)
  \/ CommitTweets \/ AutoCommit \/ CloseConsumer \/ RunAgain \/ LabOver
  \/ Expire \/ Backfill

Spec == Init /\ [][Next]_vars

TypeOK ==
  /\ run \in 1..MaxRuns /\ taken \in 0..Batch
  /\ \A u \in Tweeters : committed[u] <= consumed[u] /\ consumed[u] <= Len(topic[u])
  /\ \A r \in Readers : Cardinality(timeline[r]) <= TimelineMax

\* Entries of the rows that were fanned out to a reader.
Delivered(r) ==
  UNION {{Entry(topic[u][i]) : i \in {j \in 1..committed[u] : topic[u][j] \in tweets}} : u \in Followees(r)}
\* What a warm timeline lacks of the fanned out tweets is no newer than all it has, and it lacks
\* something only when it is full: whatever the order of the partitions, the redeliveries
\* after a crash, and rebuilding from rows that are still on their way to it.
TimelinesAreTheNewest ==
  \A r \in Readers \ cold : \A missing \in Delivered(r) \ timeline[r] :
     /\ Cardinality(timeline[r]) = TimelineMax
     /\ \A entry \in timeline[r] : entry.at >= missing.at

\* "Score = tweet timestamp (enables chronological order via ZREVRANGE)": the tweets of one
\* transaction share their score, and "9" sorts above "10".
TimelinesAreChronological ==
  \A r \in Readers : \A a, b \in timeline[r] : Above(a, b) => a.id > b.id
===============================================================================
