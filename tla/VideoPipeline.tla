--------------------------- MODULE VideoPipeline ---------------------------
(* The video lab (case study 03): the upload, transcoding and manifest steps of  *)
(* one script over MinIO and Postgres, byte ranges of a transcoded file, rows    *)
(* that are inserted 'ready' without a file, and the view counters that two      *)
(* kinds of flush move from Redis to Postgres.                                   *)
EXTENDS Integers, Sequences, FiniteSets, Functions

CONSTANTS
  Videos,
  Qualities,     \* 1..n for "360p", "720p", "1080p", in the order of the list
  Scale,         \* quality -> the share of the source it keeps, of ScaleUnit
  ScaleUnit,
  SourceSizes,   \* len(video_data)
  ChunkSize,     \* 524288
  MaxViews       \* bound: views per video

VARIABLES
  step,        \* video -> the step its script is about to take, "seeded" for a row of phase 7
  size,        \* video -> size of the source
  objects,     \* names in MinIO, as <<video, kind, quality>>
  video,       \* video -> status of its row, "none" without one
  qualityRows, \* video -> quality -> size_bytes, in one committed transaction
  viewCount,   \* video -> view_count of the row
  redisViews,  \* video -> view_count:<id>, 0 without the key
  flushing,    \* [pc, todo, taken]: the flush that is running
  viewed,      \* ghost
  lostViews    \* ghost

vars == <<step, size, objects, video, qualityRows, viewCount, redisViews, flushing, viewed, lostViews>>

library == <<step, size, objects, video, qualityRows>>
views   == <<viewCount, redisViews, flushing, viewed, lostViews>>

NoFlush == [pc |-> "none", todo |-> {}, taken |-> [v \in Videos |-> 0]]

\* int(len(video_data) * scale): what is written for a quality.
TranscodedSize(v, q) == (size[v] * Scale[q]) \div ScaleUnit

Init ==
  /\ step = [v \in Videos |-> "upload"]
  /\ size \in [Videos -> SourceSizes]
  /\ objects = {}
  /\ video = [v \in Videos |-> "none"]
  /\ qualityRows = [v \in Videos |-> <<>>]
  /\ viewCount = [v \in Videos |-> 0]
  /\ redisViews = [v \in Videos |-> 0]
  /\ flushing = NoFlush
  /\ viewed = [v \in Videos |-> 0]
  /\ lostViews = [v \in Videos |-> 0]

-------------------------------------------------------------------------------
\* Phase 1: the raw object, unless it is there already, and then the row.
PutRaw(v) ==
  /\ step[v] = "upload"
  /\ objects' = objects \cup {<<v, "raw", 0>>}
  /\ step' = [step EXCEPT ![v] = "insert"]
  /\ UNCHANGED <<size, video, qualityRows, views>>

InsertVideo(v) ==
  /\ step[v] = "insert"
  /\ video' = [video EXCEPT ![v] = "processing"]
  /\ step' = [step EXCEPT ![v] = "transcode"]
  /\ UNCHANGED <<size, objects, qualityRows, views>>

\* Mutation: the transaction is committed before the last object is written.
PutQualityOneShort(v, q) ==
  /\ step[v] = "transcode"
  /\ \A p \in Qualities : p < q => <<v, "quality", p>> \in objects
  /\ <<v, "quality", q>> \notin objects
  /\ objects' = objects \cup {<<v, "quality", q>>}
  /\ step' = [step EXCEPT ![v] = IF Cardinality({p \in Qualities : <<v, "quality", p>> \in objects'})
                                      >= Cardinality(Qualities) - 1 THEN "commit" ELSE @]
  /\ UNCHANGED <<size, video, qualityRows, views>>

\* Phase 3: one object per quality, in the order of the list.
PutQuality(v, q) ==
  /\ step[v] = "transcode"
  /\ \A p \in Qualities : p < q => <<v, "quality", p>> \in objects
  /\ <<v, "quality", q>> \notin objects
  /\ objects' = objects \cup {<<v, "quality", q>>}
  /\ step' = [step EXCEPT ![v] = IF \A p \in Qualities : <<v, "quality", p>> \in objects'
                                 THEN "commit" ELSE @]
  /\ UNCHANGED <<size, video, qualityRows, views>>

\* The rows of all qualities and status = 'ready', in one transaction.
CommitReady(v) ==
  /\ step[v] = "commit"
  /\ qualityRows' = [qualityRows EXCEPT ![v] = [q \in Qualities |-> TranscodedSize(v, q)]]
  /\ video' = [video EXCEPT ![v] = "ready"]
  /\ step' = [step EXCEPT ![v] = "manifest"]
  /\ UNCHANGED <<size, objects, views>>

\* Phase 4: the master manifest of all qualities, then the segments of one.
PutMaster(v) ==
  /\ step[v] = "manifest"
  /\ objects' = objects \cup {<<v, "master", 0>>}
  /\ step' = [step EXCEPT ![v] = "segments"]
  /\ UNCHANGED <<size, video, qualityRows, views>>

PutSegments(v) ==
  /\ step[v] = "segments"
  /\ objects' = objects \cup {<<v, "index", 1>>}
  /\ step' = [step EXCEPT ![v] = "done"]
  /\ UNCHANGED <<size, video, qualityRows, views>>

\* Phase 7 commits rows that are 'ready' from the start; no step ever gives them
\* an object or a quality.
SeedReady(S) ==
  /\ S # {} /\ \A v \in S : step[v] = "upload"
  /\ step' = [v \in Videos |-> IF v \in S THEN "seeded" ELSE step[v]]
  /\ video' = [v \in Videos |-> IF v \in S THEN "ready" ELSE video[v]]
  /\ UNCHANGED <<size, objects, qualityRows, views>>

\* The script dies; nothing resumes it.
ScriptDies(v) ==
  /\ step[v] \notin {"done", "dead", "seeded"}
  /\ step' = [step EXCEPT ![v] = "dead"]
  /\ UNCHANGED <<size, objects, video, qualityRows, views>>

\* The playlists the master names, in its order.
MasterEntries(v) == [q \in DOMAIN qualityRows[v] |-> q]

\* Phase 5: the last byte is included.
RangeStart(total) == total \div 2
RangeEnd(total) == RangeStart(total) + (IF ChunkSize < total \div 4 THEN ChunkSize ELSE total \div 4)

-------------------------------------------------------------------------------
\* INCR view_count:<id>.
View(v) ==
  /\ viewed[v] < MaxViews /\ video[v] # "none"
  /\ redisViews' = [redisViews EXCEPT ![v] = @ + 1]
  /\ viewed' = [viewed EXCEPT ![v] = @ + 1]
  /\ UNCHANGED <<viewCount, flushing, lostViews, library>>

\* Phase 6 takes one counter, phase 7 all it scans within one transaction.
BeginFlush(S) ==
  /\ flushing = NoFlush /\ S # {}
  /\ Cardinality(S) = 1 \/ S = {v \in Videos : redisViews[v] > 0}
  /\ flushing' = [NoFlush EXCEPT !.pc = "take", !.todo = S]
  /\ UNCHANGED <<viewCount, redisViews, viewed, lostViews, library>>

TakeViews(v) ==
  /\ flushing.pc = "take" /\ v \in flushing.todo
  /\ flushing' = [flushing EXCEPT !.todo = @ \ {v}, !.taken[v] = redisViews[v]]
  /\ redisViews' = [redisViews EXCEPT ![v] = 0]
  /\ UNCHANGED <<viewCount, viewed, lostViews, library>>

\* Mutation: the row is set to what was taken.
CommitSets ==
  /\ flushing.pc = "take" /\ flushing.todo = {}
  /\ viewCount' = [v \in Videos |-> IF flushing.taken[v] > 0 THEN flushing.taken[v] ELSE viewCount[v]]
  /\ flushing' = NoFlush
  /\ UNCHANGED <<redisViews, viewed, lostViews, library>>

\* view_count = view_count + delta for all of them, at the commit.
CommitViews ==
  /\ flushing.pc = "take" /\ flushing.todo = {}
  /\ viewCount' = [v \in Videos |-> viewCount[v] + flushing.taken[v]]
  /\ flushing' = NoFlush
  /\ UNCHANGED <<redisViews, viewed, lostViews, library>>

\* The flush dies or its transaction is rolled back.
FlushDies ==
  /\ flushing.pc = "take"
  /\ lostViews' = [v \in Videos |-> lostViews[v] + flushing.taken[v]]
  /\ flushing' = NoFlush
  /\ UNCHANGED <<viewCount, redisViews, viewed, library>>

LibraryIdle == (\A v \in Videos : step[v] \in {"done", "dead", "seeded"}) /\ UNCHANGED vars

\* Views are counted in Redis and taken from there for the row.
CountViews == \E v \in Videos : View(v) \/ TakeViews(v)

Next ==
  \/ \E v \in Videos :
       \/ PutRaw(v) \/ InsertVideo(v) \/ (\E q \in Qualities : PutQuality(v, q))
       \/ CommitReady(v) \/ PutMaster(v) \/ PutSegments(v) \/ ScriptDies(v)
  \/ \E S \in SUBSET Videos : SeedReady(S)
  \/ CountViews
  \/ \E S \in SUBSET Videos : BeginFlush(S)
  \/ CommitViews
  \/ FlushDies
  \/ LibraryIdle

Spec == Init /\ [][Next]_vars

-------------------------------------------------------------------------------
TypeOK ==
  /\ \A v \in Videos : video[v] = "none" => qualityRows[v] = <<>>
  /\ flushing.pc = "none" => flushing = NoFlush

\* A row the upload script wrote is never ahead of its objects: wherever the
\* script dies, a processing video has its source and a ready one a whole file
\* for every quality, larger ones last; the master lists them all, and the seek
\* of phase 5 stays inside. The rows phase 7 inserts as 'ready' have no file, and
\* nothing but their views is claimed of them. Every view is in Postgres, in
\* Redis, in the running flush or lost with one that failed: views taken by such a
\* flush are gone for good, which this counts and does not forbid.
VideosArePlayable ==
  /\ \A v \in Videos :
       /\ step[v] # "seeded" /\ video[v] # "none" => <<v, "raw", 0>> \in objects
       /\ step[v] # "seeded" /\ video[v] = "ready" =>
            /\ \A q \in Qualities : <<v, "quality", q>> \in objects
            /\ \A p, q \in Qualities : p < q => qualityRows[v][p] <= qualityRows[v][q]
            /\ \A q \in Qualities : LET total == qualityRows[v][q]
                                    IN total > 0 => RangeStart(total) <= RangeEnd(total)
                                                      /\ RangeEnd(total) < total
       /\ <<v, "master", 0>> \in objects => Range(MasterEntries(v)) = Qualities
       /\ viewed[v] = viewCount[v] + redisViews[v] + flushing.taken[v] + lostViews[v]

\* The README of the lab: every playlist the master names can be fetched.
MasterResolves ==
  \A v \in Videos : step[v] = "done" => \A q \in Range(MasterEntries(v)) : <<v, "index", q>> \in objects
=============================================================================
