----------------------------- MODULE Sketches ------------------------------
(* The probabilistic structures lab (02/16): Bloom filter, HyperLogLog shards,  *)
(* count-min sketch, MinHash signatures and the T-Digest, each fed by its own   *)
(* stream.  The hash functions are any table of values.                         *)
EXTENDS Integers, Sequences, FiniteSets, SequencesExt, Functions

CONSTANTS
  Items,         \* what the streams are made of
  Hash,          \* Hash[seed][item]: the hash of an item, already mod the width
  Width,         \* bits of the filter, columns of the sketch, registers
  Leading,       \* item -> the leading zeros PFADD counts
  Compression,   \* compression of the T-Digest
  Samples,       \* the values the T-Digest is fed
  MaxStream,     \* bound: items of the streams together
  MaxSamples     \* bound: values added to the T-Digest

VARIABLES
  bits,          \* the Bloom filter: the bits that are set
  table,         \* the count-min sketch: row -> column -> count
  registers,     \* shard -> register -> the largest rank PFADD has seen
  minHashes,     \* shard -> row -> min_hashes, Width for infinity
  streams,       \* structure -> item -> how often it was added
  centroids,     \* the T-Digest: centroids [sum, weight], mean = sum / weight
  phase,         \* the phase that runs: the structure that is fed
  sampled        \* the values it was fed, sorted

vars == <<bits, table, registers, minHashes, streams, centroids, sampled, phase>>

Rows == DOMAIN Hash
Columns == 0..(Width - 1)
Shards == {"shard0", "shard1"}
Structures == {"bloom", "cms"} \cup Shards

\* The structures before the first item: no bit set, no count, hashes above every value.
NewBloomFilter == {}
NewCountMinSketch == [r \in Rows |-> [c \in Columns |-> 0]]
NewHyperLogLog == [c \in Columns |-> 0]
NewMinHash == [r \in Rows |-> Width]
NewTDigest == <<>>

Init ==
  /\ bits = NewBloomFilter
  /\ table = NewCountMinSketch
  /\ registers = [s \in Shards |-> NewHyperLogLog]
  /\ minHashes = [s \in Shards |-> NewMinHash]
  /\ streams = [s \in Structures |-> [x \in Items |-> 0]]
  /\ centroids = NewTDigest /\ sampled = <<>>
  /\ phase \in {"bloom", "cms", "shards", "digest"}

Larger(a, b) == IF a > b THEN a ELSE b
Smaller(a, b) == IF a < b THEN a ELSE b
SumOf(f) == FoldFunction(LAMBDA a, sum : a + sum, 0, f)

Feed(s, x) ==
  /\ phase = IF s \in Shards THEN "shards" ELSE s
  /\ SumOf([t \in Structures |-> SumOf(streams[t])]) < MaxStream
  /\ streams' = [streams EXCEPT ![s][x] = @ + 1]
  /\ UNCHANGED <<centroids, sampled, phase>>

\* BloomFilter.add and __contains__.
BloomAdd(x) ==
  /\ Feed("bloom", x)
  /\ bits' = bits \cup {Hash[r][x] : r \in Rows}
  /\ UNCHANGED <<table, registers, minHashes>>

BloomContains(x) == \A r \in Rows : Hash[r][x] \in bits

\* Mutation: conservative update, on the first row only.
CmsAddFirstRow(x) ==
  /\ Feed("cms", x)
  /\ table' = [table EXCEPT ![1][Hash[1][x]] = @ + 1]
  /\ UNCHANGED <<bits, registers, minHashes>>

\* CountMinSketch.add and query.
CmsAdd(x) ==
  /\ Feed("cms", x)
  /\ table' = [r \in Rows |-> [table[r] EXCEPT ![Hash[r][x]] = @ + 1]]
  /\ UNCHANGED <<bits, registers, minHashes>>

CmsQuery(x) ==
  LET cells == {table[r][Hash[r][x]] : r \in Rows}
  IN CHOOSE c \in cells : \A d \in cells : c <= d

\* PFADD: the register of the hash keeps the largest rank.  MinHash.update: each
\* row keeps the smallest hash.
ShardAdd(s, x) ==
  /\ Feed(s, x)
  /\ registers' = [registers EXCEPT ![s][Hash[1][x]] = Larger(@, Leading[x] + 1)]
  /\ minHashes' = [minHashes EXCEPT ![s] = [r \in Rows |-> Smaller(@[r], Hash[r][x])]]
  /\ UNCHANGED <<bits, table>>

\* PFMERGE.
PfMerge == [c \in Columns |-> Larger(registers["shard0"][c], registers["shard1"][c])]

\* MinHash.jaccard, as the number of rows that agree.
Matches == Cardinality({r \in Rows : minHashes["shard0"][r] = minHashes["shard1"][r]})

-------------------------------------------------------------------------------
(* TDigest.  n is _n; means are compared as fractions.                          *)
SortByMean(cs) == SortSeq(cs, LAMBDA c, d : c.sum * d.weight < d.sum * c.weight)
Merged(c, d) == [sum |-> c.sum + d.sum, weight |-> c.weight + d.weight]

\* current_weight + weight <= max(1, compression * q * (1 - q)), where q is
\* (q_cumulative + current_weight / 2) / n and q_cumulative is a fraction already.
Fits(done, current, c, n) ==
  LET a == 2 * done + current.weight * n
      b == 2 * n * n
      w == current.weight + c.weight
  IN w <= 1 \/ w * b * b <= Compression * a * (b - a)

\* Mutation: the last centroid is not appended after the loop.
CompressDropsLast(cs, n) ==
  IF cs = <<>> THEN cs ELSE Front(SortByMean(cs)) \o <<>>

\* _compress: a pass over the sorted centroids.
Compress(cs, n) ==
  IF cs = <<>> THEN cs
  ELSE LET sorted == SortByMean(cs)
           Step(acc, c) ==
             IF Fits(acc.done, acc.current, c, n)
             THEN [acc EXCEPT !.current = Merged(@, c)]
             ELSE [out |-> Append(acc.out, acc.current), current |-> c,
                   done |-> acc.done + acc.current.weight]
           end == FoldLeft(Step, [out |-> <<>>, current |-> sorted[1], done |-> 0], Tail(sorted))
       IN Append(end.out, end.current)

\* add: compress when there are more than ten times compression centroids.
DigestAdd(v) ==
  LET added == Append(centroids, [sum |-> v, weight |-> 1])
  IN /\ phase = "digest" /\ Len(sampled) < MaxSamples
     /\ sampled' = SortSeq(Append(sampled, v), LAMBDA a, b : a < b)
     /\ centroids' = IF Len(added) > Compression * 10 THEN Compress(added, Len(sampled')) ELSE added
     /\ UNCHANGED <<bits, table, registers, minHashes, streams, phase>>

\* percentile compresses what there is before it looks for the quantile.
DigestPercentile ==
  /\ centroids # <<>>
  /\ centroids' = Compress(centroids, Len(sampled))
  /\ UNCHANGED <<bits, table, registers, minHashes, streams, sampled, phase>>

WeightUpTo(i) == SumOf([j \in 1..i |-> centroids[j].weight])

\* The centroid a quantile num / den falls into; the answer lies between its
\* mean and the mean before it.
PercentileAt(num, den) ==
  LET reached == {i \in DOMAIN centroids : WeightUpTo(i) * den >= num * Len(sampled)}
  IN CHOOSE i \in reached : \A j \in reached : i <= j

\* The stream of the phase is over.
StreamOver ==
  /\ \/ SumOf([t \in Structures |-> SumOf(streams[t])]) = MaxStream
     \/ Len(sampled) = MaxSamples
  /\ UNCHANGED vars

\* Each shard counts the visitors it sees; one visitor may be seen by several.
ShardsCount == \E s \in Shards, x \in Items : ShardAdd(s, x)

Next ==
  \/ \E x \in Items : BloomAdd(x) \/ CmsAdd(x)
  \/ ShardsCount
  \/ \E v \in Samples : DigestAdd(v)
  \/ DigestPercentile
  \/ StreamOver

Spec == Init /\ [][Next]_vars

-------------------------------------------------------------------------------
TypeOK ==
  /\ bits \subseteq Columns
  /\ \A s \in Shards, r \in Rows : minHashes[s][r] \in 0..Width
  /\ \A i \in DOMAIN centroids : centroids[i].weight >= 1

Added(s) == {x \in Items : streams[s][x] > 0}

\* No false negative; the estimated frequency is between the true one and the
\* length of the stream.
NeverUnderCounts ==
  \A x \in Items :
    /\ x \in Added("bloom") => BloomContains(x)
    /\ CmsQuery(x) >= streams["cms"][x] /\ CmsQuery(x) <= SumOf(streams["cms"])

\* The merged registers, hence their count, are those of one HyperLogLog fed
\* with both shards, repetitions or not; equal sets have equal signatures, and
\* sets that agree on a row have an item of the same hash.
ShardsMerge ==
  LET union == Added("shard0") \cup Added("shard1")
      RegisterOf(c) == {Leading[x] + 1 : x \in {y \in union : Hash[1][y] = c}}
  IN /\ \A c \in Columns :
          PfMerge[c] = IF RegisterOf(c) = {} THEN 0
                       ELSE CHOOSE m \in RegisterOf(c) : \A l \in RegisterOf(c) : l <= m
     /\ Added("shard0") = Added("shard1") => Matches = Cardinality(Rows)

\* Compression loses no sample: the weights add up to the samples, the sums to
\* their sum, so the mean of the digest is exact; a higher quantile never falls
\* into an earlier centroid.
DigestKeepsWeight ==
  /\ WeightUpTo(Len(centroids)) = Len(sampled)
  /\ SumOf([i \in DOMAIN centroids |-> centroids[i].sum]) = SumOf(sampled)
  /\ centroids # <<>> => PercentileAt(1, 2) <= PercentileAt(99, 100)

SketchesAreSound == NeverUnderCounts /\ ShardsMerge /\ DigestKeepsWeight

=============================================================================
