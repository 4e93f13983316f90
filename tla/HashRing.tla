----------------------------- MODULE HashRing ------------------------------
(* The two partitioning labs: the consistent hash ring with virtual nodes       *)
(* (02/01), whose nodes come and go, and the shard routers of 01/05 (modulo,    *)
(* range and ring) with the rows they spread and the scatter-gather query over  *)
(* the shards.  Hashes are numbers from a table.                                *)
EXTENDS Integers, Sequences, FiniteSets, SequencesExt

CONSTANTS
  Nodes,        \* physical nodes of the ring
  Vnodes,       \* node -> the positions of its virtual nodes (its weight is their number)
  Keys,         \* keys are their own hash
  NumShards,    \* connections of the shard routers, numbered from 0
  UserHash,     \* user id -> sha256 of the id; the ids are 1, 2, ...
  Boundaries    \* the ranges <<low, high, shard>> of the range router

VARIABLES
  ring,         \* position -> node
  sortedKeys,   \* the positions, sorted
  live,         \* the shards whose connection is not None
  router,       \* the router the rows are written with: "hash" or "range"
  shardRows,    \* shard -> the ids of its users table
  signedUp,     \* the ids the insert loop has been through
  gathering,    \* the shards whose query_shard has not come back, or <<>>
  gathered      \* the ids the scatter-gather query has collected

ringVars == <<ring, sortedKeys>>
shardVars == <<live, router, shardRows, signedUp, gathering, gathered>>
vars == <<ringVars, shardVars>>

Shards == 0..(NumShards - 1)
UserIds == DOMAIN UserHash

EmptyRing == ring = <<>> /\ sortedKeys = <<>>

Init ==
  /\ EmptyRing
  /\ live \in SUBSET Shards \ {{}}
  /\ router \in {"hash", "range"}
  /\ shardRows = [s \in Shards |-> {}]
  /\ signedUp = {} /\ gathering = {} /\ gathered = {}

Members == {ring[p] : p \in DOMAIN ring}

\* bisect.insort and bisect_left of the sorted list.
Insort(s, p) == SelectSeq(s, LAMBDA q : q < p) \o <<p>> \o SelectSeq(s, LAMBDA q : q >= p)
Without(s, ps) == SelectSeq(s, LAMBDA q : q \notin ps)

\* add_node, as the labs call it: with a node that is not on the ring.  The code does not
\* look, and would put the positions of a node that is on it into the list once more.
AddNode(n) ==
  /\ n \notin Members
  /\ ring' = [p \in DOMAIN ring \cup Vnodes[n] |-> IF p \in Vnodes[n] THEN n ELSE ring[p]]
  /\ sortedKeys' = FoldLeft(Insort, sortedKeys, SetToSeq(Vnodes[n]))
  /\ UNCHANGED shardVars

\* Mutation: a virtual node of the removed node stays among the positions.
RemoveNodeButOne(n) ==
  /\ n \in Members /\ Cardinality(Members) > 1
  /\ LET one == CHOOSE p \in Vnodes[n] : TRUE
         other == CHOOSE m \in Members : m # n
     IN /\ ring' = [p \in (DOMAIN ring \ Vnodes[n]) \cup {one} |-> IF p = one THEN other ELSE ring[p]]
        /\ sortedKeys' = Without(sortedKeys, Vnodes[n] \ {one})
  /\ UNCHANGED shardVars

RemoveNode(n) ==
  /\ n \in Members
  /\ ring' = [p \in DOMAIN ring \ Vnodes[n] |-> ring[p]]
  /\ sortedKeys' = Without(sortedKeys, Vnodes[n])
  /\ UNCHANGED shardVars

\* bisect.bisect: how many positions are not above the hash.
Bisect(s, h) == Len(SelectSeq(s, LAMBDA q : q <= h))
BisectLeft(s, h) == Len(SelectSeq(s, LAMBDA q : q < h))
Walk(start, offset) == ring[sortedKeys[((start + offset) % Len(sortedKeys)) + 1]]

\* get_node: clockwise from the hash, around the end of the list.
GetNode(k) == Walk(Bisect(sortedKeys, k), 0)

\* Mutation: virtual nodes are not skipped.
GetNodesWithRepeats(k, n) ==
  IF sortedKeys = <<>> THEN <<>>
  ELSE [i \in 1..(IF n < Len(sortedKeys) THEN n ELSE Len(sortedKeys)) |->
          Walk(Bisect(sortedKeys, k), i - 1)]

\* get_nodes: the first n distinct nodes of the walk.
GetNodes(k, n) ==
  IF sortedKeys = <<>> THEN <<>>
  ELSE LET start == Bisect(sortedKeys, k)
           walk == [i \in 1..Len(sortedKeys) |-> Walk(start, i - 1)]
           Collect(found, node) ==
             IF node \in ToSet(found) \/ Len(found) = n THEN found ELSE Append(found, node)
       IN FoldLeft(Collect, <<>>, walk)

-------------------------------------------------------------------------------
HashShard(id, shards) == UserHash[id] % shards

\* The first range that holds the id; the last shard when none does.
RangeShard(id) ==
  LET hits == {i \in DOMAIN Boundaries : Boundaries[i][1] <= id /\ id <= Boundaries[i][2]}
  IN IF hits = {} THEN NumShards - 1
     ELSE Boundaries[CHOOSE i \in hits : \A j \in hits : i <= j][3]

ShardIndex(id) == IF router = "hash" THEN HashShard(id, NumShards) ELSE RangeShard(id)

\* ConsistentHashRouter over the first shards of the ring: bisect_left.
RingShard(id, shards) ==
  LET placed == SetToSortSeq(UNION {Vnodes[SetToSortSeq(Nodes, <)[s + 1]] : s \in 0..(shards - 1)}, <)
      position == placed[(BisectLeft(placed, UserHash[id]) % Len(placed)) + 1]
  IN CHOOSE s \in 0..(shards - 1) : position \in Vnodes[SetToSortSeq(Nodes, <)[s + 1]]

\* setup_schema truncates the live shards between two phases.
SetupSchema(r) ==
  /\ gathering = {} /\ signedUp # {}
  /\ router' = r
  /\ shardRows' = [s \in Shards |-> IF s \in live THEN {} ELSE shardRows[s]]
  /\ signedUp' = {} /\ gathered' = {}
  /\ UNCHANGED <<ringVars, live, gathering>>

\* The insert loop: a user of a shard that is down is skipped.
InsertUser(id) ==
  /\ gathering = {} /\ gathered = {} /\ id \notin signedUp
  /\ signedUp' = signedUp \cup {id}
  /\ shardRows' = IF ShardIndex(id) \in live
                  THEN [shardRows EXCEPT ![ShardIndex(id)] = @ \cup {id}]
                  ELSE shardRows
  /\ UNCHANGED <<ringVars, live, router, gathering, gathered>>

\* Phase 5: query_shard is submitted for every shard; the futures complete in
\* any order.
Scatter ==
  /\ gathering = {} /\ gathered = {} /\ signedUp = UserIds
  /\ gathering' = Shards
  /\ UNCHANGED <<ringVars, live, router, shardRows, signedUp, gathered>>

Gather(s) ==
  /\ s \in gathering
  /\ gathering' = gathering \ {s}
  /\ gathered' = IF s \in live THEN gathered \cup shardRows[s] ELSE gathered
  /\ UNCHANGED <<ringVars, live, router, shardRows, signedUp>>

\* The query that no shard key narrows: asked of every shard, gathered as they answer.
CrossShardQuery == Scatter \/ \E s \in Shards : Gather(s)

Next ==
  \/ \E n \in Nodes : AddNode(n) \/ RemoveNode(n)
  \/ \E r \in {"hash", "range"} : SetupSchema(r)
  \/ \E id \in UserIds : InsertUser(id)
  \/ CrossShardQuery

Spec == Init /\ [][Next]_vars

-------------------------------------------------------------------------------
TypeOK ==
  /\ ToSet(sortedKeys) = DOMAIN ring /\ Len(sortedKeys) = Cardinality(DOMAIN ring)
  /\ gathering \subseteq Shards /\ live # {}

\* The positions stay sorted; the preference list of a key starts with its owner
\* and names distinct nodes, as many as asked for or as there are; every row is
\* on the shard its router names, and the scatter-gather query finds exactly the
\* users of the live shards; a shard added to the ring router takes users only
\* for itself.
RoutingIsExact ==
  /\ \A i \in 1..(Len(sortedKeys) - 1) : sortedKeys[i] < sortedKeys[i + 1]
  /\ Members # {} => \A k \in Keys, n \in 1..Cardinality(Nodes) :
       LET preferred == GetNodes(k, n)
       IN /\ preferred[1] = GetNode(k)
          /\ Cardinality(ToSet(preferred)) = Len(preferred)
          /\ Len(preferred) = IF n < Cardinality(Members) THEN n ELSE Cardinality(Members)
  /\ \A s \in live : shardRows[s] = {id \in signedUp : ShardIndex(id) = s}
  /\ gathering = {} /\ gathered # {} => gathered = UNION {shardRows[s] : s \in live}
  /\ \A id \in UserIds, n \in 1..(Cardinality(Nodes) - 1) :
       RingShard(id, n + 1) \in {RingShard(id, n), n}

\* A node that joins takes keys only for itself, one that leaves gives away only
\* its own keys: every other key stays where it is.
NeighboursMove ==
  Members # {} /\ Members' # {} =>
    \A k \in Keys : GetNode(k)' # GetNode(k) =>
      GetNode(k)' \notin Members \/ GetNode(k) \notin Members'

OnlyNeighboursMove == [][NeighboursMove]_ringVars

=============================================================================
