-------------------------- MODULE ServiceRegistry --------------------------
(* The service discovery lab (02/14): services registered in etcd under leases,  *)
(* a watcher that logs the changes, and candidates that campaign for one key     *)
(* and take its revision as their fencing token.                                 *)
EXTENDS Integers, Sequences, FiniteSets, FiniteSetsExt

CONSTANTS
  Services,
  Candidates,
  MaxRevision    \* bound: changes in etcd

VARIABLES
  revision,   \* revision of etcd
  service,    \* service -> "new", "live", "gone": its lease
  beating,    \* services whose heartbeat thread runs
  history,    \* changes under the prefix in etcd's order, as [type, name]
  watchFrom,  \* number of changes before the watch was created, -1 without one
  atWatch,    \* the registry when the watch was created
  changeLog,  \* change_log of the watcher
  leaderKey,  \* holder of LEADER_KEY, NoOne without
  keyRevision,\* mod_revision of LEADER_KEY
  candidate   \* candidate -> [pc, isLeader, token, lease, watching]

vars == <<revision, service, beating, history, watchFrom, atWatch, changeLog, leaderKey, keyRevision,
          candidate>>
registryVars == <<service, beating, history, watchFrom, atWatch, changeLog>>
leaderVars   == <<leaderKey, keyRevision, candidate>>

NoOne == "nobody"

\* list_services: the keys under the prefix.
ListServices == {s \in Services : service[s] = "live"}

Init ==
  /\ revision = 1
  /\ service = [s \in Services |-> "new"]
  /\ beating = {}
  /\ history = <<>>
  /\ watchFrom = -1
  /\ atWatch = {}
  /\ changeLog = <<>>
  /\ leaderKey = NoOne
  /\ keyRevision = 0
  /\ candidate = [c \in Candidates |-> [pc |-> "idle", isLeader |-> FALSE, token |-> 0,
                                        lease |-> "none", watching |-> FALSE]]

Changed(type, s) ==
  /\ revision < MaxRevision
  /\ revision' = revision + 1
  /\ history' = Append(history, [type |-> type, name |-> s])

\* register: a lease and the key under it.
Register(s) ==
  /\ service[s] = "new"
  /\ service' = [service EXCEPT ![s] = "live"]
  /\ Changed("PUT", s)
  /\ UNCHANGED <<beating, watchFrom, atWatch, changeLog, leaderVars>>

StartHeartbeat(s) ==
  /\ service[s] = "live" /\ s \notin beating
  /\ beating' = beating \cup {s}
  /\ UNCHANGED <<revision, service, history, watchFrom, atWatch, changeLog, leaderVars>>

StopHeartbeat(s) ==
  /\ s \in beating
  /\ beating' = beating \ {s}
  /\ UNCHANGED <<revision, service, history, watchFrom, atWatch, changeLog, leaderVars>>

\* Mutation: the key is deleted and nobody is told.
DeregisterQuietly(s) ==
  /\ service[s] = "live"
  /\ service' = [service EXCEPT ![s] = "gone"]
  /\ UNCHANGED <<revision, history, beating, watchFrom, atWatch, changeLog, leaderVars>>

\* deregister revokes the lease, and the key goes with it.
Deregister(s) ==
  /\ service[s] = "live"
  /\ service' = [service EXCEPT ![s] = "gone"]
  /\ Changed("DELETE", s)
  /\ UNCHANGED <<beating, watchFrom, atWatch, changeLog, leaderVars>>

\* The lease of a service that does not refresh it runs out.
LeaseExpires(s) ==
  /\ service[s] = "live" /\ s \notin beating
  /\ service' = [service EXCEPT ![s] = "gone"]
  /\ Changed("DELETE", s)
  /\ UNCHANGED <<beating, watchFrom, atWatch, changeLog, leaderVars>>

\* watch_prefix, and then its events in order.
StartWatch ==
  /\ watchFrom = -1
  /\ watchFrom' = Len(history)
  /\ atWatch' = ListServices
  /\ UNCHANGED <<revision, service, beating, history, changeLog, leaderVars>>

WatchEvent ==
  LET next == watchFrom + Len(changeLog) + 1
  IN /\ watchFrom # -1 /\ next <= Len(history)
     /\ changeLog' = Append(changeLog, history[next])
     /\ UNCHANGED <<revision, service, beating, history, watchFrom, atWatch, leaderVars>>

-------------------------------------------------------------------------------
\* lease(15): every campaign takes a new lease.
Campaign(c) ==
  /\ candidate[c].pc = "idle" /\ ~candidate[c].isLeader
  /\ candidate' = [candidate EXCEPT ![c].pc = "txn", ![c].lease = "live"]
  /\ UNCHANGED <<revision, leaderKey, keyRevision, registryVars>>

\* Mutation: the key is put whether or not it exists.
TransactionAlways(c) ==
  /\ candidate[c].pc = "txn" /\ revision < MaxRevision
  /\ leaderKey' = c
  /\ keyRevision' = revision + 1
  /\ revision' = revision + 1
  /\ candidate' = [candidate EXCEPT ![c].pc = "token", ![c].isLeader = TRUE]
  /\ UNCHANGED registryVars

\* version(LEADER_KEY) == 0 and the put, in one transaction; the loser keeps an
\* unused lease.
Transaction(c) ==
  /\ candidate[c].pc = "txn" /\ revision < MaxRevision
  /\ IF leaderKey = NoOne /\ candidate[c].lease = "live"
     THEN /\ leaderKey' = c
          /\ keyRevision' = revision + 1
          /\ revision' = revision + 1
          /\ candidate' = [candidate EXCEPT ![c].pc = "token", ![c].isLeader = TRUE]
     ELSE /\ candidate' = [candidate EXCEPT ![c].pc = "idle"]
          /\ UNCHANGED <<leaderKey, keyRevision, revision>>
  /\ UNCHANGED registryVars

\* The fencing token is read by a second call: the revision of whatever is under
\* the key by then.
ReadToken(c) ==
  /\ candidate[c].pc = "token"
  /\ candidate' = [candidate EXCEPT ![c].pc = "idle",
                     ![c].token = IF leaderKey = NoOne THEN @ ELSE keyRevision]
  /\ UNCHANGED <<revision, leaderKey, keyRevision, registryVars>>

\* The key is deleted: every watcher that is not in a campaign starts one.
KeyGone(c, after) ==
  /\ leaderKey' = NoOne
  /\ keyRevision' = 0
  /\ revision' = revision + 1
  /\ candidate' = [d \in Candidates |->
       IF d = c THEN after
       ELSE IF candidate[d].watching /\ candidate[d].pc = "idle" /\ ~candidate[d].isLeader
            THEN [candidate[d] EXCEPT !.pc = "txn", !.lease = "live"] ELSE candidate[d]]

\* resign: revoke, then is_leader = False.
Resign(c) ==
  /\ candidate[c].isLeader /\ candidate[c].pc = "idle" /\ candidate[c].lease = "live"
  /\ leaderKey = c /\ revision < MaxRevision
  /\ KeyGone(c, [candidate[c] EXCEPT !.isLeader = FALSE, !.lease = "none"])
  /\ UNCHANGED registryVars

\* Nobody refreshes the lease of a leader: it runs out under a leader that goes
\* on believing in itself.
LeaderLeaseExpires(c) ==
  /\ leaderKey = c /\ revision < MaxRevision
  /\ KeyGone(c, [candidate[c] EXCEPT !.lease = "none"])
  /\ UNCHANGED registryVars

\* watch_for_takeover, and the timeout that ends it.
WatchForTakeover(c) ==
  /\ ~candidate[c].isLeader
  /\ candidate' = [candidate EXCEPT ![c].watching = ~@]
  /\ UNCHANGED <<revision, leaderKey, keyRevision, registryVars>>

RevisionsSpent == revision = MaxRevision /\ UNCHANGED vars

Registration == \E s \in Services : Register(s) \/ StartHeartbeat(s)

\* Every candidate campaigns, the first transaction wins.
Election == \E c \in Candidates : Campaign(c) \/ Transaction(c) \/ ReadToken(c)

\* The losers watch the leader's key; it goes when the leader resigns or its lease expires.
Reelection == \E c \in Candidates : WatchForTakeover(c) \/ Resign(c) \/ LeaderLeaseExpires(c)

Next ==
  \/ RevisionsSpent
  \/ Registration
  \/ \E s \in Services : StopHeartbeat(s) \/ Deregister(s) \/ LeaseExpires(s)
  \/ StartWatch \/ WatchEvent
  \/ Election
  \/ Reelection

Spec == Init /\ [][Next]_vars

-------------------------------------------------------------------------------
TypeOK ==
  /\ leaderKey \in Candidates \cup {NoOne}
  /\ keyRevision <= revision
  /\ watchFrom # -1 => watchFrom + Len(changeLog) <= Len(history)

\* What a reader of the log makes of the registry.
Seen(known, e) == IF e.type = "PUT" THEN known \cup {e.name} ELSE known \ {e.name}
Replay(known, log) ==
  MapThenFoldSet(LAMBDA e, before : Seen(before, e), known, LAMBDA i : log[i], Max, DOMAIN log)
Replayed(log) == Replay(atWatch, log)

\* The log of the watcher replays to the registry, and two candidates hold leases
\* on the leadership never at once: a leader without the key has lost its lease.
\* The holder's token is the revision of the key once it has read it, and nobody's
\* is above; a deposed leader that reads late gets the same (TokensDiffer).
RegistryIsSound ==
  /\ watchFrom # -1 =>
       Replayed(changeLog \o SubSeq(history, watchFrom + Len(changeLog) + 1, Len(history)))
         = ListServices
  /\ \A c \in Candidates :
       /\ candidate[c].isLeader /\ candidate[c].lease = "live" => leaderKey = c
       /\ leaderKey = c => candidate[c].isLeader /\ candidate[c].lease = "live"
       /\ leaderKey = c /\ candidate[c].pc # "token" => candidate[c].token = keyRevision
       /\ leaderKey # NoOne => candidate[c].token <= keyRevision

\* A comment of the lab: the token is the revision of the put that won, so two
\* leaders never hold the same one.
TokensDiffer ==
  \A c, d \in Candidates :
    c # d /\ candidate[c].isLeader /\ candidate[d].isLeader /\ candidate[c].token # 0
      => candidate[c].token # candidate[d].token
=============================================================================
