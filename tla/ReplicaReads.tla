--------------------------- MODULE ReplicaReads ----------------------------
(* The replication labs (01/03, 01/02). Two programs that share nothing: the     *)
(* consistency models on Redis, and the partition of a Postgres replica.         *)
EXTENDS Integers, Sequences, FiniteSets, FiniteSetsExt

CONSTANTS
  Replicas,   \* the two replicas: "r1" and "r2"
  Trials,     \* bound: rounds of a loop that writes and reads
  MaxChecks   \* bound: looks at the replica's replay position (20 in the code)

VARIABLES
  stream,     \* the master's command stream, as [key, val]
  applied,    \* replica -> commands of the stream it has executed
  acked,      \* replica -> commands it has reported to the master
  phase,      \* the phase that runs
  pos,        \* commands of the script done
  acks,       \* what the last WAIT answered, 0 since a write
  gets,       \* the answers of GET, as [on, key, val, wrote, acks, post]
  wal,        \* the balances committed to the primary's WAL
  replicaUp,
  received,   \* position the replica has written of the WAL
  replayed,   \* position its queries see
  syncNames,  \* synchronous_standby_names is set
  syncWrite,  \* the writer thread: "none", "started", "waiting", "committed"
  main,       \* what the script does next
  session,    \* LSN of phase 6's write and the position its read saw, 0 before
  checks,     \* looks taken
  report      \* what the script printed of phases 4 and 5

-------------------------------------------------------------------------------
(* The consistency models lab: a Redis master and two replicas that apply its    *)
(* commands in order and behind it.  A phase of the lab is a script of commands  *)
(* of one client; any phase may be the one that runs.                            *)
vars == <<stream, applied, acked, phase, pos, acks, gets>>

Nil == 0   \* the answer for a missing key

Set(key, val)  == [op |-> "set", on |-> "master", key |-> key, val |-> val, n |-> 0]
Get(on, key)   == [op |-> "get", on |-> on, key |-> key, val |-> Nil, n |-> 0]
Wait(n)        == [op |-> "wait", on |-> "master", key |-> "", val |-> Nil, n |-> n]
\* WAIT only when the last read found its key.
WaitIfSeen(n)  == [op |-> "waitIfSeen", on |-> "master", key |-> "", val |-> Nil, n |-> n]
\* A read that ends the phase when it is stale.
Probe(on, key) == [op |-> "probe", on |-> on, key |-> key, val |-> Nil, n |-> 0]

\* What a key is set to before a loop, and no round writes.
Start == Trials + 1
\* A loop: round i sets the key to i and reads it.
Rounds(key, read) == [n \in 1..2 * Trials |-> IF n % 2 = 1 THEN Set(key, (n + 1) \div 2) ELSE read]

\* The phases, as their commands.
EventualConsistency == <<Set("counter", Start), Wait(2)>> \o Rounds("counter", Get("r1", "counter"))
WaitLatency == <<Set("eventual", 1), Get("r1", "eventual"), Set("wait1", 1), Wait(1), Get("r1", "wait1"),
                 Set("wait2", 1), Wait(2), Get("r1", "wait2")>>
ReadYourWrites == <<Set("user42", 1), Wait(2), Get("r1", "user42"), Get("r2", "user42")>>
                    \o Rounds("user99", Probe("r2", "user99"))
\* DEBUG SLEEP is refused, so the phase stops at its baseline.
MonotonicReads == <<Set("mono", Start), Wait(2)>>
CausalConsistency == <<Set("post", Nil), Set("reply", Nil), Wait(2), Set("post", 1), Get("r1", "post"),
                       Set("reply", 1), WaitIfSeen(1), Get("r2", "post"), Get("r2", "reply")>>
Linearizability == <<Set("balance", 1), Wait(2), Get("master", "balance")>>

Phases == [ eventual |-> EventualConsistency, wait |-> WaitLatency, ryw |-> ReadYourWrites,
            monotonic |-> MonotonicReads, causal |-> CausalConsistency, linear |-> Linearizability ]

Running == pos < Len(Phases[phase])
Command == Phases[phase][pos + 1]

\* Mutation: a replica applies each key on its own, the newest first.
ValueNewestFirst(key, prefix) ==
  LET writes == {i \in 1..Len(stream) : stream[i].key = key /\ i > Len(stream) - prefix}
  IN  IF writes = {} THEN Nil ELSE stream[Max(writes)].val

\* The value of a key after a prefix of the stream.
ValueAt(key, prefix) ==
  LET writes == {i \in 1..prefix : stream[i].key = key}
  IN  IF writes = {} THEN Nil ELSE stream[Max(writes)].val

\* What a node has: the master its whole stream, a replica what it applied.
Prefix(node) == IF node = "master" THEN Len(stream) ELSE applied[node]
ReadAt(node, key) == ValueAt(key, Prefix(node))

Init ==
  /\ stream = <<>>
  /\ applied = [r \in Replicas |-> 0]
  /\ acked = [r \in Replicas |-> 0]
  /\ phase \in DOMAIN Phases
  /\ pos = 0
  /\ acks = 0
  /\ gets = <<>>

DoSet ==
  /\ Running /\ Command.op = "set"
  /\ stream' = Append(stream, [key |-> Command.key, val |-> Command.val])
  /\ acks' = 0
  /\ pos' = pos + 1
  /\ UNCHANGED <<applied, acked, phase, gets>>

Answer == [on |-> Command.on, key |-> Command.key, val |-> ReadAt(Command.on, Command.key),
           wrote |-> ValueAt(Command.key, Len(stream)), acks |-> acks,
           post |-> ReadAt(Command.on, "post")]

Stale == Answer.val # Answer.wrote

DoGet ==
  /\ Running /\ Command.op \in {"get", "probe"}
  /\ gets' = Append(gets, Answer)
  /\ pos' = IF Command.op = "probe" /\ Stale THEN Len(Phases[phase]) ELSE pos + 1
  /\ UNCHANGED <<stream, applied, acked, phase, acks>>

\* Mutation: a replica counts one command early.
AcknowledgedEarly == {r \in Replicas : acked[r] + 1 >= Len(stream)}

\* The replicas that have reported the whole stream.
Acknowledged == {r \in Replicas : acked[r] = Len(stream)}

\* WAIT answers when enough replicas have reported, or at its timeout with fewer.
DoWait ==
  /\ Running
  /\ \/ Command.op = "wait"
     \/ Command.op = "waitIfSeen" /\ \E i \in {Len(gets)} \ {0} : gets[i].val # Nil
  /\ acks' = Cardinality(Acknowledged)
  /\ pos' = pos + 1
  /\ UNCHANGED <<stream, applied, acked, phase, gets>>

SkipWait ==
  /\ Running /\ Command.op = "waitIfSeen"
  /\ \A i \in {Len(gets)} \ {0} : gets[i].val = Nil
  /\ pos' = pos + 1
  /\ UNCHANGED <<stream, applied, acked, phase, acks, gets>>

\* A replica executes the next command of the stream.
Apply(r) ==
  /\ Running /\ applied[r] < Len(stream)
  /\ applied' = [applied EXCEPT ![r] = @ + 1]
  /\ UNCHANGED <<stream, acked, phase, pos, acks, gets>>

\* It reports its offset, asked to by the master's GETACK.
Report(r) ==
  /\ Running /\ acked[r] < applied[r]
  /\ acked' = [acked EXCEPT ![r] = applied[r]]
  /\ UNCHANGED <<stream, applied, phase, pos, acks, gets>>

\* The phase has ended.
End == ~Running /\ UNCHANGED vars

Next == End \/ DoSet \/ DoGet \/ DoWait \/ SkipWait \/ \E r \in Replicas : Apply(r) \/ Report(r)

Spec == Init /\ [][Next]_vars

TypeOK ==
  /\ \A r \in Replicas : 0 <= acked[r] /\ acked[r] <= applied[r] /\ applied[r] <= Len(stream)
  /\ phase \in DOMAIN Phases
  /\ pos \in 0..Len(Phases[phase])
  /\ acks \in 0..Cardinality(Replicas)

\* A WAIT that both replicas answered makes every later read fresh, wherever it goes.
AckedReadsAreFresh ==
  \A i \in DOMAIN gets : gets[i].acks = Cardinality(Replicas) => gets[i].val = gets[i].wrote
\* The client of the loops counts up, and no replica ever takes it back.
ReadsAreMonotonic ==
  \A i, j \in DOMAIN gets : i < j /\ gets[i].on = gets[j].on /\ gets[i].key = gets[j].key
                            /\ gets[i].val \in 1..Trials => gets[i].val <= gets[j].val
\* A replica that shows the reply has the post (phase 5).
RepliesFollowPosts ==
  \A i \in DOMAIN gets : gets[i].key = "reply" /\ gets[i].val # Nil => gets[i].post # Nil
\* What the three phases ask of a replica, at any lag: phase 3's fix, phase 4's sticky reads
\* and phase 5's order of cause and effect.
ReplicasAreHonest == AckedReadsAreFresh /\ ReadsAreMonotonic /\ RepliesFollowPosts

\* What experiment.py:131 says of the read on replica1 after WAIT 1: "guaranteed fresh
\* (replica acked)".  The replica that answered may be the other one.
WaitOneIsFresh ==
  \A i \in DOMAIN gets : gets[i].key = "wait1" /\ gets[i].acks >= 1 => gets[i].val = gets[i].wrote

-------------------------------------------------------------------------------
(* The CAP lab (01/02): Alice's balance on a Postgres primary that streams its   *)
(* WAL to one replica.  The replica is stopped and started again; a write that   *)
(* must wait for it is issued in between from a thread of its own.               *)
capVars == <<wal, replicaUp, received, replayed, syncNames, syncWrite, main, session, checks, report>>
replicaVars == <<replicaUp, received, replayed>>

\* Alice's balances, phase by phase.
Seed == 1000
Lag  == 950
Ap   == 800
Cp   == 700
Ryw  == 750
SyncPosition == CHOOSE i \in DOMAIN wal : wal[i] = Cp

\* The primary hides a commit that waits for its standby.
Shown == IF syncWrite = "waiting" THEN Len(wal) - 1 ELSE Len(wal)

CapInit ==
  /\ wal = <<>>
  /\ replicaUp \in BOOLEAN
  /\ received = 0 /\ replayed = 0
  /\ syncNames = FALSE
  /\ syncWrite = "none"
  /\ main = "setup"
  /\ session = [lsn |-> 0, read |-> 0]
  /\ checks = 0
  /\ report = [sync |-> "", heal |-> ""]

Go(from, to) == main = from /\ main' = to

SetupTable ==
  /\ Go("setup", IF replicaUp THEN "lag" ELSE "stop")
  /\ wal' = <<Seed>>
  /\ UNCHANGED <<replicaVars, syncNames, syncWrite, session, checks, report>>

\* Mutation: the LSN is read before the UPDATE.
WriteAccountLsnFirst(balance) ==
  /\ syncWrite # "waiting"
  /\ wal' = Append(wal, balance)
  /\ session' = [session EXCEPT !.lsn = Len(wal)]

\* write_account: the UPDATE waits for the row while a commit on it waits for the standby;
\* the LSN is read after it.
WriteAccount(balance) ==
  /\ syncWrite # "waiting"
  /\ wal' = Append(wal, balance)
  /\ session' = [session EXCEPT !.lsn = Len(wal')]

MeasureLag ==
  /\ Go("lag", "poll")
  /\ WriteAccount(Lag)
  /\ UNCHANGED <<replicaVars, syncNames, syncWrite, checks, report>>

\* What a look of poll_replica_for_balance finds; the poll ends on TRUE, or at its timeout.
PollReplica(balance) == replicaUp /\ replayed > 0 /\ wal[replayed] = balance

EndPoll ==
  /\ Go("poll", "stop")
  /\ UNCHANGED <<wal, replicaVars, syncNames, syncWrite, session, checks, report>>

\* docker-compose stop, and the fallback to docker stop: either may fail.
StopReplica ==
  /\ Go("stop", "ap")
  /\ replicaUp' \in {FALSE, replicaUp}
  /\ UNCHANGED <<wal, received, replayed, syncNames, syncWrite, session, checks, report>>

WriteAp ==
  /\ Go("ap", "configure")
  /\ WriteAccount(Ap)
  /\ UNCHANGED <<replicaVars, syncNames, syncWrite, checks, report>>

\* ALTER SYSTEM makes the primary wait for a standby, and the writer thread starts.
ConfigureSync ==
  /\ Go("configure", "join")
  /\ syncNames' = TRUE
  /\ syncWrite' = "started"
  /\ UNCHANGED <<wal, replicaVars, session, checks, report>>

ConfigureFails ==
  /\ Go("configure", "start")
  /\ UNCHANGED <<wal, replicaVars, syncNames, syncWrite, session, checks, report>>

\* attempt_sync_write: the commit record is in the WAL before the wait.
AttemptSyncWrite ==
  /\ syncWrite = "started"
  /\ wal' = Append(wal, Cp)
  /\ syncWrite' = "waiting"
  /\ UNCHANGED <<replicaVars, syncNames, main, session, checks, report>>

\* Mutation: the session keeps synchronous_commit = local.
ReleasedLocally == syncWrite = "waiting"

\* remote_write: a standby has written the record, or none is asked for any more.
Released == syncWrite = "waiting" /\ (~syncNames \/ (replicaUp /\ received >= SyncPosition))

SyncCommits ==
  /\ Released
  /\ syncWrite' = "committed"
  /\ UNCHANGED <<wal, replicaVars, syncNames, main, session, checks, report>>

\* join(timeout=5): the thread has answered, or it is left behind with its connection closed.
Join ==
  /\ Go("join", "start")
  /\ report' = [report EXCEPT !.sync = IF syncWrite = "committed" THEN "success" ELSE "timedOut"]
  /\ UNCHANGED <<wal, replicaVars, syncNames, syncWrite, session, checks>>

\* The container starts over from a base backup, which ends at the primary's position.
StartReplica ==
  /\ main \in {"start", "reset"} /\ ~replicaUp
  /\ replicaUp' = TRUE
  /\ received' = Len(wal) /\ replayed' = Len(wal)
  /\ UNCHANGED <<wal, syncNames, syncWrite, main, session, checks, report>>

\* wait_for_postgres: connected, or 25 attempts refused.
WaitForReplica ==
  /\ Go("start", "reset")
  /\ report' = [report EXCEPT !.heal = IF replicaUp THEN "polling" ELSE "none"]
  /\ UNCHANGED <<wal, replicaVars, syncNames, syncWrite, session, checks>>

ResetSync ==
  /\ Go("reset", IF report.heal = "polling" THEN "heal" ELSE "end")
  /\ syncNames' = FALSE
  /\ UNCHANGED <<wal, replicaVars, syncWrite, session, checks, report>>

HealPartition ==
  /\ Go("heal", "write")
  /\ report' = [report EXCEPT !.heal = IF PollReplica(Ap) THEN "caught up" ELSE "catching up"]
  /\ UNCHANGED <<wal, replicaVars, syncNames, syncWrite, session, checks>>

WriteInSession ==
  /\ Go("write", "check")
  /\ WriteAccount(Ryw)
  /\ UNCHANGED <<replicaVars, syncNames, syncWrite, checks, report>>

ReplicaHasCaughtUp == replicaUp /\ replayed >= session.lsn

CheckReplica ==
  /\ main = "check" /\ checks < MaxChecks
  /\ IF ReplicaHasCaughtUp THEN main' = "readReplica" /\ UNCHANGED checks
                           ELSE checks' = checks + 1 /\ UNCHANGED main
  /\ UNCHANGED <<wal, replicaVars, syncNames, syncWrite, session, report>>

Answered(position) ==
  /\ session' = [session EXCEPT !.read = position]
  /\ UNCHANGED <<wal, replicaVars, syncNames, syncWrite, checks, report>>

ReadSession ==
  \/ Go("readReplica", "end") /\ Answered(replayed)
  \/ checks = MaxChecks /\ Go("check", "end") /\ Answered(Shown)

\* The WAL sender and the replica's recovery.
StreamWal ==
  /\ replicaUp /\ received < Len(wal)
  /\ received' = received + 1
  /\ UNCHANGED <<wal, replicaUp, replayed, syncNames, syncWrite, main, session, checks, report>>
ReplayWal ==
  /\ replicaUp /\ replayed < received
  /\ replayed' = replayed + 1
  /\ UNCHANGED <<wal, replicaUp, received, syncNames, syncWrite, main, session, checks, report>>

LabEnds == main = "end" /\ UNCHANGED capVars

CapNext ==
  \/ SetupTable \/ MeasureLag \/ EndPoll \/ StopReplica \/ WriteAp
  \/ ConfigureSync \/ ConfigureFails \/ AttemptSyncWrite \/ SyncCommits \/ Join
  \/ StartReplica \/ WaitForReplica \/ ResetSync \/ HealPartition
  \/ WriteInSession \/ CheckReplica \/ ReadSession \/ StreamWal \/ ReplayWal \/ LabEnds

CapSpec == CapInit /\ [][CapNext]_capVars

CapTypeOK ==
  /\ replayed <= received /\ received <= Len(wal)
  /\ syncWrite \in {"none", "started", "waiting", "committed"}
  /\ checks \in 0..MaxChecks

\* Phase 6: whichever node answers, the session sees its own write or a newer one.
SessionReadsItsWrite == session.read # 0 => \E i \in 1..session.read : wal[i] = Ryw
\* Phase 4: a write reported as done is on the replica.
ConfirmedIsReplicated == report.sync = "success" => received >= SyncPosition
\* What the lab promises with the LSN and with the synchronous commit.
PartitionIsSurvived == SessionReadsItsWrite /\ ConfirmedIsReplicated

\* experiment.py's summary of phase 4: "write blocked for ~4s, then timed out - no bad data".
\* The write it gave up on is committed all the same.
TimedOutWriteIsGone == report.sync = "timedOut" => \A i \in DOMAIN wal : wal[i] # Cp
\* "Replica is still catching up": said although the replica has everything.
CaughtUpIsNoticed == report.heal = "catching up" => replayed < Len(wal)
===============================================================================
