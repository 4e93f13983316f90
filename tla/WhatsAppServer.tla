--------------------------- MODULE WhatsAppServer ---------------------------
(***************************************************************************)
(* The chat server of 03-case-studies/05-whatsapp: one asyncio process, a  *)
(* task per WebSocket, a dictionary connected_users from user to socket, a *)
(* table messages in Postgres and a presence key per user in Redis.        *)
(*                                                                         *)
(* Code between two awaits runs alone: an action is the code up to and     *)
(* including the write of the next await websocket.send.  psycopg2 and     *)
(* redis calls block the loop, so they never separate two actions.         *)
(***************************************************************************)
EXTENDS Integers, Sequences, FiniteSets, Functions

CONSTANTS
    Users,
    Messages,   \* message ids, chosen by the clients
    Conns,      \* WebSocket connections, in no particular order
    MaxSends,   \* bound on how often a client sends one message id
    MaxFaults,  \* bound on vanished devices, failed UPDATEs and restarts
    None

Statuses == {"sent", "delivered", "read"}
Rows == [from : Users, to : Users, status : Statuses]

ASSUME ServerAssumption ==
    /\ MaxSends \in Nat /\ MaxFaults \in Nat
    /\ None \notin Users \cup Messages \cup Conns \cup Rows

VARIABLES
    sock,       \* sock[c]: "none", "open", "dead" (peer gone, unnoticed), "closed"
    user,       \* user[c]: the user_id the connection authenticated as
    pc,         \* pc[c]: where the task of c is suspended
    queue,      \* queue[c]: rows fetched by get_queued_messages, not yet handled
    cur,        \* cur[c]: the msg_id of the "message" frame in hand
    connected,  \* connected_users
    online,     \* Redis keys online:{user_id}
    row,        \* row[m]: row of table messages, or None
    stored,     \* ids of the table in the order of created_at
    inbox,      \* inbox[u]: messages that reached the device of u, in order
    told,       \* told[m]: receipts of m that reached the device of its sender
    sends,      \* sends[m]: times a client has sent m
    faults

taskVars == <<user, pc, queue, cur>>
dbVars == <<row, stored>>
deviceVars == <<inbox, told, sends>>
vars == <<sock, taskVars, connected, online, dbVars, deviceVars, faults>>

TypeOK ==
    /\ sock \in [Conns -> {"none", "open", "dead", "closed"}]
    /\ user \in [Conns -> Users \cup {None}]
    /\ pc \in [Conns -> {"new", "ready", "flush", "flush_mark", "deliver", "mark", "ended"}]
    /\ queue \in [Conns -> Seq(Messages)]
    /\ cur \in [Conns -> Messages \cup {None}]
    /\ connected \in [Users -> Conns \cup {None}]
    /\ online \in [Users -> BOOLEAN]
    /\ row \in [Messages -> Rows \cup {None}]
    /\ stored \in Seq(Messages)
    /\ inbox \in [Users -> Seq(Messages)]
    /\ told \in [Messages -> SUBSET Statuses]
    /\ sends \in [Messages -> 0..MaxSends]
    /\ faults \in 0..MaxFaults

Init ==
    /\ sock = [c \in Conns |-> "none"]
    /\ user = [c \in Conns |-> None]
    /\ pc = [c \in Conns |-> "new"]
    /\ queue = [c \in Conns |-> <<>>]
    /\ cur = [c \in Conns |-> None]
    /\ connected = [u \in Users |-> None]
    /\ online = [u \in Users |-> FALSE]
    /\ row = [m \in Messages |-> None]
    /\ stored = <<>>
    /\ inbox = [u \in Users |-> <<>>]
    /\ told = [m \in Messages |-> {}]
    /\ sends = [m \in Messages |-> 0]
    /\ faults = 0

Fault == faults < MaxFaults /\ faults' = faults + 1
Goto(c, l) == pc' = [pc EXCEPT ![c] = l]

\* The user is in connected_users, and a write to the socket does not raise.
Reachable(u) == connected[u] # None /\ sock[connected[u]] # "closed"

\* A write to a socket whose peer is gone succeeds and is lost.
PushTo(u, m) == inbox' = [inbox EXCEPT ![u] = Append(@, m)]
Push(c, m) == IF sock[c] = "open" THEN PushTo(user[c], m) ELSE UNCHANGED inbox
Receipt(c, m, s) == told' = IF sock[c] = "open" THEN [told EXCEPT ![m] = @ \cup {s}] ELSE told
SetStatus(m, s) == row' = [row EXCEPT ![m].status = s] /\ UNCHANGED stored

\* Row m was stored before row n: ORDER BY created_at.
Before(m, n) == \E i, j \in DOMAIN stored : i < j /\ stored[i] = m /\ stored[j] = n

Undelivered(u) == {m \in Range(stored) : row[m].to = u /\ row[m].status = "sent"}

\* Mutation: the newest row comes first.
QueuedNewestFirst(u) ==
    CHOOSE q \in [1..Cardinality(Undelivered(u)) -> Undelivered(u)] :
        \A i, j \in DOMAIN q : i < j => Before(q[j], q[i])

\* get_queued_messages: rows of the user in status 'sent', by created_at.
Queued(u) ==
    CHOOSE q \in [1..Cardinality(Undelivered(u)) -> Undelivered(u)] :
        \A i, j \in DOMAIN q : i < j => Before(q[i], q[j])

\* Mutation: the entry stays in connected_users.
FinallyKeepsEntry(c) ==
    /\ Goto(c, "ended")
    /\ sock' = [sock EXCEPT ![c] = "closed"]
    /\ online' = [online EXCEPT ![user[c]] = FALSE]
    /\ UNCHANGED connected

\* The task of c ends: the finally block, then the library closes the socket.
Finally(c) ==
    /\ Goto(c, "ended")
    /\ sock' = [sock EXCEPT ![c] = "closed"]
    /\ connected' = [connected EXCEPT ![user[c]] = None]
    /\ online' = [online EXCEPT ![user[c]] = FALSE]

\* Mutation: a user whose presence key is still there is taken to have no queue.
AuthWhenOffline(c, u) ==
    LET q == IF online[u] THEN <<>> ELSE Queued(u) IN
    /\ pc[c] = "new" /\ sock[c] = "none"
    /\ \A d \in Conns : user[d] = u => sock[d] # "open"
    /\ sock' = [sock EXCEPT ![c] = "open"]
    /\ user' = [user EXCEPT ![c] = u]
    /\ connected' = [connected EXCEPT ![u] = c]
    /\ online' = [online EXCEPT ![u] = TRUE]
    /\ queue' = [queue EXCEPT ![c] = q]
    /\ IF q = <<>> THEN Goto(c, "ready") /\ UNCHANGED inbox
                   ELSE Goto(c, "flush_mark") /\ PushTo(u, Head(q))
    /\ UNCHANGED <<cur, dbVars, told, sends, faults>>

\* A device connects once its previous connection is gone, and sends "auth":
\* register the socket, set the presence key, fetch the queued messages and
\* write the first.
Auth(c, u) ==
    /\ pc[c] = "new" /\ sock[c] = "none"
    /\ \A d \in Conns : user[d] = u => sock[d] # "open"
    /\ sock' = [sock EXCEPT ![c] = "open"]
    /\ user' = [user EXCEPT ![c] = u]
    /\ connected' = [connected EXCEPT ![u] = c]
    /\ online' = [online EXCEPT ![u] = TRUE]
    /\ queue' = [queue EXCEPT ![c] = Queued(u)]
    /\ IF Queued(u) = <<>> THEN Goto(c, "ready") /\ UNCHANGED inbox
                           ELSE Goto(c, "flush_mark") /\ PushTo(u, Head(Queued(u)))
    /\ UNCHANGED <<cur, dbVars, told, sends, faults>>

\* The next turn of the loop over the queue, of which q is left: write a message.
\* On a closed socket the write raises.
WriteNext(c, q) ==
    IF q = <<>> THEN Goto(c, "ready") /\ UNCHANGED <<inbox, sock, connected, online>>
    ELSE IF sock[c] = "closed" THEN Finally(c) /\ UNCHANGED inbox
    ELSE Push(c, Head(q)) /\ Goto(c, "flush_mark") /\ UNCHANGED <<sock, connected, online>>

FlushNext(c) ==
    /\ pc[c] = "flush"
    /\ WriteNext(c, queue[c])
    /\ UNCHANGED <<user, queue, cur, dbVars, told, sends, faults>>

\* The sender of m, if connected, gets the receipt.
Notify(m, s) ==
    IF Reachable(row[m].from) THEN Receipt(connected[row[m].from], m, s)
                              ELSE UNCHANGED told

\* Mutation: the flush starts again from the first row.
FlushMarkStays(c) ==
    LET m == Head(queue[c]) IN
    /\ pc[c] = "flush_mark"
    /\ SetStatus(m, "delivered")
    /\ Notify(m, "delivered")
    /\ Goto(c, "flush")
    /\ UNCHANGED <<sock, user, queue, cur, connected, online, inbox, sends, faults>>

\* The message written is marked delivered; its sender, if connected, is told,
\* failures swallowed, which is one more await; otherwise the loop goes on.
FlushMark(c) ==
    LET m == Head(queue[c]) IN
    /\ pc[c] = "flush_mark"
    /\ SetStatus(m, "delivered")
    /\ Notify(m, "delivered")
    /\ queue' = [queue EXCEPT ![c] = Tail(@)]
    /\ IF Reachable(row[m].from)
         THEN Goto(c, "flush") /\ UNCHANGED <<sock, connected, online, inbox>>
         ELSE WriteNext(c, Tail(queue[c]))
    /\ UNCHANGED <<user, cur, sends, faults>>

\* Mutation: the status of a new row is one the other statements do not know.
InsertQueued(m, from, to) ==
    IF row[m] = None
      THEN /\ row' = [row EXCEPT ![m] = [from |-> from, to |-> to, status |-> "queued"]]
           /\ stored' = Append(stored, m)
      ELSE UNCHANGED dbVars

\* store_message: INSERT .. ON CONFLICT DO NOTHING.
Insert(m, from, to) ==
    IF row[m] = None
      THEN /\ row' = [row EXCEPT ![m] = [from |-> from, to |-> to, status |-> "sent"]]
           /\ stored' = Append(stored, m)
      ELSE UNCHANGED dbVars

\* "message": store the row, then write ACK1.  When the sender's socket is
\* closed the write raises and the task ends, the message undelivered.
Store(c, m, to) ==
    /\ pc[c] = "ready" /\ sock[c] \in {"open", "closed"}
    /\ to # user[c] /\ sends[m] < MaxSends
    /\ row[m] # None => row[m].from = user[c] /\ row[m].to = to
    /\ sends' = [sends EXCEPT ![m] = @ + 1]
    /\ Insert(m, user[c], to)
    /\ cur' = [cur EXCEPT ![c] = m]
    /\ IF sock[c] = "closed"
         THEN Finally(c) /\ UNCHANGED told
         ELSE Receipt(c, m, "sent") /\ Goto(c, "deliver") /\ UNCHANGED <<sock, connected, online>>
    /\ UNCHANGED <<user, queue, inbox, faults>>

\* Immediate delivery: the recipient's socket is looked up and written to.
Deliver(c) ==
    LET to == row[cur[c]].to IN
    /\ pc[c] = "deliver"
    /\ IF Reachable(to)
         THEN Push(connected[to], cur[c]) /\ Goto(c, "mark") /\ UNCHANGED cur
         ELSE /\ Goto(c, "ready") /\ cur' = [cur EXCEPT ![c] = None]
              /\ UNCHANGED inbox
    /\ UNCHANGED <<sock, user, queue, connected, online, dbVars, told, sends, faults>>

\* It is marked delivered, and ACK2 written to the sender.
Mark(c) ==
    /\ pc[c] = "mark"
    /\ SetStatus(cur[c], "delivered")
    /\ Receipt(c, cur[c], "delivered")
    /\ Goto(c, "ready")
    /\ cur' = [cur EXCEPT ![c] = None]
    /\ UNCHANGED <<sock, user, queue, connected, online, inbox, sends, faults>>

\* "read": the device has shown the message.  ACK3 to a closed socket raises in
\* the task of the reader.
Read(c, m) ==
    /\ pc[c] = "ready" /\ sock[c] \in {"open", "closed"} /\ m \in Range(inbox[user[c]])
    /\ row[m].status # "read"
    /\ SetStatus(m, "read")
    /\ LET from == connected[row[m].from] IN
       IF from # None /\ sock[from] = "closed"
         THEN Finally(c) /\ UNCHANGED told
         ELSE Notify(m, "read") /\ UNCHANGED <<sock, connected, online, pc>>
    /\ UNCHANGED <<user, queue, cur, inbox, sends, faults>>

\* Mutation: a heartbeat only extends the key of a registered connection.
HeartbeatIfRegistered(c) ==
    /\ pc[c] = "ready" /\ sock[c] = "open" /\ connected[user[c]] = c
    /\ online' = [online EXCEPT ![user[c]] = TRUE]
    /\ UNCHANGED <<sock, taskVars, connected, dbVars, deviceVars, faults>>

\* "heartbeat": the presence key is set again.
Heartbeat(c) ==
    /\ pc[c] = "ready" /\ sock[c] = "open"
    /\ online' = [online EXCEPT ![user[c]] = TRUE]
    /\ UNCHANGED <<sock, taskVars, connected, dbVars, deviceVars, faults>>

\* update_message_status raises: caught in the "message" branch, fatal to the
\* task in the "auth" branch.
StatementFails(c) ==
    /\ Fault
    /\ \/ pc[c] = "flush_mark" /\ Finally(c) /\ UNCHANGED cur
       \/ /\ pc[c] = "mark" /\ Goto(c, "ready") /\ cur' = [cur EXCEPT ![c] = None]
          /\ UNCHANGED <<sock, connected, online>>
    /\ UNCHANGED <<user, queue, dbVars, deviceVars>>

\* The socket is closed: the loop of the task ends.
Ends(c) ==
    /\ sock[c] = "closed" /\ pc[c] = "ready"
    /\ Finally(c)
    /\ UNCHANGED <<user, queue, cur, dbVars, deviceVars, faults>>

\* The device closes its connection; it vanishes; the server's ping times out.
Network(c) ==
    /\ \/ sock[c] = "open" /\ Fault /\ sock' = [sock EXCEPT ![c] = "dead"]
       \/ /\ sock[c] \in {"open", "dead"} /\ sock' = [sock EXCEPT ![c] = "closed"]
          /\ UNCHANGED faults
    /\ UNCHANGED <<taskVars, connected, online, dbVars, deviceVars>>

\* The presence key expires 90 s after the last heartbeat.
Expire(u) ==
    /\ online[u] /\ \A c \in Conns : user[c] = u => sock[c] # "open"
    /\ online' = [online EXCEPT ![u] = FALSE]
    /\ UNCHANGED <<sock, taskVars, connected, dbVars, deviceVars, faults>>

\* The server is killed and restarted: sockets and tasks die, no finally runs.
Restart ==
    /\ Fault
    /\ \E c \in Conns : pc[c] \notin {"new", "ended"}
    /\ sock' = [c \in Conns |-> IF pc[c] = "new" THEN "none" ELSE "closed"]
    /\ pc' = [c \in Conns |-> IF pc[c] = "new" THEN "new" ELSE "ended"]
    /\ connected' = [u \in Users |-> None]
    /\ UNCHANGED <<user, queue, cur, online, dbVars, deviceVars>>

Task(c) == FlushNext(c) \/ FlushMark(c) \/ Deliver(c) \/ Mark(c) \/ Ends(c)

Next ==
    \/ \E c \in Conns :
          \/ \E u \in Users : Auth(c, u)
          \/ \E m \in Messages : Read(c, m) \/ \E to \in Users : Store(c, m, to)
          \/ Task(c) \/ Heartbeat(c) \/ StatementFails(c) \/ Network(c)
    \/ \E u \in Users : Expire(u)
    \/ Restart

Spec == Init /\ [][Next]_vars

\* The event loop resumes a task whose await is over; a device that is connected
\* sends its heartbeats.
FairSpec == Spec /\ \A c \in Conns : WF_vars(Task(c)) /\ WF_vars(Heartbeat(c))

-----------------------------------------------------------------------------
(***************************************************************************)
(* Properties                                                              *)
(***************************************************************************)

\* Some task has message m in hand.
InHand(m) ==
    \E c \in Conns : \/ pc[c] \in {"flush", "flush_mark"} /\ m \in Range(queue[c])
                     \/ pc[c] \in {"deliver", "mark"} /\ cur[c] = m

\* A message waits in 'sent' only while the server holds no entry for its recipient,
\* or one whose socket is gone: storing, looking up and fetching the queue never
\* miss each other.  The exceptions are a copy that did arrive and a task that died
\* between the row and the lookup (lines 128-137, 174-195).  A missing entry does
\* not mean that the recipient is away: the finally block of a connection it has
\* replaced pops the new one's (line 231), and its messages wait for the next
\* register, which nothing here forbids.
QueuedMeansAway ==
    \A m \in Messages : row[m] # None /\ row[m].status = "sent" =>
        \/ InHand(m)
        \/ connected[row[m].to] = None
        \/ sock[connected[row[m].to]] # "open"
        \/ m \in Range(inbox[row[m].to])
        \/ \E c \in Conns : pc[c] = "ended" /\ cur[c] = m

\* connected_users holds tasks that are alive and speak for that user: no send
\* goes to a task that has ended or to somebody else (lines 128-132, 229-234).
RegisteredIsAlive ==
    \A u \in Users : connected[u] # None =>
        user[connected[u]] = u /\ pc[connected[u]] # "ended"

\* A queue being flushed holds messages of its own user only, each once, in the
\* order they were stored (lines 98-110).
QueueIsSorted ==
    \A c \in Conns : pc[c] # "ended" =>
        /\ \A m \in Range(queue[c]) : row[m].to = user[c]
        /\ \A i, j \in DOMAIN queue[c] : i < j =>
              queue[c][i] # queue[c][j] /\ Before(queue[c][i], queue[c][j])

\* Reconnecting delivers: a flush comes to its end or the connection does
\* (lines 137-164).
FlushEnds == \A c \in Conns : pc[c] = "flush" ~> pc[c] \in {"ready", "ended"}

\* Presence heals: the key that the finally block of an old connection deleted is
\* set again while the device stays connected (lines 223-232).
PresenceHeals ==
    \A c \in Conns : sock[c] = "open" ~> sock[c] # "open" \/ online[user[c]]

\* "If the sender is also offline when the recipient reconnects, the ACK2 is
\* itself queued." (README.md:187-188)
Ack2IsKept ==
    \A m \in Messages : row[m] # None /\ row[m].status = "delivered" /\ ~InHand(m) =>
        "delivered" \in told[m]
=============================================================================
