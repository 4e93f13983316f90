------------------------------ MODULE MCLiveness ------------------------------
(* What must happen in the chat server and the circuit breaker, for TLC, one   *)
(* at a time: `lab' picks the one that runs and the other stands still.        *)
EXTENDS CircuitBreaker

CONSTANTS Users, Messages, Conns, MaxSends, MaxFaults, None   \* of WhatsAppServer

VARIABLES
    lab, sock, chatPc, user, queue, cur, connected, online, row, stored,
    inbox, told, sends, faults

chatVars == <<sock, chatPc, user, queue, cur, connected, online, row, stored,
              inbox, told, sends, faults>>

Chat == INSTANCE WhatsAppServer WITH pc <- chatPc

MCInit == lab \in {"breaker", "chat"} /\ Init /\ Chat!Init

MCNext ==
    /\ UNCHANGED lab
    /\ IF lab = "breaker" THEN Next ELSE UNCHANGED vars
    /\ IF lab = "chat" THEN Chat!Next ELSE UNCHANGED chatVars

\* The breaker's threads go on, time passes and the program keeps calling; the
\* event loop resumes a task whose await is over, and a device that is
\* connected sends its heartbeats.
MCFairSpec ==
    /\ MCInit /\ [][MCNext]_<<lab, vars, chatVars>>
    /\ WF_vars(lab = "breaker" /\ Cooldown)
    /\ \A t \in Threads : WF_vars(lab = "breaker" /\ Step(t))
    /\ \A c \in Conns :
          /\ WF_chatVars(lab = "chat" /\ Chat!Task(c))
          /\ WF_chatVars(lab = "chat" /\ Chat!Heartbeat(c))

\* What was cut off heals: a breaker whose downstream has recovered closes for
\* good, a flush ends or its connection does, and the presence key that an old
\* connection's finally deleted is set again (CircuitBreaker, ws_server.py).  The
\* entry of connected_users that it popped is not: only a new register sets one.
EverythingHeals ==
    EventuallyCloses /\ Chat!FlushEnds /\ Chat!PresenceHeals
=============================================================================
