-------------------------- MODULE DriverDispatch ---------------------------
(* The driver API of the geo-location lab (C04): the geo index, the heartbeats and *)
(* the status hashes that drivers write, the eviction job, and riders' requests    *)
(* for a match.  Every pipeline is one MULTI; between two calls to Redis anything  *)
(* may happen.                                                                     *)
EXTENDS Integers, FiniteSets

CONSTANTS
  Drivers,
  Riders,
  Rings,       \* 1..n: the search radii 1, 2 and 5 km, a driver's distance as its ring
  VehicleType, \* driver -> vehicle type it sends
  RoadFactor,  \* driver -> its road factor
  Ttl,         \* age of a stale heartbeat
  MaxNow,      \* bound: clock
  MaxUpdates   \* bound: status changes

VARIABLES
  ring,      \* drivers:geo: driver -> ring, 0 without a position
  beat,      \* driver:heartbeats: driver -> time, -1 without
  status,    \* driver:status: driver -> [status, vehicle_type], "" for a missing field
  now,
  updates,
  stale,     \* what the eviction job read and has not removed
  request,   \* rider -> [pc, radius, candidates, match]
  was,       \* rider -> drivers available at some moment of the request
  steady     \* rider -> drivers indexed and available all along it, where they were

vars == <<ring, beat, status, now, updates, stale, request, was, steady>>

NoMatch == "503"

Suits(d) == status[d].vehicle_type \in {"", "UberX"}
Available(d) == status[d].status = "AVAILABLE" /\ Suits(d)

Init ==
  /\ ring = [d \in Drivers |-> 0]
  /\ beat = [d \in Drivers |-> -1]
  /\ status = [d \in Drivers |-> [status |-> "", vehicle_type |-> ""]]
  /\ now = 0
  /\ updates = 0
  /\ stale = {}
  /\ request = [r \in Riders |-> [pc |-> "idle", radius |-> 1, candidates |-> {}, match |-> ""]]
  /\ was = [r \in Riders |-> {}]
  /\ steady = [r \in Riders |-> {}]

\* The drivers' state after a step, as the riders under way see it.
Asking(r) == request[r].pc \in {"search", "status"}
Observe ==
  /\ was' = [r \in Riders |-> IF Asking(r) THEN was[r] \cup {d \in Drivers : Available(d)'} ELSE was[r]]
  /\ steady' = [r \in Riders |-> IF Asking(r) THEN {d \in steady[r] : ring'[d] = ring[d] /\ Available(d)'}
                                 ELSE steady[r]]

Or(field, value) == IF field = "" THEN value ELSE field

\* update_location: position, heartbeat, and the two fields if they are missing.
UpdateLocation(d, z) ==
  /\ ring' = [ring EXCEPT ![d] = z]
  /\ beat' = [beat EXCEPT ![d] = now]
  /\ status' = [status EXCEPT ![d] = [status |-> Or(@.status, "AVAILABLE"),
                                      vehicle_type |-> Or(@.vehicle_type, VehicleType[d])]]
  /\ Observe
  /\ UNCHANGED <<now, updates, stale, request>>

\* update_status.
UpdateStatus(d, new_status) ==
  /\ updates < MaxUpdates /\ updates' = updates + 1
  /\ status' = [status EXCEPT ![d].status = new_status]
  /\ ring' = [ring EXCEPT ![d] = IF new_status = "OFFLINE" THEN 0 ELSE @]
  /\ beat' = [beat EXCEPT ![d] = CASE new_status = "OFFLINE" -> -1
                                   [] new_status = "AVAILABLE" -> now
                                   [] OTHER -> @]
  /\ Observe
  /\ UNCHANGED <<now, stale, request>>

\* evict_stale, the range scan.
ScanStale ==
  /\ stale = {}
  /\ stale' = {d \in Drivers : beat[d] \in 0..(now - Ttl)}
  /\ stale' # {}
  /\ UNCHANGED <<ring, beat, status, now, updates, request, was, steady>>

\* Mutation: the heartbeat goes and the position stays.
EvictHeartbeatsOnly ==
  /\ stale # {} /\ stale' = {}
  /\ beat' = [d \in Drivers |-> IF d \in stale THEN -1 ELSE beat[d]]
  /\ status' = [d \in Drivers |-> IF d \in stale THEN [status[d] EXCEPT !.status = "OFFLINE"] ELSE status[d]]
  /\ UNCHANGED ring
  /\ Observe
  /\ UNCHANGED <<now, updates, request>>

\* evict_stale, the removal.
Evict ==
  /\ stale # {} /\ stale' = {}
  /\ beat' = [d \in Drivers |-> IF d \in stale THEN -1 ELSE beat[d]]
  /\ ring' = [d \in Drivers |-> IF d \in stale THEN 0 ELSE ring[d]]
  /\ status' = [d \in Drivers |-> IF d \in stale THEN [status[d] EXCEPT !.status = "OFFLINE"] ELSE status[d]]
  /\ Observe
  /\ UNCHANGED <<now, updates, request>>

\* A rider asks for an UberX.
AskMatch(r) ==
  /\ request[r].pc = "idle"
  /\ request' = [request EXCEPT ![r].pc = "search"]
  /\ was' = [was EXCEPT ![r] = {d \in Drivers : Available(d)}]
  /\ steady' = [steady EXCEPT ![r] = {d \in Drivers : ring[d] # 0 /\ Available(d)}]
  /\ UNCHANGED <<ring, beat, status, now, updates, stale>>

Answer(r, match) == [request EXCEPT ![r] = [@ EXCEPT !.pc = "done", !.match = match]]
\* The next radius, or 503 after the last.
Widen(r) ==
  IF request[r].radius + 1 \in Rings
  THEN [request EXCEPT ![r].pc = "search", ![r].radius = @ + 1]
  ELSE Answer(r, NoMatch)

\* match_driver, GEOSEARCH: the drivers within the radius with their distances.
Search(r) ==
  LET found == {<<d, ring[d]>> : d \in {e \in Drivers : ring[e] \in 1..request[r].radius}}
  IN  /\ request[r].pc = "search"
      /\ request' = IF found = {} THEN Widen(r)
                    ELSE [request EXCEPT ![r] = [@ EXCEPT !.pc = "status", !.candidates = found]]
      /\ UNCHANGED <<ring, beat, status, now, updates, stale, was, steady>>

\* What eta_minutes orders candidates by; it rounds to a tenth of a minute.
Eta(candidate) == candidate[2] * RoadFactor[candidate[1]]

\* Mutation: the search stops at the first radius with a candidate.
RankOrRefuse(r) ==
  LET available == {c \in request[r].candidates : Available(c[1])}
  IN  /\ request[r].pc = "status"
      /\ IF available = {} THEN request' = Answer(r, NoMatch)
         ELSE \E best \in available : /\ \A c \in available : Eta(best) <= Eta(c)
                                      /\ request' = Answer(r, best[1])
      /\ UNCHANGED <<ring, beat, status, now, updates, stale, was, steady>>

\* match_driver, the status pipeline: the available candidate with the least ETA.
Rank(r) ==
  LET available == {c \in request[r].candidates : Available(c[1])}
  IN  /\ request[r].pc = "status"
      /\ IF available = {} THEN request' = Widen(r)
         ELSE \E best \in available : /\ \A c \in available : Eta(best) <= Eta(c)
                                      /\ request' = Answer(r, best[1])
      /\ UNCHANGED <<ring, beat, status, now, updates, stale, was, steady>>

Passes ==
  /\ now < MaxNow /\ now' = now + 1
  /\ UNCHANGED <<ring, beat, status, updates, stale, request, was, steady>>

\* Drivers report where they are.
Driving == \E d \in Drivers, z \in Rings : UpdateLocation(d, z)

\* Trips begin and end; a driver not heard of for too long is evicted.
DriverStates ==
  \/ \E d \in Drivers, s \in {"AVAILABLE", "ON_TRIP", "OFFLINE"} : UpdateStatus(d, s)
  \/ ScanStale \/ Evict

FindNearest == \E r \in Riders : AskMatch(r) \/ Search(r) \/ Rank(r)

Next == Driving \/ DriverStates \/ Passes \/ FindNearest

Spec == Init /\ [][Next]_vars

TypeOK ==
  /\ ring \in [Drivers -> Rings \cup {0}]
  /\ beat \in [Drivers -> -1..MaxNow]
  /\ stale \subseteq Drivers
  /\ \A r \in Riders : request[r].match \in Drivers \cup {"", NoMatch}

\* Whatever races, a driver in the geo index has a heartbeat, so the eviction job finds it.
IndexedHaveHeartbeats == \A d \in Drivers : ring[d] # 0 => beat[d] # -1
\* A match is one of the candidates of the last search, was available at some moment of the
\* request, and no candidate that was there for the whole of it has a shorter ETA; a driver
\* that was there for the whole of it is never answered with 503, the radius grows past the
\* busy candidates.  How fresh a match's heartbeat is, or where it is by now, nobody promises.
MatchesAreReal ==
  \A r \in Riders : request[r].pc = "done" =>
     IF request[r].match = NoMatch THEN steady[r] = {}
     ELSE /\ request[r].match \in was[r]
          /\ \E best \in request[r].candidates :
               /\ best[1] = request[r].match
               /\ \A c \in request[r].candidates : c[1] \in steady[r] => Eta(best) <= Eta(c)
\* The index and the dispatch under every interleaving of drivers, riders and eviction.
DispatchIsSound == IndexedHaveHeartbeats /\ MatchesAreReal

\* README.md:531: "the next GEOADD restores their position and a heartbeat update moves
\* their status back to AVAILABLE".  A driver that was evicted, and has not touched its
\* status itself, is available once its position is back; the code writes the status only
\* when the field is missing (app.py:80).
HeartbeatBringsBack ==
  updates = 0 => \A d \in Drivers : ring[d] # 0 /\ beat[d] = now => status[d].status = "AVAILABLE"
===================================================================================
