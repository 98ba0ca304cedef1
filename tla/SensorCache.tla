------------------------------ MODULE SensorCache ------------------------------
(***************************************************************************)
(* CacheState: the latest value of each sensor in a map behind a lock, and *)
(* a broadcast of every update to the SSE streams. Workers update it from  *)
(* several tasks: update_sensor reads the clock, changes the map under the *)
(* write lock and broadcasts after it has released it. Clients of the HTTP *)
(* API do what the documentation asks of them: subscribe to the stream,    *)
(* then poll the state, and poll again when told that they lag.            *)
(***************************************************************************)
EXTENDS Naturals, Sequences, FiniteSets

CONSTANTS
  Updates,     \* calls of update_sensor
  Clients,     \* open SSE streams
  Devices,     \* the ids, trimmed and in lower case
  DeviceOf,    \* normalize_device_id of what an update names
  MaxSensors,  \* CACHE_BUFFER, the bound on the map and
  Lag,         \* the broadcast channel's capacity: CACHE_BUFFER rounded up
  MaxTime      \* bounds the clock readings

ASSUME CacheAssumption ==
  /\ DeviceOf \in [Updates -> Devices]
  /\ MaxSensors \in Nat \ {0} /\ Lag \in Nat \ {0} /\ Lag >= MaxSensors
  /\ MaxTime \in Nat

VARIABLES
  upc,       \* of each update: new, stamped, inserted or sent
  stamp,     \* its last_seen_ms
  sensors,   \* the map: a function from the cached devices to updates
  broadcast, \* the events sent so far
  streams,   \* the clients with an open stream
  position,  \* of each stream: how many of the events it has passed
  knows,     \* history: updates a client got as event or in a polled state
  must_poll, \* the client has been told to poll, or has just subscribed
  earlier    \* history: the updates that had returned when this one began

updateVars == <<upc, stamp, sensors, broadcast, earlier>>
clientVars == <<streams, position, knows, must_poll>>
vars == <<updateVars, clientVars>>

Cached == DOMAIN sensors
Done(place) == {u \in Updates : upc[u] = place}

CacheTypeOK ==
  /\ upc \in [Updates -> {"new", "stamped", "inserted", "sent"}]
  /\ stamp \in [Updates -> 0..MaxTime]
  /\ Cached \subseteq Devices /\ Cardinality(Cached) <= MaxSensors
  /\ \A d \in Cached : sensors[d] \in Updates /\ DeviceOf[sensors[d]] = d
  /\ broadcast \in Seq(Updates)
  /\ streams \subseteq Clients
  /\ position \in [Clients -> 0..Len(broadcast)]
  /\ knows \in [Clients -> SUBSET Updates]
  /\ must_poll \in [Clients -> BOOLEAN]
  /\ earlier \in [Updates -> SUBSET Updates]

Init ==
  /\ upc = [u \in Updates |-> "new"]
  /\ stamp = [u \in Updates |-> 0]
  /\ sensors = << >>
  /\ broadcast = << >>
  /\ streams = {}
  /\ position = [c \in Clients |-> 0]
  /\ knows = [c \in Clients |-> {}]
  /\ must_poll = [c \in Clients |-> FALSE]
  /\ earlier = [u \in Updates |-> {}]

-----------------------------------------------------------------------------
(* now_ms reads the wall clock, which may also step back. *)
Stamp(u) ==
  /\ upc[u] = "new"
  /\ upc' = [upc EXCEPT ![u] = "stamped"]
  /\ \E t \in 0..MaxTime : stamp' = [stamp EXCEPT ![u] = t]
  /\ earlier' = [earlier EXCEPT ![u] = Done("sent")]
  /\ UNCHANGED <<sensors, broadcast, clientVars>>

(* Mutant of Crowded: off by one at the cap. *)
CrowdedBeyond(d) == d \notin Cached /\ Cardinality(Cached) > MaxSensors

Crowded(d) == d \notin Cached /\ Cardinality(Cached) >= MaxSensors

(* The keys that min_by_key may return, in any order of the hash map. *)
Oldest == {d \in Cached : \A e \in Cached : stamp[sensors[d]] <= stamp[sensors[e]]}

Kept(d) == IF Crowded(d) THEN {Cached \ {old} : old \in Oldest} ELSE {Cached}

(* Mutant of Insert: a value that is newer by its stamp is not replaced. *)
InsertIfNewer(u) ==
  LET d == DeviceOf[u] IN
  IF d \in Cached /\ stamp[sensors[d]] > stamp[u]
  THEN UNCHANGED sensors
  ELSE \E kept \in Kept(d) :
         sensors' = [e \in kept \cup {d} |-> IF e = d THEN u ELSE sensors[e]]

Insert(u) ==
  LET d == DeviceOf[u] IN
  \E kept \in Kept(d) :
    sensors' = [e \in kept \cup {d} |-> IF e = d THEN u ELSE sensors[e]]

(* The critical section of the write lock. *)
Update(u) ==
  /\ upc[u] = "stamped"
  /\ Insert(u)
  /\ upc' = [upc EXCEPT ![u] = "inserted"]
  /\ UNCHANGED <<stamp, broadcast, earlier, clientVars>>

Send(u) ==
  /\ upc[u] = "inserted"
  /\ broadcast' = Append(broadcast, u)
  /\ upc' = [upc EXCEPT ![u] = "sent"]
  /\ UNCHANGED <<stamp, sensors, earlier, clientVars>>

-----------------------------------------------------------------------------
(* GET /v1/stream: the stream starts at the end of what has been sent. *)
StreamUpdates(c) ==
  /\ c \notin streams
  /\ streams' = streams \cup {c}
  /\ position' = [position EXCEPT ![c] = Len(broadcast)]
  /\ must_poll' = [must_poll EXCEPT ![c] = TRUE]
  /\ UNCHANGED <<updateVars, knows>>

(* GET /v1/state/{device_id}, for one device, in whatever spelling. It     *)
(* does not replace the poll of all.                                       *)
GetState(c, d) ==
  /\ knows' = [knows EXCEPT ![c] = @ \cup {u \in Done("inserted") \cup Done("sent") :
                                            DeviceOf[u] = d}]
  /\ UNCHANGED <<updateVars, streams, position, must_poll>>

(* GET /v1/state, a snapshot under the read lock. What it leaves out is    *)
(* evicted or overwritten: the client knows the state after these updates. *)
ListState(c) ==
  /\ must_poll[c]
  /\ must_poll' = [must_poll EXCEPT ![c] = FALSE]
  /\ knows' = [knows EXCEPT ![c] = @ \cup Done("inserted") \cup Done("sent")]
  /\ UNCHANGED <<updateVars, streams, position>>

Streaming(c) == c \in streams /\ position[c] < Len(broadcast)
Lags(c) == Len(broadcast) - position[c] > Lag

ReceiveEvent(c) ==
  /\ Streaming(c) /\ ~Lags(c)
  /\ position' = [position EXCEPT ![c] = @ + 1]
  /\ knows' = [knows EXCEPT ![c] = @ \cup {broadcast[position[c] + 1]}]
  /\ UNCHANGED <<updateVars, streams, must_poll>>

(* Mutant of ReceiveLagged: the gap is passed over in silence. *)
ReceiveLaggedSilently(c) ==
  /\ Streaming(c) /\ Lags(c)
  /\ position' = [position EXCEPT ![c] = Len(broadcast) - Lag]
  /\ UNCHANGED <<updateVars, streams, knows, must_poll>>

(* The oldest events are overwritten: the stream says so and goes on with  *)
(* the oldest one that is left.                                            *)
ReceiveLagged(c) ==
  /\ Streaming(c) /\ Lags(c)
  /\ position' = [position EXCEPT ![c] = Len(broadcast) - Lag]
  /\ must_poll' = [must_poll EXCEPT ![c] = TRUE]
  /\ UNCHANGED <<updateVars, streams, knows>>

-----------------------------------------------------------------------------
UpdateSensor(u) == Stamp(u) \/ Update(u) \/ Send(u)
Client(c) ==
  \/ StreamUpdates(c) \/ ListState(c) \/ ReceiveEvent(c) \/ ReceiveLagged(c)
  \/ \E d \in Devices : GetState(c, d)

Next == (\E u \in Updates : UpdateSensor(u)) \/ (\E c \in Clients : Client(c))
Spec == Init /\ [][Next]_vars

-----------------------------------------------------------------------------
(* A value that was overtaken does not come back: once an update of a      *)
(* device has been inserted, the cache shows none that had returned before *)
(* that update began, wherever the clock stepped in between. (Of two       *)
(* updates that overlap, either may stay.)                                 *)
NoStaleValue ==
  \A d \in Cached, u \in Updates :
    (upc[u] \in {"inserted", "sent"} /\ DeviceOf[u] = d) => sensors[d] \notin earlier[u]

(* A client that subscribes and then polls misses nothing: every update    *)
(* that has been broadcast is known to it, is still ahead of it in the     *)
(* stream, or it has been told to poll. The broadcast comes after the      *)
(* insertion, or an update could fall between the two.                     *)
StreamHasNoGap ==
  \A c \in Clients, u \in Updates :
    (upc[u] = "sent" /\ c \in streams) =>
      \/ u \in knows[c] \/ must_poll[c]
      \/ \E i \in (position[c] + 1)..Len(broadcast) : broadcast[i] = u
=============================================================================
