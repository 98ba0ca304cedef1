-------------------------- MODULE SensorCache_proofs --------------------------
(***************************************************************************)
(* Proofs about SensorCache, for any updates, devices and clients, any cap *)
(* on the map and any capacity of the broadcast.                           *)
(***************************************************************************)
EXTENDS SensorCache, FiniteSetTheorems, TLAPS

-----------------------------------------------------------------------------
(* The inductive invariants. *)

CacheTypes ==
  /\ upc \in [Updates -> {"new", "stamped", "inserted", "sent"}]
  /\ stamp \in [Updates -> 0..MaxTime]
  /\ earlier \in [Updates -> SUBSET Updates]

(* The map holds inserted updates under their own device, no more of them  *)
(* than the cap allows.                                                    *)
MapInv ==
  /\ Cached \subseteq Devices
  /\ IsFiniteSet(Cached) /\ Cardinality(Cached) <= MaxSensors
  /\ \A d \in Cached :
       /\ sensors[d] \in Updates /\ DeviceOf[sensors[d]] = d
       /\ upc[sensors[d]] \in {"inserted", "sent"}

(* Whatever had returned when an update began stays returned. *)
EarlierInv == \A u \in Updates : earlier[u] \subseteq Done("sent")

UpdateInv == CacheTypes /\ MapInv /\ EarlierInv /\ NoStaleValue

(* The broadcast holds exactly the updates that were sent. *)
BroadcastInv ==
  /\ broadcast \in Seq(Updates)
  /\ \A u \in Updates : upc[u] = "sent" => \E i \in 1..Len(broadcast) : broadcast[i] = u

StreamInv ==
  /\ streams \subseteq Clients
  /\ position \in [Clients -> Nat]
  /\ \A c \in Clients : position[c] <= Len(broadcast)
  /\ knows \in [Clients -> SUBSET Updates]
  /\ must_poll \in [Clients -> BOOLEAN]

ClientInv == CacheTypes /\ BroadcastInv /\ StreamInv /\ StreamHasNoGap

-----------------------------------------------------------------------------
LEMMA InitInv == Init => UpdateInv /\ ClientInv
<1> SUFFICES ASSUME Init PROVE UpdateInv /\ ClientInv
  OBVIOUS
<1> USE DEF Init
<1>1. CacheTypes
  BY CacheAssumption DEF CacheTypes
<1>2. Cached = {}
  BY DEF Cached
<1>3. MapInv
  BY <1>2, FS_EmptySet, CacheAssumption DEF MapInv
<1>4. EarlierInv /\ NoStaleValue
  BY <1>2 DEF EarlierInv, NoStaleValue
<1>5. BroadcastInv /\ StreamInv
  BY DEF BroadcastInv, StreamInv
<1>6. StreamHasNoGap
  BY DEF StreamHasNoGap
<1> QED
  BY <1>1, <1>3, <1>4, <1>5, <1>6 DEF UpdateInv, ClientInv

LEMMA TypesStep == ASSUME CacheTypes, [Next]_vars PROVE CacheTypes'
<1> USE DEF CacheTypes
<1>1. ASSUME NEW u \in Updates, Stamp(u) PROVE CacheTypes'
  BY <1>1 DEF Stamp, Done
<1>2. ASSUME NEW u \in Updates, Update(u) PROVE CacheTypes'
  BY <1>2 DEF Update
<1>3. ASSUME NEW u \in Updates, Send(u) PROVE CacheTypes'
  BY <1>3 DEF Send
<1>4. ASSUME NEW c \in Clients, Client(c) PROVE CacheTypes'
  BY <1>4 DEF Client, StreamUpdates, ListState, GetState, ReceiveEvent, ReceiveLagged, updateVars
<1>5. CASE UNCHANGED vars
  BY <1>5 DEF vars, updateVars
<1> QED
  BY <1>1, <1>2, <1>3, <1>4, <1>5 DEF Next, UpdateSensor

-----------------------------------------------------------------------------
(* The map. *)

(* What an insertion keeps of the map leaves room for one more sensor. *)
LEMMA KeptHasRoom ==
  ASSUME MapInv, NEW d \in Devices, NEW kept \in Kept(d)
  PROVE  /\ kept \subseteq Cached /\ IsFiniteSet(kept \cup {d})
         /\ Cardinality(kept \cup {d}) <= MaxSensors
<1>1. /\ IsFiniteSet(Cached) /\ Cardinality(Cached) \in Nat
      /\ Cardinality(Cached) <= MaxSensors /\ MaxSensors \in Nat
  BY FS_CardinalityType, CacheAssumption DEF MapInv
<1>2. CASE Crowded(d)
  <2>1. PICK old \in Cached : kept = Cached \ {old}
    BY <1>2 DEF Kept, Oldest
  <2>2. IsFiniteSet(kept) /\ Cardinality(kept) = Cardinality(Cached) - 1
    BY <1>1, <2>1, FS_RemoveElement
  <2>3. d \notin kept
    BY <1>2, <2>1 DEF Crowded
  <2>4. IsFiniteSet(kept \cup {d}) /\ Cardinality(kept \cup {d}) = Cardinality(kept) + 1
    BY <2>2, <2>3, FS_AddElement
  <2> QED
    BY <1>1, <2>1, <2>2, <2>4
<1>3. CASE ~Crowded(d)
  <2>1. kept = Cached
    BY <1>3 DEF Kept
  <2>2. CASE d \in Cached
    <3>1. kept \cup {d} = Cached
      BY <2>1, <2>2
    <3> QED
      BY <1>1, <2>1, <3>1
  <2>3. CASE d \notin Cached
    <3>1. Cardinality(Cached) < MaxSensors
      BY <1>1, <1>3, <2>3 DEF Crowded
    <3>2. IsFiniteSet(Cached \cup {d}) /\ Cardinality(Cached \cup {d}) = Cardinality(Cached) + 1
      BY <1>1, <2>3, FS_AddElement
    <3> QED
      BY <1>1, <2>1, <3>1, <3>2
  <2> QED
    BY <2>2, <2>3
<1> QED
  BY <1>2, <1>3

LEMMA UpdateStep ==
  ASSUME UpdateInv, NEW u \in Updates, Update(u)
  PROVE  MapInv' /\ EarlierInv' /\ NoStaleValue'
<1> DEFINE d == DeviceOf[u]
<1>1. d \in Devices
  BY CacheAssumption
<1>2. /\ upc[u] = "stamped" /\ upc' = [upc EXCEPT ![u] = "inserted"]
      /\ UNCHANGED earlier /\ upc \in [Updates -> {"new", "stamped", "inserted", "sent"}]
      /\ earlier \in [Updates -> SUBSET Updates]
  BY DEF Update, UpdateInv, CacheTypes
<1>3. PICK kept \in Kept(d) :
        sensors' = [e \in kept \cup {d} |-> IF e = d THEN u ELSE sensors[e]]
  BY DEF Update, Insert
<1>4. /\ kept \subseteq Cached /\ IsFiniteSet(kept \cup {d})
      /\ Cardinality(kept \cup {d}) <= MaxSensors
  BY <1>1, KeptHasRoom DEF UpdateInv
<1>5. Cached' = kept \cup {d}
  BY <1>3 DEF Cached
<1>6. \A e \in Cached' : sensors'[e] = IF e = d THEN u ELSE sensors[e]
  BY <1>3, <1>5
<1>7. \A e \in Cached' : e # d => e \in Cached
  BY <1>4, <1>5
<1>8. MapInv'
  <2>1. Cached' \subseteq Devices /\ IsFiniteSet(Cached') /\ Cardinality(Cached') <= MaxSensors
    BY <1>1, <1>4, <1>5 DEF UpdateInv, MapInv
  <2>2. ASSUME NEW e \in Cached'
        PROVE  /\ sensors'[e] \in Updates /\ DeviceOf[sensors'[e]] = e
               /\ upc'[sensors'[e]] \in {"inserted", "sent"}
    BY <1>2, <1>6, <1>7 DEF UpdateInv, MapInv
  <2> QED
    BY <2>1, <2>2 DEF MapInv
<1>9. EarlierInv'
  BY <1>2 DEF UpdateInv, EarlierInv, Done
<1>10. NoStaleValue'
  <2> SUFFICES ASSUME NEW e \in Cached', NEW v \in Updates,
                      upc'[v] \in {"inserted", "sent"}, DeviceOf[v] = e
               PROVE  sensors'[e] \notin earlier[v]
    BY <1>2 DEF NoStaleValue
  <2>1. CASE e = d
    <3>1. sensors'[e] = u
      BY <1>6, <2>1
    <3>2. u \notin earlier[v]
      BY <1>2 DEF UpdateInv, EarlierInv, Done
    <3> QED
      BY <3>1, <3>2
  <2>2. CASE e # d
    <3>1. sensors'[e] = sensors[e] /\ e \in Cached /\ v # u
      BY <1>6, <1>7, <2>2
    <3>2. upc[v] \in {"inserted", "sent"}
      BY <1>2, <3>1
    <3> QED
      BY <3>1, <3>2 DEF UpdateInv, NoStaleValue
  <2> QED
    BY <2>1, <2>2
<1> QED
  BY <1>8, <1>9, <1>10

LEMMA UpdateInvStep == ASSUME UpdateInv, [Next]_vars PROVE UpdateInv'
<1>1. CacheTypes'
  BY TypesStep DEF UpdateInv
<1>2. ASSUME NEW u \in Updates, Stamp(u) PROVE MapInv' /\ EarlierInv' /\ NoStaleValue'
  <2>1. /\ upc[u] = "new" /\ upc' = [upc EXCEPT ![u] = "stamped"]
        /\ earlier' = [earlier EXCEPT ![u] = Done("sent")]
        /\ UNCHANGED sensors /\ Cached' = Cached
    BY <1>2 DEF Stamp, Cached
  <2>2. MapInv'
    BY <2>1 DEF UpdateInv, CacheTypes, MapInv
  <2>3. EarlierInv'
    BY <2>1 DEF UpdateInv, CacheTypes, EarlierInv, Done
  <2>4. NoStaleValue'
    BY <2>1 DEF UpdateInv, CacheTypes, NoStaleValue
  <2> QED
    BY <2>2, <2>3, <2>4
<1>3. ASSUME NEW u \in Updates, Send(u) PROVE MapInv' /\ EarlierInv' /\ NoStaleValue'
  <2>1. /\ upc[u] = "inserted" /\ upc' = [upc EXCEPT ![u] = "sent"]
        /\ UNCHANGED <<earlier, sensors>> /\ Cached' = Cached
    BY <1>3 DEF Send, Cached
  <2>2. MapInv'
    BY <2>1 DEF UpdateInv, CacheTypes, MapInv
  <2>3. EarlierInv'
    BY <2>1 DEF UpdateInv, CacheTypes, EarlierInv, Done
  <2>4. NoStaleValue'
    BY <2>1 DEF UpdateInv, CacheTypes, NoStaleValue
  <2> QED
    BY <2>2, <2>3, <2>4
<1>4. ASSUME UNCHANGED updateVars PROVE MapInv' /\ EarlierInv' /\ NoStaleValue'
  <2>1. UNCHANGED <<upc, sensors, earlier>> /\ Cached' = Cached
    BY <1>4 DEF updateVars, Cached
  <2> QED
    BY <2>1 DEF UpdateInv, MapInv, EarlierInv, NoStaleValue, Done
<1>5. ASSUME NEW c \in Clients, Client(c) PROVE UNCHANGED updateVars
  BY <1>5 DEF Client, StreamUpdates, ListState, GetState, ReceiveEvent, ReceiveLagged
<1>6. MapInv' /\ EarlierInv' /\ NoStaleValue'
  BY <1>2, <1>3, <1>4, <1>5, UpdateStep DEF Next, UpdateSensor, vars
<1> QED
  BY <1>1, <1>6 DEF UpdateInv

(* Whatever the workers interleave, an overtaken value does not come back. *)
THEOREM NoStaleValueIsCached == Spec => []NoStaleValue
<1>1. Init => UpdateInv
  BY InitInv
<1>2. UpdateInv /\ [Next]_vars => UpdateInv'
  BY UpdateInvStep
<1>3. UpdateInv => NoStaleValue
  BY DEF UpdateInv
<1> QED
  BY <1>1, <1>2, <1>3, PTL DEF Spec

-----------------------------------------------------------------------------
(* The streams. *)

LEMMA SendStep ==
  ASSUME ClientInv, NEW u \in Updates, Send(u)
  PROVE  BroadcastInv' /\ StreamInv' /\ StreamHasNoGap'
<1>1. /\ upc' = [upc EXCEPT ![u] = "sent"] /\ broadcast' = Append(broadcast, u)
      /\ UNCHANGED <<streams, position, knows, must_poll>>
  BY DEF Send, clientVars
<1>2. /\ broadcast \in Seq(Updates) /\ Len(broadcast) \in Nat
      /\ upc \in [Updates -> {"new", "stamped", "inserted", "sent"}]
      /\ position \in [Clients -> Nat]
  BY DEF ClientInv, CacheTypes, BroadcastInv, StreamInv
<1>3. /\ broadcast' \in Seq(Updates) /\ Len(broadcast') = Len(broadcast) + 1
      /\ broadcast'[Len(broadcast) + 1] = u
      /\ \A i \in 1..Len(broadcast) : broadcast'[i] = broadcast[i]
  BY <1>1, <1>2
<1>4. BroadcastInv'
  <2> SUFFICES ASSUME NEW v \in Updates, upc'[v] = "sent"
               PROVE  \E i \in 1..Len(broadcast') : broadcast'[i] = v
    BY <1>3 DEF BroadcastInv
  <2>1. CASE v = u
    BY <1>2, <1>3, <2>1
  <2>2. CASE v # u
    <3>1. PICK i \in 1..Len(broadcast) : broadcast[i] = v
      BY <1>1, <1>2, <2>2 DEF ClientInv, BroadcastInv
    <3> QED
      BY <1>2, <1>3, <3>1
  <2> QED
    BY <2>1, <2>2
<1>5. StreamInv'
  BY <1>1, <1>2, <1>3 DEF ClientInv, StreamInv
<1>6. StreamHasNoGap'
  <2> SUFFICES ASSUME NEW c \in Clients, NEW v \in Updates, upc'[v] = "sent", c \in streams,
                      v \notin knows[c], ~must_poll[c]
               PROVE  \E i \in (position[c] + 1)..Len(broadcast') : broadcast'[i] = v
    BY <1>1 DEF StreamHasNoGap
  <2>1. position[c] \in Nat /\ position[c] <= Len(broadcast)
    BY DEF ClientInv, StreamInv
  <2>2. CASE v = u
    BY <1>2, <1>3, <2>1, <2>2
  <2>3. CASE v # u
    <3>1. upc[v] = "sent"
      BY <1>1, <1>2, <2>3
    <3>2. PICK i \in (position[c] + 1)..Len(broadcast) : broadcast[i] = v
      BY <3>1 DEF ClientInv, StreamHasNoGap
    <3> QED
      BY <1>2, <1>3, <2>1, <3>2
  <2> QED
    BY <2>2, <2>3
<1> QED
  BY <1>4, <1>5, <1>6

LEMMA ReceiveStep ==
  ASSUME ClientInv, NEW c \in Clients, Client(c)
  PROVE  StreamInv' /\ StreamHasNoGap'
<1> USE DEF ClientInv
<1>1. UNCHANGED <<upc, broadcast>>
  BY DEF Client, StreamUpdates, ListState, GetState, ReceiveEvent, ReceiveLagged, updateVars
<1>2. /\ broadcast \in Seq(Updates) /\ Len(broadcast) \in Nat
      /\ position \in [Clients -> Nat] /\ position[c] \in Nat
      /\ knows \in [Clients -> SUBSET Updates] /\ must_poll \in [Clients -> BOOLEAN]
  BY DEF BroadcastInv, StreamInv
<1>3. CASE StreamUpdates(c)
  <2>1. StreamInv'
    BY <1>1, <1>2, <1>3 DEF StreamUpdates, StreamInv
  <2>2. StreamHasNoGap'
    BY <1>1, <1>2, <1>3 DEF StreamUpdates, StreamHasNoGap
  <2> QED
    BY <2>1, <2>2
<1>4. CASE ListState(c)
  <2>1. StreamInv'
    BY <1>1, <1>2, <1>4 DEF ListState, StreamInv, Done
  <2>2. StreamHasNoGap'
    BY <1>1, <1>2, <1>4 DEF ListState, StreamHasNoGap, Done
  <2> QED
    BY <2>1, <2>2
<1>5. CASE ReceiveEvent(c)
  <2>1. /\ position[c] < Len(broadcast)
        /\ position' = [position EXCEPT ![c] = @ + 1]
        /\ knows' = [knows EXCEPT ![c] = @ \cup {broadcast[position[c] + 1]}]
        /\ UNCHANGED <<streams, must_poll>>
    BY <1>5 DEF ReceiveEvent, Streaming
  <2>2. broadcast[position[c] + 1] \in Updates
    BY <1>2, <2>1
  <2>3. StreamInv'
    BY <1>1, <1>2, <2>1, <2>2 DEF StreamInv
  <2>4. ASSUME NEW q \in Clients, NEW v \in Updates, upc[v] = "sent", q \in streams,
               v \notin knows'[q], ~must_poll[q]
        PROVE  \E i \in (position'[q] + 1)..Len(broadcast) : broadcast[i] = v
    <3>1. v \notin knows[q]
      BY <1>2, <2>1, <2>4
    <3>2. PICK i \in (position[q] + 1)..Len(broadcast) : broadcast[i] = v
      BY <2>4, <3>1 DEF StreamHasNoGap
    <3>3. CASE q = c
      <4>1. i # position[c] + 1
        BY <1>2, <2>1, <2>4, <3>2, <3>3
      <4> QED
        BY <1>2, <2>1, <3>2, <3>3, <4>1
    <3>4. CASE q # c
      BY <1>2, <2>1, <3>2, <3>4
    <3> QED
      BY <3>3, <3>4
  <2> QED
    BY <1>1, <2>1, <2>3, <2>4 DEF StreamHasNoGap
<1>6. CASE ReceiveLagged(c)
  <2>1. /\ Len(broadcast) - position[c] > Lag
        /\ position' = [position EXCEPT ![c] = Len(broadcast) - Lag]
        /\ must_poll' = [must_poll EXCEPT ![c] = TRUE]
        /\ UNCHANGED <<streams, knows>> /\ Lag \in Nat
    BY <1>6, CacheAssumption DEF ReceiveLagged, Lags
  <2>2. StreamInv'
    BY <1>1, <1>2, <2>1 DEF StreamInv
  <2>3. StreamHasNoGap'
    BY <1>1, <1>2, <2>1 DEF StreamHasNoGap
  <2> QED
    BY <2>2, <2>3
<1>7. ASSUME NEW d \in Devices, GetState(c, d) PROVE StreamInv' /\ StreamHasNoGap'
  <2>1. StreamInv'
    BY <1>1, <1>2, <1>7 DEF GetState, StreamInv, Done
  <2>2. StreamHasNoGap'
    BY <1>1, <1>2, <1>7 DEF GetState, StreamHasNoGap
  <2> QED
    BY <2>1, <2>2
<1> QED
  BY <1>3, <1>4, <1>5, <1>6, <1>7 DEF Client

LEMMA ClientInvStep == ASSUME ClientInv, [Next]_vars PROVE ClientInv'
<1>1. CacheTypes'
  BY TypesStep DEF ClientInv
<1>2. ASSUME UNCHANGED <<broadcast, clientVars>>,
             \A u \in Updates : upc'[u] = "sent" => upc[u] = "sent"
      PROVE  BroadcastInv' /\ StreamInv' /\ StreamHasNoGap'
  BY <1>2 DEF ClientInv, BroadcastInv, StreamInv, StreamHasNoGap, clientVars
<1>3. ASSUME NEW u \in Updates, Stamp(u) \/ Update(u)
      PROVE  /\ UNCHANGED <<broadcast, clientVars>>
             /\ \A v \in Updates : upc'[v] = "sent" => upc[v] = "sent"
  BY <1>3 DEF Stamp, Update, ClientInv, CacheTypes
<1>4. ASSUME NEW c \in Clients, Client(c) PROVE BroadcastInv'
  BY <1>4 DEF Client, StreamUpdates, ListState, GetState, ReceiveEvent, ReceiveLagged, updateVars,
              ClientInv, BroadcastInv
<1>5. BroadcastInv' /\ StreamInv' /\ StreamHasNoGap'
  <2>1. CASE \E u \in Updates : UpdateSensor(u)
    BY <2>1, <1>2, <1>3, SendStep DEF UpdateSensor
  <2>2. CASE \E c \in Clients : Client(c)
    BY <2>2, <1>4, ReceiveStep
  <2>3. CASE UNCHANGED vars
    BY <2>3, <1>2 DEF vars, updateVars
  <2> QED
    BY <2>1, <2>2, <2>3 DEF Next
<1> QED
  BY <1>1, <1>5 DEF ClientInv

(* A client that subscribes before it polls never has a gap it is not told *)
(* of, whatever the number of clients and the capacity of the ring.        *)
THEOREM StreamsHaveNoGap == Spec => []StreamHasNoGap
<1>1. Init => ClientInv
  BY InitInv
<1>2. ClientInv /\ [Next]_vars => ClientInv'
  BY ClientInvStep
<1>3. ClientInv => StreamHasNoGap
  BY DEF ClientInv
<1> QED
  BY <1>1, <1>2, <1>3, PTL DEF Spec

(* The map never outgrows its cap, each value is under its own device, and *)
(* no stream is ahead of the broadcast.                                    *)
THEOREM CacheIsTypeCorrect == Spec => []CacheTypeOK
<1>1. Init => UpdateInv /\ ClientInv
  BY InitInv
<1>2. UpdateInv /\ ClientInv /\ [Next]_vars => (UpdateInv /\ ClientInv)'
  BY UpdateInvStep, ClientInvStep
<1>3. ASSUME UpdateInv, ClientInv PROVE CacheTypeOK
  <2>1. CacheTypes /\ MapInv /\ BroadcastInv /\ StreamInv
    BY <1>3 DEF UpdateInv, ClientInv
  <2>2. position \in [Clients -> 0..Len(broadcast)]
    BY <2>1 DEF BroadcastInv, StreamInv
  <2> QED
    BY <2>1, <2>2 DEF CacheTypes, MapInv, BroadcastInv, StreamInv, CacheTypeOK
<1> QED
  BY <1>1, <1>2, <1>3, PTL DEF Spec
=============================================================================
