---------------------------- MODULE Startup_proofs ----------------------------
(* Theorems of module Startup, for every environment.                        *)
EXTENDS Startup, TLAPS

(* What main has passed is done, and only a running source is connected.     *)
CacheReached == {"metrics", "routes", "wal", "workers", "source", "serve", "join_source",
                 "join_workers", "drain"}
RoutesReached == CacheReached \ {"metrics", "routes"}
MetricsReached == CacheReached \ {"metrics"}
WalHeld == {"workers", "source", "serve", "join_source", "join_workers"}
WorkersHeld == WalHeld \ {"workers"}

OrderInv ==
  /\ main \in CacheReached => EnvVar(env, "CACHE_BUFFER", 0) > 0 /\ http # "none"
  /\ main \in MetricsReached => metrics = "runs"
  /\ main \in RoutesReached => RoutesAreGood
  /\ main \in WalHeld => wal = "open" /\ forwarder # "none"
  /\ main \in WorkersHeld => per_worker_cap > 0
  /\ source = "runs" => main \in {"serve", "join_source"}
  /\ connected => source = "runs" /\ client_id \in DOMAIN sessions

LEMMA InitOrder == Init => OrderInv
  BY DEF Init, Off, OrderInv, CacheReached, RoutesReached, MetricsReached, WalHeld, WorkersHeld

LEMMA ExitsOrder == ASSUME NEW how, Exits(how) PROVE OrderInv'
  BY DEF Exits, Disconnects, OrderInv, CacheReached, RoutesReached, MetricsReached, WalHeld,
         WorkersHeld

LEMMA StartOrder ==
  ASSUME OrderInv,
         ReadConfig \/ CreateCache \/ StartMetrics \/ BuildRouter \/ OpenWal \/ StartWorkers
           \/ StartSource
  PROVE OrderInv'
<1> USE DEF OrderInv, Outside, CacheReached, RoutesReached, MetricsReached, WalHeld, WorkersHeld
<1>1. CASE ReadConfig BY <1>1, ExitsOrder DEF ReadConfig
<1>2. CASE CreateCache BY <1>2, ExitsOrder DEF CreateCache, EnvVar, IsSet
<1>3. CASE StartMetrics BY <1>3, ExitsOrder DEF StartMetrics
<1>4. CASE BuildRouter BY <1>4, ExitsOrder DEF BuildRouter, RoutesAreGood
<1>5. CASE OpenWal BY <1>5, ExitsOrder DEF OpenWal, RoutesAreGood
<1>6. CASE StartWorkers BY <1>6, ExitsOrder DEF StartWorkers, RoutesAreGood
<1>7. CASE StartSource BY <1>7 DEF StartSource, RoutesAreGood
<1> QED BY <1>1, <1>2, <1>3, <1>4, <1>5, <1>6, <1>7

LEMMA RunOrder == ASSUME OrderInv, Next PROVE OrderInv'
<1> USE DEF OrderInv, Outside, brokerVars, processVars
<1>1. CASE Main
  <2>1. CASE TaskEnded
    BY <2>1 DEF TaskEnded, GoesTo, RoutesAreGood, CacheReached, RoutesReached, MetricsReached,
                WalHeld, WorkersHeld
  <2>2. CASE JoinSource
    BY <2>2 DEF JoinSource, GoesTo, RoutesAreGood, CacheReached, RoutesReached, MetricsReached,
                WalHeld, WorkersHeld
  <2>3. CASE JoinWorkers
    BY <2>3 DEF JoinWorkers, RoutesAreGood, CacheReached, RoutesReached, MetricsReached,
                WalHeld, WorkersHeld
  <2>4. CASE Drained BY <2>4, ExitsOrder DEF Drained
  <2> QED BY <1>1, <2>1, <2>2, <2>3, <2>4, StartOrder DEF Main
<1>2. CASE Signalled
  BY <1>2 DEF Signalled, GoesTo, RoutesAreGood, CacheReached, RoutesReached, MetricsReached,
              WalHeld, WorkersHeld
<1>3. CASE HttpBinds BY <1>3 DEF HttpBinds, RoutesAreGood
<1>4. CASE ForwarderStarts BY <1>4 DEF ForwarderStarts, RoutesAreGood
<1>5. CASE SourceEnds BY <1>5 DEF SourceEnds, Disconnects, RoutesAreGood
<1>6. CASE Connects BY <1>6 DEF Connects, RoutesAreGood
<1>7. CASE LosesConnection BY <1>7 DEF LosesConnection, Disconnects, RoutesAreGood
<1>8. CASE Killed BY <1>8, ExitsOrder DEF Killed
<1>9. CASE Restart
  BY <1>9 DEF Restart, CacheReached, RoutesReached, MetricsReached, WalHeld, WorkersHeld
<1>10. CASE ClockTicks BY <1>10 DEF ClockTicks, RoutesAreGood
<1>11. ASSUME NEW m \in Messages, Receives(m) PROVE OrderInv'
  BY <1>11 DEF Receives, RoutesAreGood
<1>12. ASSUME NEW m \in Messages, Publish(m) PROVE OrderInv'
  BY <1>12 DEF Publish, RoutesAreGood
<1> QED
  BY <1>1, <1>2, <1>3, <1>4, <1>5, <1>6, <1>7, <1>8, <1>9, <1>10, <1>11, <1>12 DEF Next

LEMMA StutterOrder == ASSUME OrderInv, UNCHANGED vars PROVE OrderInv'
  BY DEF OrderInv, vars, processVars, brokerVars, RoutesAreGood

(* A message is handed over only to a service that is whole, in any          *)
(* environment and at any point of its start and its shutdown.               *)
THEOREM NothingIsTakenUnserved == Spec => []ConnectedIsWhole
<1>1. OrderInv => ConnectedIsWhole
  BY DEF OrderInv, ConnectedIsWhole, CacheReached, RoutesReached, MetricsReached, WalHeld,
         WorkersHeld
<1>2. OrderInv /\ [Next]_vars => OrderInv' BY RunOrder, StutterOrder
<1> QED BY <1>1, <1>2, InitOrder, PTL DEF Spec

-----------------------------------------------------------------------------
(* With a persistent session the broker knows one client id, that of every   *)
(* start, and what waits for the service waits there.                        *)
Id == MqttSession(env, 0)

SessionInv ==
  ~CleanSession(env) =>
    /\ DOMAIN sessions \subseteq {Id}
    /\ source = "runs" => client_id = Id
    /\ main \notin {"config", "exited"} => client_id = Id
    /\ connected => source = "runs"
    /\ owed # {} => Id \in DOMAIN sessions
    /\ \A m \in owed \ taken : m \in sessions[Id]

LEMMA IdIsKept ==
  ASSUME NEW time, ~CleanSession(env) PROVE MqttSession(env, time) = Id
  BY DEF MqttSession, Id

LEMMA IdIsFixed == ASSUME env' = env PROVE Id' = Id /\ CleanSession(env)' = CleanSession(env)
  BY DEF MqttSession, Id, CleanSession, EnvVar, IsSet

LEMMA InitSession == Init => SessionInv
  BY DEF Init, Off, SessionInv

LEMMA ExitsSession == ASSUME SessionInv, NEW how, Exits(how) PROVE SessionInv'
  BY IdIsFixed DEF Exits, Disconnects, SessionInv

LEMMA StepSession == ASSUME SessionInv, Next PROVE SessionInv'
<1> SUFFICES ASSUME ~CleanSession(env)' PROVE SessionInv'
  BY DEF SessionInv
<1> env' = env
  BY DEF Next, Main, ReadConfig, CreateCache, StartMetrics, BuildRouter, OpenWal, StartWorkers,
         StartSource, TaskEnded, JoinSource, JoinWorkers, Drained, Signalled, GoesTo, HttpBinds,
         ForwarderStarts, SourceEnds, Connects, LosesConnection, Killed, Restart, ClockTicks,
         Receives, Publish, Exits, Outside
<1> ~CleanSession(env) /\ Id' = Id
  BY IdIsFixed
<1> USE DEF SessionInv, Outside, brokerVars, processVars
<1>1. CASE ReadConfig BY <1>1, ExitsSession, IdIsKept DEF ReadConfig
<1>2. CASE CreateCache \/ StartMetrics \/ BuildRouter \/ OpenWal \/ StartWorkers
  BY <1>2, ExitsSession DEF CreateCache, StartMetrics, BuildRouter, OpenWal, StartWorkers
<1>3. CASE StartSource BY <1>3 DEF StartSource
<1>4. CASE TaskEnded \/ JoinSource \/ JoinWorkers \/ Drained \/ Signalled
  BY <1>4, ExitsSession DEF TaskEnded, JoinSource, JoinWorkers, Drained, Signalled, GoesTo
<1>5. CASE HttpBinds \/ ForwarderStarts BY <1>5 DEF HttpBinds, ForwarderStarts
<1>6. CASE SourceEnds BY <1>6 DEF SourceEnds, Disconnects
<1>7. CASE Connects BY <1>7 DEF Connects
<1>8. CASE LosesConnection BY <1>8 DEF LosesConnection, Disconnects
<1>9. CASE Killed BY <1>9, ExitsSession DEF Killed
<1>10. CASE Restart \/ ClockTicks BY <1>10 DEF Restart, ClockTicks
<1>11. ASSUME NEW m \in Messages, Receives(m) PROVE SessionInv'
  BY <1>11 DEF Receives
<1>12. ASSUME NEW m \in Messages, Publish(m) PROVE SessionInv'
  BY <1>12 DEF Publish
<1> QED
  BY <1>1, <1>2, <1>3, <1>4, <1>5, <1>6, <1>7, <1>8, <1>9, <1>10, <1>11, <1>12 DEF Next, Main

LEMMA StutterSession == ASSUME SessionInv, UNCHANGED vars PROVE SessionInv'
  BY IdIsFixed DEF SessionInv, vars, processVars, brokerVars

(* However often the service stops, is killed and is started again, what the *)
(* broker has for a persistent session is never out of its reach.            *)
THEOREM PersistentSessionIsResumed == Spec => []SessionIsResumed
<1>1. SessionInv => SessionIsResumed
  BY IdIsKept DEF SessionInv, SessionIsResumed
<1>2. SessionInv /\ [Next]_vars => SessionInv' BY StepSession, StutterSession
<1> QED BY <1>1, <1>2, InitSession, PTL DEF Spec

-----------------------------------------------------------------------------
LEMMA InitTypes == Init => StartupTypeOK
<1> SUFFICES ASSUME Init PROVE StartupTypeOK OBVIOUS
<1>1. now \in 0..MaxTime /\ starts \in 1..MaxStarts /\ per_worker_cap \in Nat
  BY StartupAssumption DEF Init, Off
<1>2. sessions = <<>> /\ DOMAIN sessions = {} BY DEF Init
<1> QED BY <1>1, <1>2 DEF Init, Off, StartupTypeOK, Places

LEMMA DisconnectsTypes ==
  ASSUME StartupTypeOK, Disconnects, UNCHANGED published
  PROVE  /\ connected' \in BOOLEAN
         /\ \A id \in DOMAIN sessions' : sessions'[id] \subseteq published'
<1>1. \A id \in DOMAIN sessions' : id \in DOMAIN sessions /\ sessions'[id] = sessions[id]
  BY DEF Disconnects
<1> QED BY <1>1 DEF Disconnects, StartupTypeOK

LEMMA ExitsTypes ==
  ASSUME StartupTypeOK, NEW how \in {"ok", "error", "killed"}, Exits(how) PROVE StartupTypeOK'
  BY DEF Exits, Disconnects, StartupTypeOK, Places

LEMMA StepTypes == ASSUME StartupTypeOK, OrderInv, Next PROVE StartupTypeOK'
<1> USE DEF StartupTypeOK, Outside, brokerVars, processVars
<1>1. CASE ReadConfig BY <1>1, ExitsTypes DEF ReadConfig, FromEnv, Parses, Places
<1>2. CASE CreateCache \/ StartMetrics \/ BuildRouter \/ OpenWal
  BY <1>2, ExitsTypes DEF CreateCache, StartMetrics, BuildRouter, OpenWal, Places
<1>3. CASE StartWorkers
  <2> DEFINE capacity == EnvVar(env, "INPUT_QUEUE_CAPACITY", 16384)
  <2>1. capacity \in Nat
    BY <1>3, NumbersAssumption DEF StartWorkers, EnvVar, Parses, IsSet, OptionalNumbers
  <2>2. PICK total \in WorkerCounts :
          \/ Exits("error")
          \/ /\ per_worker_cap' = capacity \div total
             /\ main' = "source"
             /\ UNCHANGED <<client_id, http, metrics, forwarder, source, wal, Outside>>
    BY <1>3 DEF StartWorkers
  <2>3. capacity \div total \in Nat BY <2>1, StartupAssumption
  <2> HIDE DEF capacity
  <2> QED BY <1>3, <2>2, <2>3, ExitsTypes DEF StartWorkers, Places, Parses, IsSet
<1>4. CASE StartSource BY <1>4 DEF StartSource, Places
<1>5. CASE TaskEnded \/ JoinSource \/ JoinWorkers \/ Drained \/ Signalled
  BY <1>5, ExitsTypes DEF TaskEnded, JoinSource, JoinWorkers, Drained, Signalled, GoesTo, Places
<1>6. CASE HttpBinds \/ ForwarderStarts BY <1>6 DEF HttpBinds, ForwarderStarts
<1>7. CASE SourceEnds
  <2>1. Disconnects /\ UNCHANGED published BY <1>7 DEF SourceEnds
  <2> QED BY <1>7, <2>1, DisconnectsTypes DEF SourceEnds
<1>8. CASE Connects BY <1>8 DEF Connects
<1>9. CASE LosesConnection
  <2>1. Disconnects /\ UNCHANGED published BY <1>9 DEF LosesConnection
  <2> QED BY <1>9, <2>1, DisconnectsTypes DEF LosesConnection
<1>10. CASE Killed BY <1>10, ExitsTypes DEF Killed
<1>11. CASE Restart \/ ClockTicks BY <1>11, StartupAssumption DEF Restart, ClockTicks, Places
<1>12. ASSUME NEW m \in Messages, Receives(m) PROVE StartupTypeOK'
  BY <1>12 DEF Receives, OrderInv
<1>13. ASSUME NEW m \in Messages, Publish(m) PROVE StartupTypeOK'
  BY <1>13 DEF Publish
<1> QED
  BY <1>1, <1>2, <1>3, <1>4, <1>5, <1>6, <1>7, <1>8, <1>9, <1>10, <1>11, <1>12, <1>13
  DEF Next, Main

LEMMA StutterTypes == ASSUME StartupTypeOK, UNCHANGED vars PROVE StartupTypeOK'
  BY DEF StartupTypeOK, vars, processVars, brokerVars, Parses, IsSet

(* Types, in any environment; past config each number is one.                *)
THEOREM StartupIsTypeCorrect == Spec => []StartupTypeOK
<1>1. StartupTypeOK /\ OrderInv /\ [Next]_vars => StartupTypeOK' /\ OrderInv'
  BY StepTypes, StutterTypes, RunOrder, StutterOrder
<1> QED BY <1>1, InitTypes, InitOrder, PTL DEF Spec
=============================================================================
