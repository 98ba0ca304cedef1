-------------------------------- MODULE Startup --------------------------------
(***************************************************************************)
(* From the environment to a service that serves, and to its exit:         *)
(* Config::from_env, the order in which main starts its parts, the tasks   *)
(* that can die while it does, the select that waits for an end and the    *)
(* status of the process; over restarts, with the sessions that the broker *)
(* keeps for the client id. The parts themselves are the other modules.    *)
(*                                                                         *)
(* An environment has vars, the variables it sets, each a record of a type *)
(* (number, bool, text, blank) and a value, and topics, what follows       *)
(* MQTT_TOPIC_, with the levels of each filter.                            *)
(***************************************************************************)
EXTENDS TopicPattern, Functions

CONSTANTS
  Environments,
  Usable,         \* addresses that can be bound
  WorkerCounts,   \* what worker_count() can be: within 2..8
  Messages,       \* that are published to the subscribed topics
  MaxStarts,      \* bound on the starts of the process
  MaxTime         \* bound on the clock, in seconds

ASSUME StartupAssumption ==
  /\ WorkerCounts \subseteq Nat \ {0}
  /\ MaxStarts \in Nat \ {0} /\ MaxTime \in Nat

(* A number is a natural one: the text of any other does not parse. *)
ASSUME NumbersAssumption ==
  \A e \in Environments : \A k \in DOMAIN e.vars :
    e.vars[k].type = "number" => e.vars[k].value \in Nat

VARIABLES
  env,             \* the environment, the same at each start
  now,             \* the clock
  starts,
  client_id,       \* of this start
  main,            \* the part that main starts next, serve, or the way out
  http,            \* tasks: none, starting, runs, ended or failed
  metrics, forwarder, source,
  wal,             \* whether the log is open
  per_worker_cap,  \* of the queues of the workers; 0 while there are none
  exit,            \* how the last process ended
  connected,       \* the source has a connection and its subscription
  sessions,        \* the broker: client id -> what waits for it
  published, owed, taken   \* messages; owed: published while a session was there

processVars == <<client_id, main, http, metrics, forwarder, source, wal, per_worker_cap>>
brokerVars == <<sessions, published, owed, taken>>
vars == <<env, now, starts, exit, connected, processVars, brokerVars>>

-----------------------------------------------------------------------------
(* Config::from_env *)
Texts == {"INPUT_SOURCE", "MQTT_HOST", "MQTT_CLIENT_ID", "OUTPUT_SINK", "INFLUX_URL",
          "INFLUX_ORG", "INFLUX_BUCKET", "INFLUX_TOKEN", "WAL_DIR", "METRICS_BIND",
          "CACHE_BIND"}
Numbers == {"MQTT_PORT", "BATCH_SIZE", "FLUSH_INTERVAL_MS", "CACHE_TTL_MS", "CACHE_BUFFER"}
Bools == {"ENFORCE_TOPIC_DEVICE_MATCH"}
OptionalNumbers == {"WAL_SEGMENT_BYTES", "WAL_QUEUE_CAPACITY", "INPUT_QUEUE_CAPACITY"}
OptionalBools == {"MQTT_CLEAN_SESSION"}

(* env_var: what is empty once it is trimmed is not set. *)
IsSet(e, k) == k \in DOMAIN e.vars /\ e.vars[k].type # "blank"

Parses(e, k, type) == IsSet(e, k) => e.vars[k].type = type

EnvVar(e, k, default) == IF IsSet(e, k) THEN e.vars[k].value ELSE default

(* Mutant of FromEnv: a number is whatever is set. *)
FromEnvUnparsed(e) ==
  /\ \A k \in Texts \cup Numbers \cup Bools : IsSet(e, k)
  /\ e.vars["INPUT_SOURCE"].value = "mqtt" /\ e.vars["OUTPUT_SINK"].value = "influx"
  /\ DOMAIN e.topics # {}

(* The topics are taken as they stand: not trimmed, an empty one included. *)
FromEnv(e) ==
  /\ \A k \in Texts \cup Numbers \cup Bools : IsSet(e, k)
  /\ \A k \in Numbers \cup OptionalNumbers : Parses(e, k, "number")
  /\ \A k \in Bools \cup OptionalBools : Parses(e, k, "bool")
  /\ e.vars["INPUT_SOURCE"].value = "mqtt" /\ e.vars["OUTPUT_SINK"].value = "influx"
  /\ e.vars["MQTT_PORT"].value < 65536
  /\ DOMAIN e.topics # {}

CleanSession(e) == EnvVar(e, "MQTT_CLEAN_SESSION", TRUE)

(* Mutant of MqttSession: the suffix whatever the session. *)
MqttSessionSuffixed(e, time) == <<EnvVar(e, "MQTT_CLIENT_ID", ""), time>>

(* mqtt_session: a clean session has the time of the start in its id. *)
MqttSession(e, time) ==
  IF CleanSession(e) THEN <<EnvVar(e, "MQTT_CLIENT_ID", ""), time>>
  ELSE <<EnvVar(e, "MQTT_CLIENT_ID", "")>>

-----------------------------------------------------------------------------
Off ==
  /\ http = "none" /\ metrics = "none" /\ forwarder = "none" /\ source = "none"
  /\ wal = "closed" /\ per_worker_cap = 0 /\ connected = FALSE /\ client_id = <<>>

Init ==
  /\ env \in Environments /\ now = 0 /\ starts = 1
  /\ main = "config" /\ Off /\ exit = "none"
  /\ sessions = <<>> /\ published = {} /\ owed = {} /\ taken = {}

(* The broker forgets a clean session with its connection. *)
Disconnects ==
  /\ connected' = FALSE
  /\ sessions' = IF connected /\ CleanSession(env)
                 THEN [id \in DOMAIN sessions \ {client_id} |-> sessions[id]] ELSE sessions

(* The process ends, and its tasks with it. *)
Exits(how) ==
  /\ main' = "exited" /\ exit' = how
  /\ http' = "none" /\ metrics' = "none" /\ forwarder' = "none" /\ source' = "none"
  /\ wal' = "closed" /\ per_worker_cap' = 0 /\ client_id' = <<>>
  /\ Disconnects
  /\ UNCHANGED <<env, now, starts, published, owed, taken>>

Outside == <<env, now, starts, exit, connected, brokerVars>>

-----------------------------------------------------------------------------
(* main, to the select. An error that ? returns and a panic of main end    *)
(* the process alike.                                                      *)
ReadConfig ==
  /\ main = "config"
  /\ \/ ~FromEnv(env) /\ Exits("error")
     \/ /\ FromEnv(env)
        /\ client_id' = MqttSession(env, now)
        /\ main' = "cache"
        /\ UNCHANGED <<http, metrics, forwarder, source, wal, per_worker_cap, Outside>>

(* The broadcast channel of the cache panics on a capacity of zero. *)
CreateCache ==
  /\ main = "cache"
  /\ \/ EnvVar(env, "CACHE_BUFFER", 0) = 0 /\ Exits("error")
     \/ /\ EnvVar(env, "CACHE_BUFFER", 0) > 0
        /\ http' = "starting"
        /\ main' = "metrics"
        /\ UNCHANGED <<client_id, metrics, forwarder, source, wal, per_worker_cap, Outside>>

Binds(k, other, taker) ==
  /\ EnvVar(env, k, "") \in Usable
  /\ taker = "runs" => EnvVar(env, k, "") # EnvVar(env, other, "")

StartMetrics ==
  /\ main = "metrics"
  /\ \/ ~Binds("METRICS_BIND", "CACHE_BIND", http) /\ Exits("error")
     \/ /\ Binds("METRICS_BIND", "CACHE_BIND", http)
        /\ metrics' = "runs"
        /\ main' = "routes"
        /\ UNCHANGED <<client_id, http, forwarder, source, wal, per_worker_cap, Outside>>

RoutesAreGood ==
  /\ \A k \in DOMAIN env.topics \cap {"SENSOR", "STATUS"} : IsPattern(env.topics[k])
  /\ "DLQ" \in DOMAIN env.topics

BuildRouter ==
  /\ main = "routes"
  /\ \/ ~RoutesAreGood /\ Exits("error")
     \/ /\ RoutesAreGood
        /\ main' = "wal"
        /\ UNCHANGED <<client_id, http, metrics, forwarder, source, wal, per_worker_cap,
                       Outside>>

(* Wal::open may fail (WalSystem), and so may building the HTTP client of  *)
(* the sink.                                                               *)
OpenWal ==
  /\ main = "wal"
  /\ \/ Exits("error")
     \/ /\ wal' = "open" /\ forwarder' = "starting"
        /\ main' = "workers"
        /\ UNCHANGED <<client_id, http, metrics, source, per_worker_cap, Outside>>

(* A queue of no places panics. *)
StartWorkers ==
  /\ main = "workers"
  /\ \E total \in WorkerCounts :
       LET cap == EnvVar(env, "INPUT_QUEUE_CAPACITY", 16384) \div total IN
       \/ cap = 0 /\ Exits("error")
       \/ /\ cap > 0
          /\ per_worker_cap' = cap
          /\ main' = "source"
          /\ UNCHANGED <<client_id, http, metrics, forwarder, source, wal, Outside>>

StartSource ==
  /\ main = "source"
  /\ source' = "runs"
  /\ main' = "serve"
  /\ UNCHANGED <<client_id, http, metrics, forwarder, wal, per_worker_cap, Outside>>

-----------------------------------------------------------------------------
(* Tasks *)
HttpBinds ==
  /\ http = "starting"
  /\ http' = IF Binds("CACHE_BIND", "METRICS_BIND", metrics) THEN "runs" ELSE "failed"
  /\ UNCHANGED <<client_id, main, metrics, forwarder, source, wal, per_worker_cap, Outside>>

(* A ticker without a period panics; nobody looks at the forwarder before  *)
(* the drain.                                                              *)
ForwarderStarts ==
  /\ forwarder = "starting"
  /\ forwarder' = IF EnvVar(env, "FLUSH_INTERVAL_MS", 0) = 0 THEN "failed" ELSE "runs"
  /\ UNCHANGED <<client_id, main, http, metrics, source, wal, per_worker_cap, Outside>>

(* The source alone connects. Its subscription is MqttSource; a clean      *)
(* session begins empty, a kept one goes on.                               *)
Connects ==
  /\ source = "runs" /\ ~connected
  /\ connected' = TRUE
  /\ sessions' = [id \in DOMAIN sessions \cup {client_id} |->
                    IF id \in DOMAIN sessions /\ ~(id = client_id /\ CleanSession(env))
                    THEN sessions[id] ELSE {}]
  /\ UNCHANGED <<env, now, starts, exit, processVars, published, owed, taken>>

LosesConnection ==
  /\ connected /\ Disconnects
  /\ UNCHANGED <<env, now, starts, exit, processVars, published, owed, taken>>

Receives(m) ==
  /\ connected /\ m \in sessions[client_id]
  /\ taken' = taken \cup {m}
  /\ sessions' = [sessions EXCEPT ![client_id] = @ \ {m}]
  /\ UNCHANGED <<env, now, starts, exit, connected, processVars, published, owed>>

ShuttingDown == main \in {"join_source", "join_workers", "drain"}

(* The source ends on the signal, or panics. *)
SourceEnds ==
  /\ source = "runs"
  /\ \/ ShuttingDown /\ source' = "ended"
     \/ source' = "failed"
  /\ Disconnects
  /\ UNCHANGED <<env, now, starts, exit, client_id, main, http, metrics, forwarder, wal,
                 per_worker_cap, published, owed, taken>>

-----------------------------------------------------------------------------
(* main, from the select. *)
GoesTo(place) ==
  /\ main' = place
  /\ UNCHANGED <<client_id, http, metrics, forwarder, source, wal, per_worker_cap, Outside>>

Signalled == main = "serve" /\ GoesTo("join_source")

(* Mutant of TaskEnded: the task of the HTTP server is not looked at. *)
SourceEnded == main = "serve" /\ source = "failed" /\ GoesTo("join_source")

(* Before the signal the source ends in no other way than a panic. *)
TaskEnded ==
  /\ main = "serve"
  /\ http = "failed" \/ source = "failed"
  /\ GoesTo("join_source")

(* Mutant of JoinSource: main does not wait. *)
JoinNothing == main = "join_source" /\ GoesTo("join_workers")

JoinSource ==
  /\ main = "join_source"
  /\ source \in {"ended", "failed"}
  /\ GoesTo("join_workers")

(* The workers leave (Ingestion), then the pipeline and the log are        *)
(* dropped.                                                                *)
JoinWorkers ==
  /\ main = "join_workers"
  /\ per_worker_cap' = 0 /\ wal' = "closed"
  /\ main' = "drain"
  /\ UNCHANGED <<client_id, http, metrics, forwarder, source, Outside>>

(* Mutant of Drained: what the source returned is forgotten. *)
DrainedWell == main = "drain" /\ Exits("ok")

(* The forwarder ends, has failed, or is aborted after five seconds. *)
Drained ==
  /\ main = "drain"
  /\ Exits(IF source = "failed" THEN "error" ELSE "ok")

Main ==
  \/ ReadConfig \/ CreateCache \/ StartMetrics \/ BuildRouter \/ OpenWal
  \/ StartWorkers \/ StartSource
  \/ TaskEnded \/ JoinSource \/ JoinWorkers \/ Drained

-----------------------------------------------------------------------------
(* Outside the process *)
Killed == main # "exited" /\ Exits("killed")

(* The container is restarted, with the same environment. *)
Restart ==
  /\ main = "exited" /\ starts < MaxStarts
  /\ starts' = starts + 1
  /\ main' = "config"
  /\ UNCHANGED <<env, now, exit, connected, brokerVars, client_id, http, metrics, forwarder,
                 source, wal, per_worker_cap>>

ClockTicks ==
  /\ now < MaxTime
  /\ now' = now + 1
  /\ UNCHANGED <<env, starts, exit, connected, processVars, brokerVars>>

(* A publish goes to each session the broker has. *)
Publish(m) ==
  /\ m \notin published
  /\ published' = published \cup {m}
  /\ owed' = IF DOMAIN sessions = {} THEN owed ELSE owed \cup {m}
  /\ sessions' = [id \in DOMAIN sessions |-> sessions[id] \cup {m}]
  /\ UNCHANGED <<env, now, starts, exit, connected, processVars, taken>>

Next ==
  \/ Main \/ Signalled
  \/ HttpBinds \/ ForwarderStarts \/ SourceEnds \/ Connects \/ LosesConnection
  \/ Killed \/ Restart \/ ClockTicks
  \/ \E m \in Messages : Receives(m) \/ Publish(m)

Spec == Init /\ [][Next]_vars

(* The runtime goes on with main and with each task that can; nobody has   *)
(* to send a signal, to restart the process or to publish.                 *)
FairSpec ==
  /\ Spec
  /\ WF_vars(Main) /\ WF_vars(HttpBinds) /\ WF_vars(ForwarderStarts)
  /\ WF_vars(SourceEnds /\ ShuttingDown)

-----------------------------------------------------------------------------
Places == {"config", "cache", "metrics", "routes", "wal", "workers", "source", "serve",
           "join_source", "join_workers", "drain", "exited"}

(* Types; past config each number is one.                                  *)
StartupTypeOK ==
  /\ main \notin {"config", "exited"} =>
       \A k \in Numbers \cup OptionalNumbers : Parses(env, k, "number")
  /\ env \in Environments /\ now \in 0..MaxTime /\ starts \in 1..MaxStarts
  /\ main \in Places /\ exit \in {"none", "ok", "error", "killed"}
  /\ http \in {"none", "starting", "runs", "failed"} /\ metrics \in {"none", "runs"}
  /\ forwarder \in {"none", "starting", "runs", "failed"}
  /\ source \in {"none", "runs", "ended", "failed"}
  /\ wal \in {"closed", "open"} /\ per_worker_cap \in Nat /\ connected \in BOOLEAN
  /\ \A id \in DOMAIN sessions : sessions[id] \subseteq published
  /\ owed \subseteq published /\ taken \subseteq published /\ published \subseteq Messages

(* While the broker can hand over a message, which counts as delivered     *)
(* from then on, all that works on it is there: routes for the filters, a  *)
(* topic for rejections, queues with room, the log, both servers started;  *)
(* and so it is while the service goes down.                               *)
ConnectedIsWhole ==
  connected =>
    /\ RoutesAreGood
    /\ EnvVar(env, "CACHE_BUFFER", 0) > 0
    /\ per_worker_cap > 0 /\ wal = "open" /\ forwarder # "none"
    /\ metrics = "runs" /\ http # "none"

(* With a persistent session, a message published once the broker knows    *)
(* the session is taken or waits under the id by which the service         *)
(* connects, at whatever time it is started again and however it ended.    *)
SessionIsResumed ==
  ~CleanSession(env) => \A m \in owed \ taken :
    LET id == MqttSession(env, now) IN id \in DOMAIN sessions /\ m \in sessions[id]

(* An HTTP server that could not bind ends the service, whatever main was  *)
(* doing then; a source that fails ends it with an error, before and after *)
(* a signal.                                                               *)
FailureEnds ==
  /\ http = "failed" ~> main = "exited"
  /\ source = "failed" ~> main = "exited" /\ exit # "ok"

(* Of the forwarder one would ask the same: that it does not fail alone.   *)
ForwarderIsWatched == forwarder = "failed" ~> main = "exited"

(* Empty strings are treated as unset, says the configuration reference:   *)
(* then no route of a configuration is empty.                              *)
EmptyIsUnset ==
  main \notin {"config", "exited"} => \A k \in DOMAIN env.topics : env.topics[k] # <<"">>
=============================================================================
