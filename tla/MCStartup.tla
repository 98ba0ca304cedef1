------------------------------- MODULE MCStartup -------------------------------
(* Small instances of Startup for TLC.                                       *)
EXTENDS Startup, TLC

Number(n) == [type |-> "number", value |-> n]
Bool(b) == [type |-> "bool", value |-> b]
Text(s) == [type |-> "text", value |-> s]
Blank == [type |-> "blank", value |-> ""]

Documented ==
  [vars |-> [k \in Texts |-> Text("x")] @@ [k \in Numbers |-> Number(8)]
            @@ [k \in Bools |-> Bool(TRUE)],
   topics |-> "SENSOR" :> <<"smarthome", "+", "sensor">>
              @@ "DLQ" :> <<"smarthome", "_dlq", "ingest">>]

With(settings) ==
  [Documented EXCEPT !.vars =
     settings @@ "INPUT_SOURCE" :> Text("mqtt") @@ "OUTPUT_SINK" :> Text("influx")
     @@ "CACHE_BIND" :> Text("a") @@ "METRICS_BIND" :> Text("b") @@ @]

WithTopics(topics) == [With(<<>>) EXCEPT !.topics = topics]

Persistent == "MQTT_CLEAN_SESSION" :> Bool(FALSE)

(* Settings that serve, and settings that do not, each for one reason.       *)
MCEnvironments ==
  {With(s) : s \in
     {<<>>, Persistent,
      "CACHE_BIND" :> Text("b") @@ Persistent,   \* both servers on one address
      "CACHE_BIND" :> Text("no host"), "METRICS_BIND" :> Text("no host"),
      "FLUSH_INTERVAL_MS" :> Number(0), "CACHE_BUFFER" :> Number(0),
      "INPUT_QUEUE_CAPACITY" :> Number(3), "INPUT_QUEUE_CAPACITY" :> Number(0),
      "INPUT_SOURCE" :> Text("kafka"), "WAL_DIR" :> Blank, "MQTT_PORT" :> Number(65536),
      "BATCH_SIZE" :> Text("many"), "MQTT_CLEAN_SESSION" :> Blank}}
  \cup {WithTopics(t) : t \in
     {<<>>, "SENSOR" :> <<"smarthome", "+", "sensor">>,
      "SENSOR" :> <<"">> @@ Documented.topics,
      "STATUS" :> <<"smarthome", "#", "status">> @@ Documented.topics,
      "OTHER" :> <<"">> @@ Documented.topics}}

MCNoTicker == {With("FLUSH_INTERVAL_MS" :> Number(0))}
=============================================================================
