--------------------------- MODULE MCMessageStages ---------------------------
(* Small instances of MessageStages for TLC.                                 *)
EXTENDS MessageStages, TLC

(* The documented settings, and a key that the service does not know. *)
MCRoutes ==
  "SENSOR" :> <<"smarthome", "+", "sensor">> @@
  "STATUS" :> <<"smarthome", "+", "status">> @@
  "DLQ" :> <<"smarthome", "_dlq", "ingest">> @@
  "OTHER" :> <<"smarthome", "+", "event", "#">>

(* Two routes that overlap: which one wins for d1 depends on their order. *)
(* One of them covers the DLQ topic.                                      *)
MCOverlapping ==
  "STATUS" :> <<"smarthome", "d1", "#">> @@
  "DLQ" :> <<"smarthome", "d1", "dlq">> @@ MCRoutes

MCOldFilters == {<<"home", "+", "sensor">>, <<"smarthome", "+", "sensor", "#">>,
                  <<"smarthome", "+", "status">>}
MCNoFilters == {}

MCTopics ==
  {<<"smarthome", d, k>> : d \in {"d1", "d2", " d1"}, k \in {"sensor", "status", "event"}}
  \cup {<<"smarthome", "", "sensor">>, <<"home", "d1", "sensor">>,
        <<"smarthome", "d1", "sensor", "">>, <<"smarthome", "d1", "sensor", "raw">>}

MCTrim ==
  "d1" :> "d1" @@ "d2" :> "d2" @@ " d1" :> "d1" @@ " " :> "" @@ "_" :> "_"

Good ==
  [json |-> TRUE, satisfies |-> RouteKeys, rfc3339 |-> TRUE, device_id |-> "d1",
   texts |-> TRUE, finite |-> TRUE, counts |-> TRUE, typed |-> TRUE,
   hum |-> 40, gas |-> 50000, pressure |-> 1013]

(* Only its schema is against it: nothing else of it would be refused but the  *)
(* device id, which is none.                                                 *)
MCEnvelope == [Good EXCEPT !.satisfies = {}, !.device_id = "_"]

MCPayloads ==
  {[Good EXCEPT !.device_id = d] : d \in {"d1", "d2", " d1", " "}}
  \cup {[Good EXCEPT !.hum = h, !.gas = g] :
          h \in {0, 1, 37, 38, 42, 43, 100, 101}, g \in {0, 1, 4999, 20000, 90000}}
  \cup {[Good EXCEPT !.pressure = q] : q \in {299, 300, 1200, 1201}}
  \cup {[Good EXCEPT !.json = FALSE], [Good EXCEPT !.rfc3339 = FALSE],
        [Good EXCEPT !.texts = FALSE], [Good EXCEPT !.finite = FALSE],
        [Good EXCEPT !.typed = FALSE], [Good EXCEPT !.counts = FALSE], [Good EXCEPT !.satisfies = {"STATUS"}]}
MCGood == {Good}
=============================================================================
