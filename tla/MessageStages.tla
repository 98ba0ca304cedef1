---------------------------- MODULE MessageStages ----------------------------
(***************************************************************************)
(* What the stages of the pipeline do with the content of one message:     *)
(* which route its topic finds, what the raw schema, the transformation    *)
(* and the business schema make of it, and where it ends. Module Pipeline  *)
(* has the same runner with the outcome of the checks as a constant of the *)
(* message, among the other messages and workers.                          *)
(*                                                                         *)
(* A payload is a record of what the stages can tell apart:                *)
(*   json       it is UTF-8 JSON of at most 64 KiB                         *)
(*   satisfies  the message types whose raw schema it satisfies            *)
(*   rfc3339    time_iso parses, as it stands                              *)
(*   device_id  as it stands, blanks included                              *)
(*   texts      no other required string is blank after trimming           *)
(*   finite     the derived numbers are finite                             *)
(*   counts     uptime and free_mem, where present, are not negative       *)
(*   typed      serde accepts what the schema accepts (1.0 is an integer   *)
(*              for the schema, and not for an i64)                        *)
(*   hum, gas, pressure   in percent, ohm and hPa                          *)
(***************************************************************************)
EXTENDS TopicPattern, Functions

CONSTANTS
  TopicRoutes,             \* the MQTT_TOPIC_* settings: key -> filter
  OldFilters,              \* filters a persistent session has kept
  EnforceTopicDeviceMatch,
  Topics, Payloads,        \* of what is published to the broker
  Trim                     \* str::trim on device ids

RouteKeys == DOMAIN TopicRoutes \cap {"SENSOR", "STATUS"}

ASSUME RoutesAssumption ==
  /\ "DLQ" \in DOMAIN TopicRoutes /\ Len(TopicRoutes["DLQ"]) >= 1
  /\ IsFiniteSet(DOMAIN TopicRoutes)
  /\ \A k \in DOMAIN TopicRoutes : TopicRoutes[k] \in Seq(STRING)
  /\ \A k \in RouteKeys : IsPattern(TopicRoutes[k])
  /\ OldFilters \subseteq Seq(STRING)
  /\ \A t \in Topics : t \in Seq(STRING) /\ Len(t) >= 1
  /\ EnforceTopicDeviceMatch \in BOOLEAN

PayloadRecord ==
  [json : BOOLEAN, satisfies : SUBSET RouteKeys, rfc3339 : BOOLEAN,
   device_id : DOMAIN Trim, texts : BOOLEAN, finite : BOOLEAN,
   counts : BOOLEAN, typed : BOOLEAN,
   hum : Int, gas : Int, pressure : Int]

ASSUME PayloadsAssumption == Payloads \subseteq PayloadRecord

None == "none"

VARIABLES
  routes,   \* the routes in the order in which the HashMap yielded the keys
  stage,    \* the stage that runs next, idle or done
  ctx,      \* the PipelineContext of the message
  effects,  \* what has been done with the message: cached, stored, dlq
  returned  \* history: the message is one the service published to the DLQ

vars == <<routes, stage, ctx, effects, returned>>

CONSTANT Envelope  \* an object with none of the fields that a schema requires
ASSUME EnvelopeAssumption == Envelope \in PayloadRecord /\ Envelope.satisfies = {}

Stages == {"idle", "decode", "validate_raw", "transform", "validate_business",
           "cache_update", "persist", "observe", "dlq_publish", "done"}

NotHandled == [type |-> None, device_id |-> "", texts |-> FALSE, counts |-> FALSE,
               hum |-> 0, gas |-> 0, iaq_score |-> 0]

NewContext(topic, payload) ==
  [topic |-> topic, payload |-> payload, handled |-> NotHandled, dlq_reason |-> None]

-----------------------------------------------------------------------------
(* Router                                                                   *)
RoutePattern(key) == Pattern(TopicRoutes[key])

FindRoute(topic) ==
  LET hits == {i \in DOMAIN routes : Matches(RoutePattern(routes[i]), topic)} IN
  IF hits = {} THEN None ELSE routes[LeastOf(hits)]

(* Mutant of DevicesAgree: the setting is read the wrong way round. *)
DevicesAgreeInverted(key) ==
  ~EnforceTopicDeviceMatch =>
    ctx.payload.device_id = DeviceIdFromTopic(RoutePattern(key), ctx.topic)

DevicesAgree(key) ==
  EnforceTopicDeviceMatch =>
    ctx.payload.device_id = DeviceIdFromTopic(RoutePattern(key), ctx.topic)

ValidRaw(key) ==
  key \in ctx.payload.satisfies /\ ctx.payload.rfc3339 /\ DevicesAgree(key)

-----------------------------------------------------------------------------
(* Transformation. The score is in units of 1/600, so that percents and    *)
(* ohms give integers: 0.25 * 100 is 15000, and 45000 of gas make 75.      *)
FullScore == 60000

GasReading(gas) == IF gas < 5000 THEN 5000 ELSE IF gas > 50000 THEN 50000 ELSE gas

(* Mutant of IaqScore: the gas reading is not clamped. *)
IaqScoreUnclamped(hum, gas) ==
  (IF hum < 38 THEN 375 * hum ELSE IF hum > 42 THEN 250 * (100 - hum) ELSE 15000)
    + (gas - 5000)

IaqScore(hum, gas) ==
  (IF hum < 38 THEN 375 * hum ELSE IF hum > 42 THEN 250 * (100 - hum) ELSE 15000)
    + (GasReading(gas) - 5000)

(* Mutant of TransformSafe: the humidity is not looked at. *)
TransformSafeDry(p) == p.gas > 0 /\ p.pressure \in 300..1200 /\ p.finite

TransformSafe(p) ==
  p.hum > 0 /\ p.hum <= 100 /\ p.gas > 0 /\ p.pressure \in 300..1200 /\ p.finite

Canonical(key, p) ==
  [type |-> key, device_id |-> Trim[p.device_id], texts |-> p.texts,
   counts |-> p.counts, hum |-> p.hum, gas |-> p.gas,
   iaq_score |-> IF key = "SENSOR" THEN IaqScore(p.hum, p.gas) ELSE 0]

(* The business schema of the canonical message: that of its type, and the *)
(* base schema, without which (a mutant) blank strings pass.               *)
ValidNumbers(m) ==
  /\ m.type = "SENSOR" => /\ m.hum > 0 /\ m.hum <= 100 /\ m.gas > 0
                          /\ 0 <= m.iaq_score /\ m.iaq_score <= FullScore
  /\ m.type = "STATUS" => m.counts

ValidBusiness(m) == m.device_id # "" /\ m.texts /\ ValidNumbers(m)

-----------------------------------------------------------------------------
(* PipelineRunner::run                                                      *)
Init ==
  /\ routes \in Bijection(1..Cardinality(RouteKeys), RouteKeys)
  /\ stage = "idle" /\ effects = {} /\ returned = FALSE
  /\ ctx = NewContext(<<>>, Envelope)

Continues(next) == stage' = next

(* The stage returns Stop after mark_dlq, which keeps the first reason. *)
StopsForDlq(reason) ==
  /\ ctx' = [ctx EXCEPT !.dlq_reason = IF @ = None THEN reason ELSE @]
  /\ stage' = "dlq_publish"

(* The broker holds the session's subscriptions: all keys that do not end  *)
(* in DLQ, which of the model's keys is DLQ itself.                        *)
SubscribedFilters ==
  {TopicRoutes[k] : k \in DOMAIN TopicRoutes \ {"DLQ"}} \cup OldFilters

Delivers(topic) == \E f \in SubscribedFilters : MqttMatches(f, topic)

Receive ==
  /\ stage = "idle"
  /\ \E t \in Topics, p \in Payloads :
       Delivers(t) /\ ctx' = NewContext(t, p)
  /\ stage' = "decode"
  /\ UNCHANGED <<routes, effects, returned>>

Decode ==
  /\ stage = "decode"
  /\ \/ ctx.payload.json /\ Continues("validate_raw") /\ UNCHANGED ctx
     \/ ~ctx.payload.json /\ StopsForDlq("decode")
  /\ UNCHANGED <<routes, effects, returned>>

(* The router is strict: a topic without a route is an error. *)
ValidateRaw ==
  /\ stage = "validate_raw"
  /\ LET key == FindRoute(ctx.topic) IN
     \/ key = None /\ StopsForDlq("no_route")
     \/ key # None /\ ~ValidRaw(key) /\ StopsForDlq("validate_raw")
     \/ key # None /\ ValidRaw(key) /\ Continues("transform") /\ UNCHANGED ctx
  /\ UNCHANGED <<routes, effects, returned>>

(* Mutant of Transform: the canonical message is not put in the context. *)
TransformForgets ==
  /\ stage = "transform"
  /\ Continues("validate_business")
  /\ UNCHANGED <<routes, ctx, effects, returned>>

(* The second look at the routes finds what the first one found: there is  *)
(* a route, and mark_ignored, for a router that is not strict, is not      *)
(* reached.                                                                *)
Transform ==
  /\ stage = "transform"
  /\ LET key == FindRoute(ctx.topic)
         p == ctx.payload
         accepted == (key = "SENSOR" => TransformSafe(p)) /\ p.typed
     IN
     \/ ~accepted /\ StopsForDlq("transform")
     \/ /\ accepted
        /\ ctx' = [ctx EXCEPT !.handled = Canonical(key, p)]
        /\ Continues("validate_business")
  /\ UNCHANGED <<routes, effects, returned>>

ValidateBusiness ==
  /\ stage = "validate_business"
  /\ \/ ValidBusiness(ctx.handled) /\ Continues("cache_update") /\ UNCHANGED ctx
     \/ ~ValidBusiness(ctx.handled) /\ StopsForDlq("validate_business")
  /\ UNCHANGED <<routes, effects, returned>>

CacheUpdate ==
  /\ stage = "cache_update"
  /\ effects' = IF ctx.handled.type = "SENSOR" THEN effects \cup {"cached"} ELSE effects
  /\ Continues("persist")
  /\ UNCHANGED <<routes, ctx, returned>>

(* Mutant of Persist: the runner goes on after an error. *)
PersistsOrGoesOn ==
  /\ stage = "persist"
  /\ effects' \in {effects, effects \cup {"stored"}}
  /\ Continues("observe")
  /\ UNCHANGED <<routes, ctx, returned>>

(* append_durable returns Ok, or one of its three errors. *)
Persist ==
  /\ stage = "persist"
  /\ \/ /\ effects' = effects \cup {"stored"}
        /\ Continues("observe") /\ UNCHANGED ctx
     \/ StopsForDlq("persist") /\ UNCHANGED effects
  /\ UNCHANGED <<routes, returned>>

Observe ==
  /\ stage = "observe"
  /\ Continues("done")
  /\ UNCHANGED <<routes, ctx, effects, returned>>

(* The failure stage: the publish succeeds, or its error is only logged. *)
DlqPublish ==
  /\ stage = "dlq_publish"
  /\ effects' \in {effects, effects \cup {"dlq"}}
  /\ stage' = "done"
  /\ UNCHANGED <<routes, ctx, returned>>

NextMessage ==
  /\ stage = "done"
  /\ stage' = "idle" /\ effects' = {} /\ returned' = FALSE
  /\ ctx' = NewContext(<<>>, Envelope)
  /\ UNCHANGED routes

(* Mutant of DlqPayloads: the rejected payload is published as it came. *)
DlqPayloadsBare == {ctx.payload}

(* What DlqPublish has sent: the reason, the topic and the payload within  *)
(* an object of its own, which may outgrow the limit of decode.            *)
DlqPayloads == {[Envelope EXCEPT !.json = j] : j \in BOOLEAN}

(* The broker delivers to the session what the session itself has          *)
(* published, when a filter covers the DLQ topic.                          *)
Return ==
  /\ stage = "done" /\ "dlq" \in effects
  /\ Delivers(TopicRoutes["DLQ"])
  /\ \E p \in DlqPayloads : ctx' = NewContext(TopicRoutes["DLQ"], p)
  /\ stage' = "decode" /\ effects' = {} /\ returned' = TRUE
  /\ UNCHANGED routes

Next ==
  \/ Receive \/ NextMessage \/ Return
  \/ Decode \/ ValidateRaw \/ Transform \/ ValidateBusiness
  \/ CacheUpdate \/ Persist \/ Observe \/ DlqPublish

Spec == Init /\ [][Next]_vars

-----------------------------------------------------------------------------
(* Types; and the context holds what the next stage takes from it.         *)
StagesTypeOK ==
  /\ routes \in Bijection(1..Cardinality(RouteKeys), RouteKeys)
  /\ stage \in Stages
  /\ ctx.topic \in Topics \cup {<<>>, TopicRoutes["DLQ"]}
  /\ ctx.payload \in Payloads \cup DlqPayloads \cup {Envelope}
  /\ returned \in BOOLEAN
  /\ DOMAIN ctx.handled = DOMAIN NotHandled
  /\ ctx.handled.type \in RouteKeys \cup {None}
  /\ stage \in {"validate_business", "cache_update", "persist", "observe"} =>
       ctx.handled.type # None
  /\ ctx.dlq_reason \in Stages \cup {"no_route", None}
  /\ effects \subseteq {"cached", "stored", "dlq"}

(* A message ends in the log, or with a reason to go to the DLQ, and never *)
(* both ways; one that the cache shows has at least reached the append.    *)
SettledOnce ==
  stage = "done" =>
    /\ "stored" \in effects <=> ctx.dlq_reason = None
    /\ "dlq" \in effects => ctx.dlq_reason # None
    /\ "cached" \in effects => ctx.dlq_reason \in {None, "persist"}

(* With the topic check on, what is stored or shown for a device came on a *)
(* topic of that device, although the id is compared before it is trimmed: *)
(* true of topics whose levels carry no blanks around them.                *)
DeviceKeepsItsTopic ==
  EnforceTopicDeviceMatch /\ effects \cap {"cached", "stored"} # {} =>
    LET device == DeviceIdFromTopic(RoutePattern(ctx.handled.type), ctx.topic) IN
    device \in DOMAIN Trim /\ Trim[device] = device => ctx.handled.device_id = device

(* What is stored is canonical: no blank among its required strings, its   *)
(* numbers within the documented bounds, the score between 0 and 100.      *)
StoredIsCanonical ==
  "stored" \in effects =>
    LET m == ctx.handled IN
    /\ m.device_id # "" /\ m.texts
    /\ m.type = "SENSOR" => /\ 0 < m.hum /\ m.hum <= 100 /\ 0 < m.gas
                            /\ 0 <= m.iaq_score /\ m.iaq_score <= FullScore
    /\ m.type = "STATUS" => m.counts

(* The bounds of the transformation and of the business schema agree: the  *)
(* schema refuses a transformed sensor message for a blank string, never   *)
(* for a number that the transformation let pass or computed.              *)
TransformSuffices ==
  ctx.dlq_reason = "validate_business" /\ ctx.handled.type = "SENSOR" =>
    ctx.handled.device_id = "" \/ ~ctx.handled.texts

(* A message is stored as a type only if the broker delivers its topic     *)
(* under the filter of that type, whatever other filters the session has   *)
(* and whatever the order of the routes: true of topics without a slash at *)
(* either end, which the router trims and MQTT does not.                   *)
StoredAsPublished ==
  "stored" \in effects /\ Stripped(ctx.topic) = ctx.topic =>
    MqttMatches(TopicRoutes[ctx.handled.type], ctx.topic)

(* A rejected message does not find its way into the cache or the log      *)
(* through the DLQ: whatever filters and routes cover the DLQ topic, what  *)
(* comes back from there is refused, also when the payload itself was good *)
(* and only its append had failed.                                         *)
RejectedStaysOut == returned => effects \cap {"cached", "stored"} = {}

(* Nothing comes back from the DLQ only to be published there once more:   *)
(* true only of settings in which no filter covers the DLQ topic.          *)
RejectedOnce == ~(returned /\ "dlq" \in effects)

(* A message that the broker delivers under the filter of a route finds a  *)
(* route: the wildcards of the matcher are those of MQTT.                  *)
DeliveredIsRouted ==
  ctx.dlq_reason = "no_route" =>
    \A k \in RouteKeys : ~MqttMatches(TopicRoutes[k], ctx.topic)
=============================================================================
