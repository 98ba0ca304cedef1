------------------------- MODULE MessageStages_proofs -------------------------
(***************************************************************************)
(* Proofs about MessageStages, for any routes, topics and payloads.        *)
(***************************************************************************)
EXTENDS MessageStages, FiniteSetTheorems, WellFoundedInduction, TLAPS

-----------------------------------------------------------------------------
(* The score of every reading that the transformation lets pass is on the  *)
(* scale that the business schema accepts.                                 *)
LEMMA ScoreIsOnScale ==
  ASSUME NEW hum \in Int, NEW gas \in Int, hum > 0, hum <= 100, gas > 0
  PROVE  /\ IaqScore(hum, gas) \in Int
         /\ 0 <= IaqScore(hum, gas) /\ IaqScore(hum, gas) <= FullScore
<1> DEFINE reading == GasReading(gas) - 5000
<1>1. reading \in Int /\ 0 <= reading /\ reading <= 45000
  BY DEF GasReading
<1> HIDE DEF reading
<1>2. CASE hum < 38
  <2>1. IaqScore(hum, gas) = 375 * hum + reading
    BY <1>2 DEF IaqScore, reading
  <2> QED
    BY <1>1, <1>2, <2>1 DEF FullScore
<1>3. CASE 38 <= hum /\ hum <= 42
  <2>1. IaqScore(hum, gas) = 15000 + reading
    BY <1>3 DEF IaqScore, reading
  <2> QED
    BY <1>1, <2>1 DEF FullScore
<1>4. CASE hum > 42
  <2>1. IaqScore(hum, gas) = 250 * (100 - hum) + reading
    BY <1>4 DEF IaqScore, reading
  <2> QED
    BY <1>1, <1>4, <2>1 DEF FullScore
<1> QED
  BY <1>2, <1>3, <1>4

-----------------------------------------------------------------------------
(* The inductive invariant. *)
Route == FindRoute(ctx.topic)

(* The canonical message in the context is that of the payload, for the    *)
(* route of the topic, and has passed the checks before it.                *)
Transformed ==
  /\ Route # None /\ DevicesAgree(Route) /\ Route \in ctx.payload.satisfies
  /\ ctx.handled = Canonical(Route, ctx.payload)
  /\ Route = "SENSOR" => TransformSafe(ctx.payload)

ContextInv ==
  /\ DOMAIN ctx = {"topic", "payload", "handled", "dlq_reason"}
  /\ ctx = [topic |-> ctx.topic, payload |-> ctx.payload,
            handled |-> ctx.handled, dlq_reason |-> ctx.dlq_reason]
  /\ ctx.payload \in PayloadRecord
  /\ returned => ctx.payload.satisfies = {}

CheckingInv ==
  /\ stage \in Stages
  /\ stage \in {"idle", "decode", "validate_raw", "transform", "validate_business",
                "cache_update"} => effects = {}
  /\ stage \notin {"dlq_publish", "done"} => ctx.dlq_reason = None
  /\ stage = "idle" => ~returned
  /\ stage = "transform" =>
       Route # None /\ DevicesAgree(Route) /\ Route \in ctx.payload.satisfies
  /\ stage \in {"validate_business", "cache_update", "persist", "observe"} => Transformed
  /\ stage \in {"cache_update", "persist", "observe"} => ValidBusiness(ctx.handled)

EffectInv ==
  /\ stage = "persist" => effects \subseteq {"cached"}
  /\ stage = "observe" => "stored" \in effects /\ "dlq" \notin effects
  /\ stage = "dlq_publish" =>
       ctx.dlq_reason # None /\ "stored" \notin effects /\ "dlq" \notin effects
  /\ "cached" \in effects => ctx.dlq_reason \in {None, "persist"}
  /\ "cached" \in effects \/ "stored" \in effects =>
       Transformed /\ ValidBusiness(ctx.handled)
  /\ ctx.dlq_reason = "validate_business" => Transformed /\ ~ValidBusiness(ctx.handled)

StagesInv == ContextInv /\ CheckingInv /\ EffectInv /\ SettledOnce

-----------------------------------------------------------------------------
(* The routes never change: the same message finds the same route again.   *)
LEMMA RouteStays ==
  ASSUME routes' = routes, ctx'.topic = ctx.topic
  PROVE  Route' = Route
BY DEF Route, FindRoute

LEMMA DevicesStillAgree ==
  ASSUME routes' = routes, ctx'.topic = ctx.topic, ctx'.payload = ctx.payload
  PROVE  DevicesAgree(Route)' = DevicesAgree(Route)
BY RouteStays DEF DevicesAgree

LEMMA StaysTransformed ==
  ASSUME routes' = routes, ctx'.topic = ctx.topic, ctx'.payload = ctx.payload,
         ctx'.handled = ctx.handled
  PROVE  Transformed' = Transformed
BY RouteStays, DevicesStillAgree DEF Transformed

(* What the business schema refuses of a transformed sensor message is a   *)
(* blank.                                                                  *)
LEMMA RefusedForBlank ==
  ASSUME ContextInv, Transformed, ~ValidBusiness(ctx.handled),
         ctx.handled.type = "SENSOR"
  PROVE  ctx.handled.device_id = "" \/ ~ctx.handled.texts
<1> DEFINE p == ctx.payload
           m == ctx.handled
<1>1. p.hum \in Int /\ p.gas \in Int
  BY DEF ContextInv, PayloadRecord
<1>2. /\ m.type = Route /\ m.hum = p.hum /\ m.gas = p.gas
      /\ Route = "SENSOR" => m.iaq_score = IaqScore(p.hum, p.gas)
  BY DEF Transformed, Canonical
<1>3. ASSUME Route = "SENSOR"
      PROVE  p.hum > 0 /\ p.hum <= 100 /\ p.gas > 0
  BY <1>3 DEF Transformed, TransformSafe
<1>4. ASSUME Route = "SENSOR"
      PROVE  0 <= IaqScore(p.hum, p.gas) /\ IaqScore(p.hum, p.gas) <= FullScore
  <2> HIDE DEF p
  <2> QED
    BY <1>1, <1>3, <1>4, ScoreIsOnScale
<1>5. ValidNumbers(m)
  BY <1>2, <1>3, <1>4 DEF ValidNumbers
<1> HIDE DEF m, p
<1>6. ~ValidBusiness(m)
  BY DEF m
<1>7. m.device_id = "" \/ ~m.texts
  BY <1>5, <1>6, Zenon DEF ValidBusiness
<1> QED
  BY <1>7, Zenon DEF m

-----------------------------------------------------------------------------
LEMMA InitInv == Init => StagesInv
<1> SUFFICES ASSUME Init PROVE StagesInv
  OBVIOUS
<1>1. /\ stage = "idle" /\ effects = {} /\ returned = FALSE
      /\ ctx = [topic |-> <<>>, payload |-> Envelope, handled |-> NotHandled,
                dlq_reason |-> None]
  BY DEF Init, NewContext
<1>2. ContextInv
  BY <1>1, EnvelopeAssumption DEF ContextInv
<1> QED
  BY <1>1, <1>2 DEF StagesInv, CheckingInv, EffectInv, SettledOnce, Stages, None

(* A stage that stops marks the context and changes nothing else of it.     *)
LEMMA StopMarks ==
  ASSUME ContextInv, NEW reason, StopsForDlq(reason), ctx.dlq_reason = None,
         UNCHANGED returned
  PROVE  /\ ContextInv' /\ stage' = "dlq_publish" /\ ctx'.dlq_reason = reason
         /\ ctx'.topic = ctx.topic /\ ctx'.payload = ctx.payload
         /\ ctx'.handled = ctx.handled
BY DEF ContextInv, StopsForDlq

(* What a step that leaves routes and context alone preserves.              *)
LEMMA ContextStays ==
  ASSUME UNCHANGED <<routes, ctx, returned>>
  PROVE  /\ ContextInv' = ContextInv /\ Transformed' = Transformed
         /\ Route' = Route /\ DevicesAgree(Route)' = DevicesAgree(Route)
         /\ ValidBusiness(ctx.handled)' = ValidBusiness(ctx.handled)
BY RouteStays, DevicesStillAgree, StaysTransformed DEF ContextInv

(* What comes back from the DLQ is a payload that no schema accepts.        *)
LEMMA DlqPayloadTypes ==
  ASSUME NEW p \in DlqPayloads
  PROVE  p \in PayloadRecord /\ p.satisfies = {}
BY EnvelopeAssumption DEF DlqPayloads, PayloadRecord

LEMMA StepInv == StagesInv /\ [Next]_vars => StagesInv'
<1> SUFFICES ASSUME StagesInv, [Next]_vars PROVE StagesInv'
  OBVIOUS
<1> USE DEF StagesInv, CheckingInv, EffectInv, SettledOnce, Stages, None
<1>1. CASE Receive
  <2>1. PICK t \in Topics, p \in Payloads : ctx' = NewContext(t, p)
    BY <1>1 DEF Receive
  <2>2. ContextInv'
    BY <1>1, <2>1, PayloadsAssumption DEF Receive, ContextInv, NewContext
  <2>3. stage' = "decode" /\ effects' = {} /\ ctx'.dlq_reason = "none"
    BY <1>1, <2>1 DEF Receive, NewContext
  <2> QED
    BY <2>2, <2>3
<1>2. CASE NextMessage
  <2>1. ContextInv'
    BY <1>2, EnvelopeAssumption DEF NextMessage, ContextInv, NewContext
  <2>2. stage' = "idle" /\ effects' = {} /\ ~returned' /\ ctx'.dlq_reason = "none"
    BY <1>2 DEF NextMessage, NewContext
  <2> QED
    BY <2>1, <2>2
<1>3. CASE Decode
  <2>1. CASE StopsForDlq("decode")
    <3>1. effects' = {} /\ ctx.dlq_reason = None /\ UNCHANGED <<routes, returned>>
      BY <1>3 DEF Decode
    <3> QED
      BY <2>1, <3>1, StopMarks
  <2>2. CASE Continues("validate_raw") /\ UNCHANGED ctx
    <3>1. stage' = "validate_raw" /\ effects' = {} /\ ctx'.dlq_reason = "none"
      BY <1>3, <2>2 DEF Decode, Continues
    <3> QED
      BY <1>3, <2>2, <3>1, ContextStays DEF Decode
  <2> QED
    BY <1>3, <2>1, <2>2 DEF Decode
<1>4. CASE ValidateRaw
  <2>1. stage = "validate_raw" /\ effects' = {} /\ effects = {} /\ UNCHANGED <<routes, returned>>
        /\ ctx.dlq_reason = None
    BY <1>4 DEF ValidateRaw
  <2>2. CASE StopsForDlq("no_route")
    BY <2>1, <2>2, StopMarks
  <2>4. CASE StopsForDlq("validate_raw")
    BY <2>1, <2>4, StopMarks
  <2>3. CASE Route # None /\ ValidRaw(Route) /\ Continues("transform") /\ UNCHANGED ctx
    <3>1. stage' = "transform" /\ ctx'.dlq_reason = "none"
      BY <2>1, <2>3 DEF Continues
    <3>2. Route' # None /\ DevicesAgree(Route)' /\ ContextInv'
          /\ Route' \in ctx'.payload.satisfies
      BY <2>1, <2>3, ContextStays DEF ValidRaw
    <3> QED
      BY <2>1, <3>1, <3>2
  <2> QED
    BY <1>4, <2>2, <2>3, <2>4 DEF ValidateRaw, Route
<1>5. CASE Transform
  <2>1. stage = "transform" /\ effects' = {} /\ effects = {} /\ UNCHANGED <<routes, returned>>
        /\ ctx.dlq_reason = None
    BY <1>5 DEF Transform
  <2>2. CASE StopsForDlq("transform")
    BY <2>1, <2>2, StopMarks
  <2>3. CASE /\ Route = "SENSOR" => TransformSafe(ctx.payload)
             /\ ctx' = [ctx EXCEPT !.handled = Canonical(Route, ctx.payload)]
             /\ Continues("validate_business")
    <3>1. /\ ctx'.topic = ctx.topic /\ ctx'.payload = ctx.payload
          /\ ctx'.handled = Canonical(Route, ctx.payload)
          /\ ctx'.dlq_reason = "none" /\ ContextInv'
      BY <2>1, <2>3 DEF ContextInv
    <3>2. Route' = Route /\ DevicesAgree(Route)' = DevicesAgree(Route)
      BY <2>1, <3>1, RouteStays, DevicesStillAgree
    <3>3. Transformed'
      BY <2>1, <2>3, <3>1, <3>2 DEF Transformed
    <3>4. stage' = "validate_business"
      BY <2>3 DEF Continues
    <3> QED
      BY <2>1, <3>1, <3>3, <3>4
  <2> QED
    BY <1>5, <2>2, <2>3 DEF Transform, Route
<1>6. CASE ValidateBusiness
  <2>1. stage = "validate_business" /\ effects' = {} /\ effects = {} /\ UNCHANGED <<routes, returned>>
        /\ ctx.dlq_reason = None /\ Transformed
    BY <1>6 DEF ValidateBusiness
  <2>2. CASE ValidBusiness(ctx.handled) /\ Continues("cache_update") /\ UNCHANGED ctx
    <3>1. stage' = "cache_update" /\ ctx'.dlq_reason = "none"
      BY <2>1, <2>2 DEF Continues
    <3>2. Transformed' /\ ContextInv' /\ ValidBusiness(ctx.handled)'
      BY <2>1, <2>2, ContextStays
    <3> QED
      BY <2>1, <3>1, <3>2
  <2>3. CASE ~ValidBusiness(ctx.handled) /\ StopsForDlq("validate_business")
    <3>1. ctx'.dlq_reason = "validate_business" /\ stage' = "dlq_publish" /\ ContextInv'
      BY <2>1, <2>3, StopMarks
    <3>2. ctx'.handled = ctx.handled /\ Transformed'
      BY <2>1, <2>3, StopMarks, StaysTransformed
    <3>3. ~ValidBusiness(ctx.handled)'
      BY <2>3, <3>2
    <3> QED
      BY <2>1, <3>1, <3>2, <3>3
  <2> QED
    BY <1>6, <2>2, <2>3 DEF ValidateBusiness
<1>7. CASE CacheUpdate
  <2>1. stage' = "persist" /\ UNCHANGED <<routes, ctx, returned>> /\ effects' \subseteq {"cached"}
        /\ ctx.dlq_reason = None /\ Transformed /\ ValidBusiness(ctx.handled)
    BY <1>7 DEF CacheUpdate, Continues
  <2>2. ContextInv' /\ Transformed' /\ ValidBusiness(ctx.handled)'
    BY <2>1, ContextStays
  <2> QED
    BY <2>1, <2>2
<1>8. CASE Persist
  <2>1. stage = "persist" /\ ctx.dlq_reason = None /\ UNCHANGED <<routes, returned>>
        /\ Transformed /\ ValidBusiness(ctx.handled) /\ effects \subseteq {"cached"}
    BY <1>8 DEF Persist
  <2>2. CASE effects' = effects \cup {"stored"} /\ Continues("observe") /\ UNCHANGED ctx
    <3>1. ContextInv' /\ Transformed' /\ ValidBusiness(ctx.handled)'
      BY <2>1, <2>2, ContextStays
    <3>2. stage' = "observe"
      BY <2>2 DEF Continues
    <3> QED
      BY <2>1, <2>2, <3>1, <3>2
  <2>3. CASE StopsForDlq("persist") /\ UNCHANGED effects
    <3>1. ctx'.dlq_reason = "persist" /\ stage' = "dlq_publish" /\ ContextInv'
      BY <2>1, <2>3, StopMarks
    <3>2. ctx'.handled = ctx.handled /\ Transformed'
      BY <2>1, <2>3, StopMarks, StaysTransformed
    <3>3. ValidBusiness(ctx.handled)'
      BY <2>1, <3>2
    <3> QED
      BY <2>1, <2>3, <3>1, <3>2, <3>3
  <2> QED
    BY <1>8, <2>2, <2>3 DEF Persist
<1>9. CASE Observe
  <2>1. stage' = "done" /\ UNCHANGED <<routes, ctx, effects, returned>> /\ stage = "observe"
    BY <1>9 DEF Observe, Continues
  <2>2. ContextInv' /\ Transformed' /\ ValidBusiness(ctx.handled)'
    BY <2>1, ContextStays
  <2> QED
    BY <2>1, <2>2
<1>10. CASE DlqPublish
  <2>1. stage' = "done" /\ UNCHANGED <<routes, ctx, returned>> /\ stage = "dlq_publish"
        /\ effects' \in {effects, effects \cup {"dlq"}}
    BY <1>10 DEF DlqPublish
  <2>2. /\ ContextInv' /\ Transformed' = Transformed
        /\ ValidBusiness(ctx.handled)' = ValidBusiness(ctx.handled)
    BY <2>1, ContextStays
  <2> QED
    BY <2>1, <2>2
<1>11. CASE Return
  <2>1. PICK p \in DlqPayloads : ctx' = NewContext(TopicRoutes["DLQ"], p)
    BY <1>11 DEF Return
  <2>2. ContextInv'
    BY <2>1, DlqPayloadTypes DEF ContextInv, NewContext
  <2>3. stage' = "decode" /\ effects' = {} /\ ctx'.dlq_reason = "none"
    BY <1>11, <2>1 DEF Return, NewContext
  <2> QED
    BY <2>2, <2>3
<1>12. CASE UNCHANGED vars
  BY <1>12, ContextStays DEF vars
<1> QED
  BY <1>1, <1>2, <1>3, <1>4, <1>5, <1>6, <1>7, <1>8, <1>9, <1>10, <1>11, <1>12 DEF Next

LEMMA InvariantHolds == Spec => []StagesInv
<1>1. Init => StagesInv
  BY InitInv
<1>2. StagesInv /\ [Next]_vars => StagesInv'
  BY StepInv
<1> QED
  BY <1>1, <1>2, PTL DEF Spec

-----------------------------------------------------------------------------
(* A message ends in the log, or with a reason to go to the DLQ, and never  *)
(* both ways: SettledOnce.                                                  *)
THEOREM MessagesSettleOnce == Spec => []SettledOnce
<1>1. StagesInv => SettledOnce
  BY DEF StagesInv
<1> QED
  BY <1>1, InvariantHolds, PTL

(* What run persists has passed the business schema of what transform made: *)
(* StoredIsCanonical.                                                       *)
THEOREM StoredMessagesAreCanonical == Spec => []StoredIsCanonical
<1>1. StagesInv => StoredIsCanonical
  <2> SUFFICES ASSUME StagesInv, "stored" \in effects PROVE StoredIsCanonical
    BY DEF StoredIsCanonical
  <2> DEFINE m == ctx.handled
  <2>1. ValidBusiness(m) /\ Transformed
    BY DEF StagesInv, EffectInv
  <2>2. m.hum \in Int /\ m.gas \in Int
    BY <2>1 DEF StagesInv, ContextInv, PayloadRecord, Transformed, Canonical
  <2> HIDE DEF m
  <2>3. m.device_id # "" /\ m.texts /\ ValidNumbers(m)
    BY <2>1, Zenon DEF ValidBusiness
  <2>4. m.type = "SENSOR" => /\ m.hum > 0 /\ m.hum <= 100 /\ m.gas > 0
                             /\ 0 <= m.iaq_score /\ m.iaq_score <= FullScore
    BY <2>3 DEF ValidNumbers
  <2>6. m.type = "STATUS" => m.counts
    BY <2>3, Zenon DEF ValidNumbers
  <2>5. (m.hum > 0 => 0 < m.hum) /\ (m.gas > 0 => 0 < m.gas)
    BY <2>2
  <2> QED
    BY <2>3, <2>4, <2>5, <2>6, Zenon DEF m, StoredIsCanonical
<1> QED
  BY <1>1, InvariantHolds, PTL

(* The bounds of transform and of the business schema agree:                *)
(* TransformSuffices.                                                       *)
THEOREM TransformBoundsSuffice == Spec => []TransformSuffices
<1>1. StagesInv => TransformSuffices
  BY RefusedForBlank, Zenon DEF TransformSuffices, StagesInv, EffectInv
<1> QED
  BY <1>1, InvariantHolds, PTL

(* A stored or shown value has the device of its topic, unless the topic    *)
(* level has blanks that trim removes: DeviceKeepsItsTopic.                 *)
THEOREM DevicesKeepTheirTopic == Spec => []DeviceKeepsItsTopic
<1>1. StagesInv => DeviceKeepsItsTopic
  <2> DEFINE device == DeviceIdFromTopic(RoutePattern(Route), ctx.topic)
  <2> SUFFICES ASSUME StagesInv, EnforceTopicDeviceMatch,
                      effects \cap {"cached", "stored"} # {}
               PROVE  LET d == DeviceIdFromTopic(RoutePattern(ctx.handled.type), ctx.topic)
                      IN  d \in DOMAIN Trim /\ Trim[d] = d => ctx.handled.device_id = d
    BY DEF DeviceKeepsItsTopic
  <2>1. Transformed
    BY DEF StagesInv, EffectInv
  <2>2. ctx.handled.type = Route /\ ctx.handled.device_id = Trim[ctx.payload.device_id]
    BY <2>1 DEF Transformed, Canonical
  <2>3. ctx.payload.device_id = device
    BY <2>1 DEF Transformed, DevicesAgree
  <2> QED
    BY <2>2, <2>3
<1> QED
  BY <1>1, InvariantHolds, PTL

-----------------------------------------------------------------------------
(* A topic finds a route among those of the settings: the first that        *)
(* matches exists.                                                          *)
LEMMA LeastOfIsLeast ==
  ASSUME NEW S, S \subseteq Nat, S # {}
  PROVE  LeastOf(S) \in S /\ \A j \in S : LeastOf(S) <= j
<1> DEFINE R == OpToRel(<, Nat)
<1>1. PICK x \in S : \A y \in S : ~(<<y, x>> \in R)
  <2> HIDE DEF R
  <2> QED BY NatLessThanWellFounded, WFMin DEF R
<1>2. \A y \in S : x <= y
  <2> SUFFICES ASSUME NEW y \in S PROVE x <= y OBVIOUS
  <2>1. x \in Nat /\ y \in Nat OBVIOUS
  <2>2. ~(y < x) BY <1>1, <2>1 DEF OpToRel
  <2> QED BY <2>1, <2>2
<1> QED BY <1>2 DEF LeastOf

RoutesInv == routes \in Bijection(1..Cardinality(RouteKeys), RouteKeys)

LEMMA RouteIsConfigured == RoutesInv => Route \in RouteKeys \cup {None}
<1> SUFFICES ASSUME RoutesInv PROVE Route \in RouteKeys \cup {None} OBVIOUS
<1> DEFINE hits == {i \in DOMAIN routes : Matches(RoutePattern(routes[i]), ctx.topic)}
<1>1. routes \in [1..Cardinality(RouteKeys) -> RouteKeys]
  BY DEF RoutesInv, Bijection, Injection
<1>2. hits \subseteq 1..Cardinality(RouteKeys) /\ hits \subseteq Nat
  <2>1. DOMAIN routes = 1..Cardinality(RouteKeys) BY <1>1
  <2>2. Cardinality(RouteKeys) \in Nat
    BY RoutesAssumption, FS_CardinalityType, FS_Subset DEF RouteKeys
  <2>3. 1..Cardinality(RouteKeys) \subseteq Nat BY <2>2
  <2> QED BY <2>1, <2>3
<1>3. Route = IF hits = {} THEN None ELSE routes[LeastOf(hits)]
  BY DEF Route, FindRoute
<1> HIDE DEF hits
<1>4. hits # {} => LeastOf(hits) \in hits BY <1>2, LeastOfIsLeast
<1> QED BY <1>1, <1>2, <1>3, <1>4

ContextTypes ==
  /\ RoutesInv
  /\ ctx.topic \in Topics \cup {<<>>, TopicRoutes["DLQ"]}
  /\ ctx.payload \in Payloads \cup DlqPayloads \cup {Envelope}
  /\ returned \in BOOLEAN
  /\ DOMAIN ctx.handled = DOMAIN NotHandled
  /\ ctx.handled.type \in RouteKeys \cup {None}
  /\ ctx.dlq_reason \in Stages \cup {"no_route", None}
  /\ effects \subseteq {"cached", "stored", "dlq"}

LEMMA NewContextTypes ==
  ASSUME NEW t, NEW p
  PROVE  LET c == NewContext(t, p)
         IN  /\ c.topic = t /\ c.payload = p /\ c.dlq_reason = None
             /\ c.handled = NotHandled /\ c.handled.type = None
  BY DEF NewContext, NotHandled

LEMMA InitTypes == Init => ContextTypes
<1> SUFFICES ASSUME Init PROVE ContextTypes OBVIOUS
<1>1. RoutesInv BY DEF Init, RoutesInv
<1>2. ctx = NewContext(<<>>, Envelope) /\ effects = {} /\ returned = FALSE BY DEF Init
<1>3. /\ ctx.topic = <<>> /\ ctx.payload = Envelope /\ ctx.dlq_reason = None
      /\ ctx.handled = NotHandled /\ ctx.handled.type = None
  BY <1>2, NewContextTypes
<1> QED BY <1>1, <1>2, <1>3, Zenon DEF ContextTypes

LEMMA StepTypes == StagesInv /\ ContextTypes /\ [Next]_vars => ContextTypes'
<1> SUFFICES ASSUME StagesInv, ContextTypes, [Next]_vars PROVE ContextTypes'
  OBVIOUS
<1> USE DEF ContextTypes, Continues
<1>1. UNCHANGED RouteKeys OBVIOUS
<1>2. RoutesInv'
  BY DEF RoutesInv, Next, vars, Receive, NextMessage, Return, Decode, ValidateRaw, Transform,
         ValidateBusiness, CacheUpdate, Persist, Observe, DlqPublish
<1>3. ASSUME NEW reason \in Stages \cup {"no_route"}, StopsForDlq(reason),
             UNCHANGED returned, effects' \subseteq {"cached", "stored", "dlq"}
      PROVE ContextTypes'
  BY <1>2, <1>3 DEF StopsForDlq, StagesInv, ContextInv
<1>4. CASE Receive \/ NextMessage \/ Return
  <2>1. PICK t \in Topics \cup {<<>>, TopicRoutes["DLQ"]},
             p \in Payloads \cup DlqPayloads \cup {Envelope} :
          ctx' = NewContext(t, p)
    BY <1>4, Zenon DEF Receive, NextMessage, Return
  <2>2. effects' \subseteq {"cached", "stored", "dlq"} /\ returned' \in BOOLEAN
    BY <1>4, Zenon DEF Receive, NextMessage, Return
  <2>3. /\ ctx'.topic = t /\ ctx'.payload = p /\ ctx'.dlq_reason = None
        /\ ctx'.handled = NotHandled /\ ctx'.handled.type = None
    BY <2>1, NewContextTypes
  <2> QED BY <1>2, <2>2, <2>3, Zenon
<1>5. CASE Decode BY <1>2, <1>3, <1>5 DEF Decode, Stages
<1>6. CASE ValidateRaw BY <1>2, <1>3, <1>6 DEF ValidateRaw, Stages
<1>7. CASE Transform
  <2>1. CASE ctx' = [ctx EXCEPT !.handled = Canonical(Route, ctx.payload)]
             /\ UNCHANGED <<effects, returned>>
    <3>1. DOMAIN Canonical(Route, ctx.payload) = DOMAIN NotHandled
          /\ Canonical(Route, ctx.payload).type = Route
      BY DEF Canonical, NotHandled
    <3> HIDE DEF RoutesInv
    <3> QED BY <1>2, <2>1, <3>1, RouteIsConfigured DEF StagesInv, ContextInv
  <2> QED BY <1>3, <1>7, <2>1 DEF Transform, Stages, Route
<1>8. CASE ValidateBusiness BY <1>2, <1>3, <1>8 DEF ValidateBusiness, Stages
<1>9. CASE CacheUpdate \/ Observe \/ DlqPublish
  BY <1>2, <1>9 DEF CacheUpdate, Observe, DlqPublish
<1>10. CASE Persist BY <1>2, <1>3, <1>10 DEF Persist, Stages
<1>11. CASE UNCHANGED vars BY <1>2, <1>11 DEF vars
<1> QED
  BY <1>4, <1>5, <1>6, <1>7, <1>8, <1>9, <1>10, <1>11 DEF Next

(* Types; and what a stage takes from the context is there: StagesTypeOK.   *)
THEOREM StagesAreTypeCorrect == Spec => []StagesTypeOK
<1>1. StagesInv /\ ContextTypes => StagesTypeOK
  <2> SUFFICES ASSUME StagesInv, ContextTypes PROVE StagesTypeOK OBVIOUS
  <2>1. stage \in {"validate_business", "cache_update", "persist", "observe"} =>
          ctx.handled.type # None
    BY DEF StagesInv, CheckingInv, Transformed, Canonical
  <2> QED BY <2>1 DEF StagesTypeOK, ContextTypes, RoutesInv, StagesInv, CheckingInv
<1>2. ContextTypes /\ StagesInv /\ [Next]_vars => ContextTypes'
  BY StepTypes
<1> QED
  BY <1>1, <1>2, InitTypes, InvariantHolds, PTL DEF Spec

-----------------------------------------------------------------------------
(* The matcher of the router and the rule of the broker.                    *)

(* Level i of the topic is one that level i of the filter stands for, and  *)
(* the filter goes on behind it.                                           *)
Fits(filter, topic, i) ==
  i <= Len(topic) /\ filter[i] # "#" /\ filter[i] \in {"+", topic[i]}

(* What is left of the filter from level i on matches the rest of the      *)
(* topic: levels that fit, up to a # or to the end of both.                *)
RestMatches(filter, topic, i) ==
  \/ \E j \in i..Len(filter) : /\ filter[j] = "#" /\ j <= Len(topic) + 1
                               /\ \A k \in i..(j - 1) : Fits(filter, topic, k)
  \/ /\ Len(filter) = Len(topic)
     /\ \A k \in i..Len(filter) : Fits(filter, topic, k)

(* The broker's rule in closed form satisfies the rule level by level.      *)
LEMMA RestUnfolds ==
  ASSUME NEW filter \in Seq(STRING), NEW topic \in Seq(STRING),
         NEW i \in 1..Len(filter) + 1
  PROVE  RestMatches(filter, topic, i) =
           IF i = Len(filter) + 1 THEN i = Len(topic) + 1
           ELSE IF filter[i] = "#" THEN i <= Len(topic) + 1
           ELSE i <= Len(topic) /\ filter[i] \in {"+", topic[i]}
                /\ RestMatches(filter, topic, i + 1)
<1> DEFINE n == Len(filter)
<1>0. n \in Nat /\ Len(topic) \in Nat
  OBVIOUS
<1>1. CASE i = n + 1
  <2>1. i..n = {}
    BY <1>0, <1>1
  <2>2. RestMatches(filter, topic, i) <=> n = Len(topic)
    BY <2>1 DEF RestMatches
  <2>3. RestMatches(filter, topic, i) \in BOOLEAN
    BY DEF RestMatches
  <2>4. (n = Len(topic)) = (i = Len(topic) + 1)
    BY <1>0, <1>1
  <2> QED
    BY <1>1, <2>2, <2>3, <2>4
<1>2. CASE i <= n /\ filter[i] = "#"
  <2>1. ASSUME i <= Len(topic) + 1 PROVE RestMatches(filter, topic, i)
    <3>1. i \in i..n /\ i..(i - 1) = {}
      BY <1>0, <1>2
    <3> QED
      BY <1>2, <2>1, <3>1 DEF RestMatches
  <2>2. ASSUME RestMatches(filter, topic, i) PROVE i <= Len(topic) + 1
    <3>1. CASE \E j \in i..n : /\ filter[j] = "#" /\ j <= Len(topic) + 1
                               /\ \A k \in i..(j - 1) : Fits(filter, topic, k)
      BY <1>0, <3>1
    <3>2. CASE \A k \in i..n : Fits(filter, topic, k)
      BY <1>0, <1>2, <3>2 DEF Fits
    <3> QED
      BY <2>2, <3>1, <3>2 DEF RestMatches
  <2>3. RestMatches(filter, topic, i) \in BOOLEAN
    BY DEF RestMatches
  <2>4. i # n + 1
    BY <1>0, <1>2
  <2> QED
    BY <1>2, <2>1, <2>2, <2>3, <2>4
<1>3. CASE i <= n /\ filter[i] # "#"
  <2>1. ASSUME Fits(filter, topic, i), RestMatches(filter, topic, i + 1)
        PROVE  RestMatches(filter, topic, i)
    <3>1. CASE \E j \in (i + 1)..n : /\ filter[j] = "#" /\ j <= Len(topic) + 1
                                     /\ \A k \in (i + 1)..(j - 1) : Fits(filter, topic, k)
      <4>1. PICK j \in (i + 1)..n : /\ filter[j] = "#" /\ j <= Len(topic) + 1
                                   /\ \A k \in (i + 1)..(j - 1) : Fits(filter, topic, k)
        BY <3>1
      <4>2. \A k \in i..(j - 1) : k = i \/ k \in (i + 1)..(j - 1)
        BY <1>0
      <4>3. j \in i..n
        BY <1>0
      <4> QED
        BY <2>1, <4>1, <4>2, <4>3 DEF RestMatches
    <3>2. CASE n = Len(topic) /\ \A k \in (i + 1)..n : Fits(filter, topic, k)
      <4>1. \A k \in i..n : k = i \/ k \in (i + 1)..n
        BY <1>0
      <4> QED
        BY <2>1, <3>2, <4>1 DEF RestMatches
    <3> QED
      BY <2>1, <3>1, <3>2 DEF RestMatches
  <2>2. ASSUME RestMatches(filter, topic, i)
        PROVE  Fits(filter, topic, i) /\ RestMatches(filter, topic, i + 1)
    <3>1. CASE \E j \in i..n : /\ filter[j] = "#" /\ j <= Len(topic) + 1
                               /\ \A k \in i..(j - 1) : Fits(filter, topic, k)
      <4>1. PICK j \in i..n : /\ filter[j] = "#" /\ j <= Len(topic) + 1
                              /\ \A k \in i..(j - 1) : Fits(filter, topic, k)
        BY <3>1
      <4>2. i # j
        BY <1>3, <4>1
      <4>3. j \in (i + 1)..n /\ i \in i..(j - 1)
        BY <1>0, <4>2
      <4>4. \A k \in (i + 1)..(j - 1) : Fits(filter, topic, k)
        BY <1>0, <4>1
      <4> QED
        BY <4>1, <4>3, <4>4 DEF RestMatches
    <3>2. CASE n = Len(topic) /\ \A k \in i..n : Fits(filter, topic, k)
      BY <1>0, <1>3, <3>2 DEF RestMatches
    <3> QED
      BY <2>2, <3>1, <3>2 DEF RestMatches
  <2>3. RestMatches(filter, topic, i) \in BOOLEAN /\ RestMatches(filter, topic, i + 1) \in BOOLEAN
    BY DEF RestMatches
  <2>4. i # n + 1
    BY <1>0, <1>3
  <2> QED
    BY <1>3, <2>1, <2>2, <2>3, <2>4 DEF Fits
<1> QED
  BY <1>0, <1>1, <1>2, <1>3

(* MqttMatches is the closed form: the equation of its recursive function   *)
(* has a solution, and only that one.                                       *)
LEMMA MqttMatchesRest ==
  ASSUME NEW filter \in Seq(STRING), NEW topic \in Seq(STRING)
  PROVE  MqttMatches(filter, topic) = RestMatches(filter, topic, 1)
<1> DEFINE n == Len(filter)
           Rule(f) == [i \in 1..n + 1 |->
                         IF i = n + 1 THEN i = Len(topic) + 1
                         ELSE IF filter[i] = "#" THEN i <= Len(topic) + 1
                         ELSE i <= Len(topic) /\ filter[i] \in {"+", topic[i]} /\ f[i + 1]]
           closed == [i \in 1..n + 1 |-> RestMatches(filter, topic, i)]
           from == CHOOSE f : f = Rule(f)
<1>1. MqttMatches(filter, topic) = from[1]
  BY DEF MqttMatches
<1>2. n \in Nat
  OBVIOUS
<1>3. closed = Rule(closed)
  <2>1. \A i \in 1..n : i + 1 \in 1..n + 1
    BY <1>2
  <2>2. ASSUME NEW i \in 1..n + 1
        PROVE  closed[i] = Rule(closed)[i]
    <3> HIDE DEF n
    <3>1. CASE i = n + 1
      BY <3>1, RestUnfolds DEF n
    <3>2. CASE i # n + 1
      <4>1. i \in 1..n
        BY <1>2, <3>2
      <4>2. closed[i + 1] = RestMatches(filter, topic, i + 1)
        BY <2>1, <4>1
      <4> QED
        BY <3>2, <4>1, <4>2, RestUnfolds DEF n
    <3> QED
      BY <3>1, <3>2
  <2> HIDE DEF n
  <2> QED
    BY <2>2
<1>4. from = Rule(from)
  <2> HIDE DEF Rule, closed
  <2> QED
    BY <1>3
<1>5. \A i \in 1..n + 1 : from[i] = closed[i]
  <2> DEFINE wrong == {m \in 0..n : from[n + 1 - m] # closed[n + 1 - m]}
  <2>1. SUFFICES ASSUME wrong # {} PROVE FALSE
    <3>1. ASSUME wrong = {}, NEW i \in 1..n + 1 PROVE from[i] = closed[i]
      <4>1. n + 1 - i \in 0..n /\ n + 1 - (n + 1 - i) = i
        BY <1>2
      <4> HIDE DEF from, closed, n
      <4> QED
        BY <3>1, <4>1
    <3> QED
      BY <3>1
  <2>2. wrong \subseteq Nat
    BY <1>2
  <2>3. PICK m \in wrong : \A k \in wrong : m <= k
    <3> HIDE DEF wrong
    <3> QED
      BY <2>1, <2>2, LeastOfIsLeast
  <2> DEFINE i == n + 1 - m
  <2>4. i \in 1..n + 1 /\ from[i] # closed[i]
    BY <1>2, <2>3
  <2>5. i # n + 1
    BY <1>2, <1>3, <1>4, <2>4
  <2>6. m - 1 \in 0..n /\ n + 1 - (m - 1) = i + 1 /\ ~(m <= m - 1)
    BY <1>2, <2>3, <2>5
  <2>7. from[i + 1] = closed[i + 1]
    <3> HIDE DEF from, closed, n
    <3> QED
      BY <2>3, <2>6
  <2>8. from[i] = Rule(from)[i] /\ closed[i] = Rule(closed)[i]
    BY <1>3, <1>4
  <2> HIDE DEF from, closed, n, i
  <2>9. Rule(from)[i] = Rule(closed)[i]
    BY <2>4, <2>7
  <2> QED
    BY <2>4, <2>8, <2>9
<1> QED
  BY <1>1, <1>2, <1>5

(* The empty level by name, and what TopicPattern says of it in its terms.   *)
NoName == ""

LEMMA StrippedToNames ==
  ASSUME NEW levels
  PROVE  Stripped(levels) =
           LET named == {i \in DOMAIN levels : levels[i] # NoName}
           IN  IF named = {} THEN <<NoName>>
               ELSE SubSeq(levels, LeastOf(named), GreatestOf(named))
BY Zenon DEF Stripped, NoName

LEMMA PatternHasNames ==
  ASSUME NEW raw, IsPattern(raw), Stripped(raw) = raw
  PROVE  \A i \in DOMAIN raw : raw[i] # NoName /\ (raw[i] = "#" => i = Len(raw))
BY Zenon DEF IsPattern, NoName

LEMMA MatchesLevels ==
  ASSUME NEW raw, NEW topic, Stripped(raw) = raw, Stripped(topic) = topic
  PROVE  LET multi == raw[Len(raw)] = "#"
             fixed == IF multi THEN Len(raw) - 1 ELSE Len(raw)
         IN  Matches(Pattern(raw), topic) <=>
               /\ IF multi THEN Len(topic) >= fixed ELSE Len(topic) = fixed
               /\ \A i \in 1..fixed :
                     IF raw[i] = "+" THEN topic[i] # NoName ELSE topic[i] = raw[i]
<1>1. Pattern(raw).segments = raw
  BY Zenon DEF Pattern
<1> QED
  BY <1>1, Zenon DEF Matches, NoName

(* A filter that the router accepts, and that has no slash at its ends, has *)
(* a first level, and a # only as its last one.                             *)
LEMMA PatternLevels ==
  ASSUME NEW filter \in Seq(STRING), IsPattern(filter), Stripped(filter) = filter
  PROVE  /\ Len(filter) >= 1
         /\ \A i \in 1..Len(filter) : filter[i] = "#" => i = Len(filter)
<1>1. Len(filter) \in Nat /\ DOMAIN filter = 1..Len(filter)
  OBVIOUS
<1>2. \A i \in 1..Len(filter) : filter[i] # NoName /\ (filter[i] = "#" => i = Len(filter))
  BY <1>1, PatternHasNames
<1>3. Len(filter) # 0
  <2>1. SUFFICES ASSUME Len(filter) = 0 PROVE FALSE
    OBVIOUS
  <2>2. {i \in DOMAIN filter : filter[i] # NoName} = {}
    BY <1>1, <2>1
  <2>3. filter = <<NoName>>
    BY <2>2, StrippedToNames
  <2> QED
    BY <2>1, <2>3
<1>4. Len(filter) >= 1
  BY <1>1, <1>3
<1> QED
  BY <1>2, <1>4, Zenon

(* Of such a filter and a topic without a slash at its ends, the router and *)
(* the broker say the same, but that a + of the router is not empty.        *)
LEMMA RouterAgreesWithBroker ==
  ASSUME NEW filter \in Seq(STRING), IsPattern(filter), Stripped(filter) = filter,
         NEW topic \in Seq(STRING), Stripped(topic) = topic
  PROVE  Matches(Pattern(filter), topic) <=>
           /\ MqttMatches(filter, topic)
           /\ \A i \in 1..Len(filter) : filter[i] = "+" => topic[i] # NoName
<1> DEFINE n == Len(filter)
           multi == filter[n] = "#"
           fixed == IF multi THEN n - 1 ELSE n
           Named == \A i \in 1..n : filter[i] = "+" => topic[i] # NoName
<1>1. /\ n \in Nat /\ n >= 1 /\ Len(topic) \in Nat
      /\ \A i \in 1..n : filter[i] = "#" => i = n
  BY PatternLevels
<1>2. Matches(Pattern(filter), topic) <=>
        /\ IF multi THEN Len(topic) >= fixed ELSE Len(topic) = fixed
        /\ \A i \in 1..fixed :
              IF filter[i] = "+" THEN topic[i] # NoName ELSE topic[i] = filter[i]
  BY MatchesLevels
<1>3. MqttMatches(filter, topic) <=> RestMatches(filter, topic, 1)
  BY MqttMatchesRest
<1>4. CASE multi
  <2>1. RestMatches(filter, topic, 1) <=>
          n <= Len(topic) + 1 /\ \A k \in 1..n - 1 : Fits(filter, topic, k)
    <3>1. n \in 1..n /\ \A j \in 1..n : filter[j] = "#" <=> j = n
      BY <1>1, <1>4
    <3>2. ~Fits(filter, topic, n)
      BY <1>4 DEF Fits
    <3> HIDE DEF n, multi
    <3> QED
      BY <3>1, <3>2 DEF RestMatches, n
  <2>2. \A k \in 1..n - 1 : filter[k] # "#" /\ k \in 1..n /\ k \in Int
    BY <1>1
  <2>3. Named <=> \A k \in 1..n - 1 : filter[k] = "+" => topic[k] # NoName
    <3>1. \A k \in 1..n : k = n \/ k \in 1..n - 1
      BY <1>1
    <3> QED
      BY <1>4, <2>2, <3>1
  <2>4. fixed = n - 1 /\ (Len(topic) >= n - 1 <=> n <= Len(topic) + 1)
    BY <1>1, <1>4
  <2>5. ASSUME Len(topic) >= n - 1
        PROVE  \A k \in 1..n - 1 :
                 Fits(filter, topic, k) /\ (filter[k] = "+" => topic[k] # NoName) <=>
                   IF filter[k] = "+" THEN topic[k] # NoName ELSE topic[k] = filter[k]
    BY <1>1, <2>2, <2>5 DEF Fits
  <2> HIDE DEF n, multi, fixed
  <2> QED
    BY <1>2, <1>3, <1>4, <2>1, <2>3, <2>4, <2>5 DEF Named, n
<1>5. CASE ~multi
  <2>1. RestMatches(filter, topic, 1) <=>
          n = Len(topic) /\ \A k \in 1..n : Fits(filter, topic, k)
    BY <1>1, <1>5 DEF RestMatches
  <2>2. ASSUME Len(topic) = n
        PROVE  \A k \in 1..n :
                 Fits(filter, topic, k) /\ (filter[k] = "+" => topic[k] # NoName) <=>
                   IF filter[k] = "+" THEN topic[k] # NoName ELSE topic[k] = filter[k]
    BY <1>1, <1>5, <2>2 DEF Fits
  <2>3. fixed = n
    BY <1>5
  <2> HIDE DEF n, multi, fixed
  <2> QED
    BY <1>2, <1>3, <1>5, <2>1, <2>2, <2>3 DEF Named, n
<1> QED
  BY <1>4, <1>5

(* A topic without empty levels has no slash at its ends. *)
LEMMA NamedLevelsAreStripped ==
  ASSUME NEW topic \in Seq(STRING), Len(topic) >= 1,
         \A i \in 1..Len(topic) : topic[i] # NoName
  PROVE  Stripped(topic) = topic
<1> DEFINE n == Len(topic)
<1>1. n \in Nat /\ n >= 1 /\ DOMAIN topic = 1..n
  OBVIOUS
<1>2. {i \in DOMAIN topic : topic[i] # NoName} = 1..n /\ 1..n # {}
  BY <1>1
<1>3. LeastOf(1..n) = 1
  <2>1. LeastOf(1..n) \in 1..n /\ \A j \in 1..n : LeastOf(1..n) <= j
    <3>1. 1..n \subseteq Nat /\ 1..n # {}
      BY <1>1
    <3> HIDE DEF n
    <3> QED
      BY <3>1, LeastOfIsLeast
  <2> QED
    BY <1>1, <2>1
<1>4. GreatestOf(1..n) = n
  <2>1. n \in 1..n /\ \A j \in 1..n : n >= j
    BY <1>1
  <2>2. \A i, k \in 1..n : i >= k /\ k >= i => i = k
    BY <1>1
  <2> HIDE DEF n
  <2> QED
    BY <2>1, <2>2 DEF GreatestOf
<1>5. Stripped(topic) = SubSeq(topic, 1, n)
  <2> HIDE DEF n
  <2> QED
    BY <1>2, <1>3, <1>4, StrippedToNames
<1> QED
  BY <1>1, <1>5

-----------------------------------------------------------------------------
(* The routes of a topic and the filters of the settings. The setting of a  *)
(* filter with a slash at an end is excluded: the router trims it, the      *)
(* broker does not, and what follows is false of it.                        *)
FiltersAreStripped == \A k \in RouteKeys : Stripped(TopicRoutes[k]) = TopicRoutes[k]

NoEmptyLevels ==
  \A t \in Topics \cup {TopicRoutes["DLQ"]} : \A i \in 1..Len(t) : t[i] # NoName

LEMMA RouteTypes ==
  ASSUME RoutesInv
  PROVE  /\ \A k \in RouteKeys : \E i \in DOMAIN routes : routes[i] = k
         /\ DOMAIN routes \subseteq Nat
         /\ \A i \in DOMAIN routes : routes[i] \in RouteKeys
<1>1. /\ routes \in [1..Cardinality(RouteKeys) -> RouteKeys]
      /\ \A k \in RouteKeys : \E i \in 1..Cardinality(RouteKeys) : routes[i] = k
  BY DEF RoutesInv, Bijection, Surjection, Injection
<1>2. Cardinality(RouteKeys) \in Nat
  BY RoutesAssumption, FS_CardinalityType, FS_Subset DEF RouteKeys
<1>3. 1..Cardinality(RouteKeys) \subseteq Nat
  BY <1>2
<1> QED
  BY <1>1, <1>3

(* The route that FindRoute returns matches the topic; without a route, no  *)
(* configured filter does.                                                  *)
LEMMA RouteMatches ==
  ASSUME RoutesInv
  PROVE  /\ Route # None => Route \in RouteKeys /\ Matches(RoutePattern(Route), ctx.topic)
         /\ Route = None => \A k \in RouteKeys : ~Matches(RoutePattern(k), ctx.topic)
<1> DEFINE hits == {i \in DOMAIN routes : Matches(RoutePattern(routes[i]), ctx.topic)}
<1>1. /\ \A k \in RouteKeys : \E i \in DOMAIN routes : routes[i] = k
      /\ DOMAIN routes \subseteq Nat
      /\ \A i \in DOMAIN routes : routes[i] \in RouteKeys
  BY RouteTypes
<1>2. Route = IF hits = {} THEN None ELSE routes[LeastOf(hits)]
  BY DEF Route, FindRoute
<1>3. None \notin RouteKeys
  BY DEF None, RouteKeys
<1>4. hits # {} => LeastOf(hits) \in hits
  <2>1. hits \subseteq Nat
    BY <1>1
  <2> HIDE DEF hits
  <2> QED
    BY <2>1, LeastOfIsLeast
<1>5. ASSUME Route # None
      PROVE  Route \in RouteKeys /\ Matches(RoutePattern(Route), ctx.topic)
  BY <1>1, <1>2, <1>4, <1>5
<1>6. ASSUME Route = None, NEW k \in RouteKeys
      PROVE  ~Matches(RoutePattern(k), ctx.topic)
  <2>1. hits = {}
    BY <1>1, <1>2, <1>3, <1>4, <1>6
  <2> QED
    BY <1>1, <2>1
<1> QED
  BY <1>5, <1>6

(* What goes to the DLQ for want of a route has none; and the topic of the  *)
(* message is one that was delivered.                                       *)
RoutingInv ==
  /\ ctx.dlq_reason = "no_route" => Route = None
  /\ stage # "idle" => ctx.topic \in Topics \cup {TopicRoutes["DLQ"]}

LEMMA InitRouting == Init => RoutingInv
BY DEF Init, NewContext, None, RoutingInv

LEMMA StepRouting == StagesInv /\ RoutingInv /\ [Next]_vars => RoutingInv'
<1> SUFFICES ASSUME StagesInv, RoutingInv, [Next]_vars PROVE RoutingInv'
  OBVIOUS
<1> USE DEF None
<1>1. ASSUME NEW reason, StopsForDlq(reason), UNCHANGED <<routes, returned>>, stage # "idle",
             ctx.dlq_reason = None, reason # "no_route" \/ Route = None
      PROVE  RoutingInv'
  <2>1. ctx'.dlq_reason = reason /\ Route' = Route /\ ctx'.topic = ctx.topic
    BY <1>1, StopMarks, RouteStays DEF StagesInv
  <2> QED
    BY <1>1, <2>1 DEF RoutingInv
<1>2. CASE UNCHANGED <<routes, ctx, returned>> /\ stage # "idle"
  BY <1>2, ContextStays DEF RoutingInv
<1>3. CASE NextMessage
  <2>1. ctx'.dlq_reason = None /\ stage' = "idle"
    BY <1>3, NewContextTypes DEF NextMessage
  <2> QED
    BY <2>1 DEF RoutingInv
<1>4. CASE Receive \/ Return
  <2>1. PICK t \in Topics \cup {TopicRoutes["DLQ"]} : \E p : ctx' = NewContext(t, p)
    BY <1>4, Zenon DEF Receive, Return
  <2>2. ctx'.dlq_reason = None /\ ctx'.topic = t
    BY <2>1, NewContextTypes
  <2> QED
    BY <2>2 DEF RoutingInv
<1>5. stage \notin {"dlq_publish", "done"} => ctx.dlq_reason = None
  BY DEF StagesInv, CheckingInv
<1>6. CASE Decode
  BY <1>1, <1>2, <1>5, <1>6 DEF Decode
<1>7. CASE ValidateRaw
  BY <1>1, <1>2, <1>5, <1>7 DEF ValidateRaw, Route
<1>8. CASE Transform
  <2>1. CASE ctx' = [ctx EXCEPT !.handled = Canonical(Route, ctx.payload)]
    <3>1. ctx'.dlq_reason = None /\ ctx'.topic = ctx.topic /\ stage = "transform"
      BY <1>5, <1>8, <2>1 DEF Transform, StagesInv, ContextInv
    <3> QED
      BY <3>1 DEF RoutingInv
  <2> QED
    BY <1>1, <1>5, <1>8, <2>1 DEF Transform, Route
<1>9. CASE ValidateBusiness
  BY <1>1, <1>2, <1>5, <1>9 DEF ValidateBusiness
<1>10. CASE Persist
  BY <1>1, <1>2, <1>5, <1>10 DEF Persist
<1>11. CASE CacheUpdate \/ Observe \/ DlqPublish
  BY <1>2, <1>11 DEF CacheUpdate, Observe, DlqPublish
<1>12. CASE UNCHANGED vars
  BY <1>12, ContextStays DEF vars, RoutingInv
<1> QED
  BY <1>3, <1>4, <1>6, <1>7, <1>8, <1>9, <1>10, <1>11, <1>12 DEF Next

-----------------------------------------------------------------------------
(* What persist stores as a type, the broker delivers under the filter of   *)
(* that type, whatever the order of the routes and the other subscriptions: *)
(* StoredAsPublished, for filters without a slash at an end.                *)
THEOREM StoredUnderItsFilter ==
  ASSUME FiltersAreStripped
  PROVE  Spec => []StoredAsPublished
<1>1. StagesInv /\ ContextTypes /\ RoutingInv => StoredAsPublished
  <2> SUFFICES ASSUME StagesInv, ContextTypes, RoutingInv, "stored" \in effects,
                      Stripped(ctx.topic) = ctx.topic
               PROVE  MqttMatches(TopicRoutes[ctx.handled.type], ctx.topic)
    BY DEF StoredAsPublished
  <2>1. Route # None /\ ctx.handled.type = Route
    BY DEF StagesInv, EffectInv, Transformed, Canonical
  <2>2. Route \in RouteKeys /\ Matches(Pattern(TopicRoutes[Route]), ctx.topic)
    BY <2>1, RouteMatches DEF ContextTypes, RoutePattern
  <2>3. /\ TopicRoutes[Route] \in Seq(STRING) /\ IsPattern(TopicRoutes[Route])
        /\ Stripped(TopicRoutes[Route]) = TopicRoutes[Route]
    BY <2>2, RoutesAssumption DEF RouteKeys, FiltersAreStripped
  <2>4. ctx.topic \in Topics \cup {TopicRoutes["DLQ"]}
    BY DEF StagesInv, CheckingInv, RoutingInv
  <2>5. ctx.topic \in Seq(STRING)
    BY <2>4, RoutesAssumption
  <2> QED
    BY <2>1, <2>2, <2>3, <2>5, RouterAgreesWithBroker
<1> QED
  BY <1>1, InvariantHolds, InitTypes, StepTypes, InitRouting, StepRouting, PTL DEF Spec

(* A message that the broker delivers under the filter of a route finds a   *)
(* route: DeliveredIsRouted, for filters without a slash at an end and      *)
(* topics without empty levels, which a + of the router does not take.      *)
THEOREM DeliveredFindsRoute ==
  ASSUME FiltersAreStripped, NoEmptyLevels
  PROVE  Spec => []DeliveredIsRouted
<1>1. StagesInv /\ ContextTypes /\ RoutingInv => DeliveredIsRouted
  <2> SUFFICES ASSUME StagesInv, ContextTypes, RoutingInv, ctx.dlq_reason = "no_route",
                      NEW k \in RouteKeys
               PROVE  ~MqttMatches(TopicRoutes[k], ctx.topic)
    BY DEF DeliveredIsRouted
  <2> DEFINE f == TopicRoutes[k]
             t == ctx.topic
  <2>1. ~Matches(Pattern(f), t)
    BY RouteMatches DEF ContextTypes, RoutingInv, RoutePattern
  <2>2. f \in Seq(STRING) /\ IsPattern(f) /\ Stripped(f) = f
    BY RoutesAssumption DEF RouteKeys, FiltersAreStripped
  <2>3. t \in Topics \cup {TopicRoutes["DLQ"]}
    BY DEF StagesInv, CheckingInv, RoutingInv, None
  <2>4. t \in Seq(STRING) /\ Len(t) >= 1 /\ \A i \in 1..Len(t) : t[i] # NoName
    BY <2>3, RoutesAssumption DEF NoEmptyLevels
  <2> HIDE DEF f, t
  <2>5. Stripped(t) = t
    BY <2>4, NamedLevelsAreStripped
  <2>6. MqttMatches(f, t) => \A i \in 1..Len(f) : f[i] = "+" => t[i] # NoName
    <3>1. SUFFICES ASSUME RestMatches(f, t, 1), NEW i \in 1..Len(f), f[i] = "+"
                   PROVE  i \in 1..Len(t)
      BY <2>2, <2>4, MqttMatchesRest
    <3>2. \A j \in 1..Len(f) : f[j] = "#" => j = Len(f)
      BY <2>2, PatternLevels
    <3>3. Len(f) \in Nat /\ Len(t) \in Nat
      BY <2>2, <2>4
    <3>4. CASE \E j \in 1..Len(f) : /\ f[j] = "#" /\ j <= Len(t) + 1
                                    /\ \A m \in 1..(j - 1) : Fits(f, t, m)
      <4>1. PICK j \in 1..Len(f) : /\ f[j] = "#" /\ j <= Len(t) + 1
                                   /\ \A m \in 1..(j - 1) : Fits(f, t, m)
        BY <3>4
      <4>2. j = Len(f) /\ i # j
        BY <3>1, <3>2, <4>1
      <4> QED
        BY <3>3, <4>1, <4>2
    <3>5. CASE Len(f) = Len(t)
      BY <3>5
    <3> QED
      BY <3>1, <3>4, <3>5 DEF RestMatches
  <2>7. Matches(Pattern(f), t) <=>
          MqttMatches(f, t) /\ \A i \in 1..Len(f) : f[i] = "+" => t[i] # NoName
    BY <2>2, <2>4, <2>5, RouterAgreesWithBroker
  <2>8. ~MqttMatches(f, t)
    BY <2>1, <2>6, <2>7, Zenon
  <2> QED
    BY <2>8 DEF f, t
<1> QED
  BY <1>1, InvariantHolds, InitTypes, StepTypes, InitRouting, StepRouting, PTL DEF Spec

(* What the service has published to the DLQ and gets back ends neither in  *)
(* the cache nor in the log, whatever filters and routes cover the DLQ      *)
(* topic: RejectedStaysOut.                                                 *)
THEOREM RejectedMessagesStayOut == Spec => []RejectedStaysOut
<1>1. StagesInv => RejectedStaysOut
  BY DEF StagesInv, ContextInv, EffectInv, Transformed, RejectedStaysOut
<1> QED
  BY <1>1, InvariantHolds, PTL
=============================================================================
