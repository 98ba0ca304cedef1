------------------------------ MODULE MqttSource ------------------------------
(***************************************************************************)
(* The task that polls the MQTT event loop: connection, subscription,      *)
(* readiness, incoming publishes, reconnection and shutdown. The request   *)
(* channel in front of the event loop is shared by the task's own          *)
(* subscribe requests and by the workers' DLQ publishes; only poll drains  *)
(* it. The broker and rumqttc are external: an event of a lost connection  *)
(* is taken not to be delivered after the next ConnAck.                    *)
(***************************************************************************)
EXTENDS IngestJobs

CONSTANTS
  Subscribe,       \* the request that subscribes to every filter
  RequestCapacity  \* of the channel of AsyncClient (10 in the code)

ASSUME RequestCapacityAssumption ==
  RequestCapacity \in Nat \ {0} /\ Subscribe \notin Messages

VARIABLES
  spc,                \* poll, subscribe, dispatch, backoff, gone or panicked
  held,               \* the publish in the task's hand
  link,               \* the event loop's connection: down, up or closing
  requests,           \* the request channel
  subscribe_pending,
  ready,              \* source_ready, what /readyz answers
  unanswered,         \* subscribe requests sent in this connection, no SubAck yet
  granted,            \* a successful SubAck of this connection was received
  refused             \* a SubAck of this connection held a failure

connVars == <<link, unanswered, granted, refused>>
mqttVars == <<spc, held, requests, subscribe_pending, ready, connVars>>

MqttTypeOK ==
  /\ spc \in {"poll", "subscribe", "dispatch", "backoff", "gone", "panicked"}
  /\ held \in Messages \cup {NoMessage}
  /\ link \in {"down", "up", "closing"}
  /\ requests \in Seq(Messages \cup {Subscribe}) /\ Len(requests) <= RequestCapacity
  /\ {subscribe_pending, ready, granted, refused} \subseteq BOOLEAN
  /\ unanswered \in Nat

MqttInit ==
  /\ spc = "poll" /\ held = NoMessage /\ requests = <<>>
  /\ subscribe_pending = FALSE /\ ready = FALSE
  /\ link = "down" /\ unanswered = 0 /\ granted = FALSE /\ refused = FALSE

SourceGone == spc \in {"gone", "panicked"}
RequestFits == Len(requests) < RequestCapacity

(* What follows every event of poll but an error. *)
AfterEvent(message) ==
  /\ held' = message
  /\ spc' = CASE subscribe_pending' -> "subscribe"
              [] ~subscribe_pending' /\ message # NoMessage -> "dispatch"
              [] OTHER -> "poll"

-----------------------------------------------------------------------------
ConnAck ==
  /\ spc = "poll" /\ link = "down"
  /\ link' = "up" /\ unanswered' = 0 /\ granted' = FALSE /\ refused' = FALSE
  /\ subscribe_pending' = TRUE
  /\ AfterEvent(NoMessage)
  /\ UNCHANGED <<requests, ready>>

(* Mutant of PollFails: the readiness of the lost connection stays. *)
PollFailsStaysReady ==
  /\ spc = "poll"
  /\ spc' = "backoff"
  /\ link' = "down" /\ unanswered' = 0 /\ granted' = FALSE /\ refused' = FALSE
  /\ requests' \in IF link = "down" THEN {requests} ELSE {requests, <<>>}
  /\ UNCHANGED <<held, subscribe_pending, ready>>

(* poll returns an error: no connection, or the loss of one, with which    *)
(* the queued requests may be lost (a clean session) or kept.              *)
PollFails ==
  /\ spc = "poll"
  /\ ready' = FALSE
  /\ spc' = "backoff"
  /\ link' = "down" /\ unanswered' = 0 /\ granted' = FALSE /\ refused' = FALSE
  /\ requests' \in IF link = "down" THEN {requests} ELSE {requests, <<>>}
  /\ UNCHANGED <<held, subscribe_pending>>

BackoffEnds ==
  /\ spc = "backoff"
  /\ spc' = "poll"
  /\ UNCHANGED <<held, requests, subscribe_pending, ready, connVars>>

(* poll takes the next request from the channel and writes it out. Pings   *)
(* and the acks of DLQ publishes have no other effect than this retry.     *)
SendRequest ==
  /\ spc = "poll" /\ link = "up" /\ requests # <<>>
  /\ requests' = Tail(requests)
  /\ unanswered' = IF Head(requests) = Subscribe THEN unanswered + 1 ELSE unanswered
  /\ UNCHANGED <<subscribe_pending, ready, link, granted, refused>>
  /\ AfterEvent(NoMessage)

SubAck ==
  /\ spc = "poll" /\ link = "up" /\ unanswered > 0
  /\ unanswered' = unanswered - 1
  /\ \/ ready' = TRUE /\ granted' = TRUE /\ UNCHANGED refused
     \/ refused' = TRUE /\ UNCHANGED <<ready, granted>>
  /\ UNCHANGED <<requests, subscribe_pending, link>>
  /\ AfterEvent(NoMessage)

(* The broker announces the end of the connection. *)
DisconnectPacket ==
  /\ spc = "poll" /\ link = "up"
  /\ ready' = FALSE
  /\ link' = "closing"
  /\ UNCHANGED <<requests, subscribe_pending, unanswered, granted, refused>>
  /\ AfterEvent(NoMessage)

ReceivePublish(m) ==
  /\ spc = "poll" /\ link = "up"
  /\ UNCHANGED <<requests, subscribe_pending, ready, connVars>>
  /\ AfterEvent(m)

HandedOver == spc' = IF held = NoMessage THEN "poll" ELSE "dispatch"

(* Mutant of TrySubscribe: the waiting variant of the call. *)
AwaitSubscribe ==
  /\ spc = "subscribe"
  /\ RequestFits
  /\ requests' = Append(requests, Subscribe)
  /\ subscribe_pending' = FALSE
  /\ HandedOver
  /\ UNCHANGED <<held, ready, connVars>>

(* Never waits: the channel is drained by this same task. *)
TrySubscribe ==
  /\ spc = "subscribe"
  /\ \/ /\ RequestFits
        /\ requests' = Append(requests, Subscribe)
        /\ subscribe_pending' = FALSE
     \/ ~RequestFits /\ UNCHANGED <<requests, subscribe_pending>>
  /\ HandedOver
  /\ UNCHANGED <<held, ready, connVars>>

(* The end of the task drops the event loop: the connection and the        *)
(* channel close, what was still in it never reaches the broker.           *)
TaskEnds(how) ==
  /\ spc' = how
  /\ requests' = <<>> /\ subscribe_pending' = FALSE
  /\ link' = "down" /\ unanswered' = 0 /\ granted' = FALSE /\ refused' = FALSE
  /\ UNCHANGED <<held, ready>>

SourceStops(shutdown) ==
  spc \in {"poll", "backoff"} /\ shutdown /\ TaskEnds("gone")

SourcePanics == spc = "poll" /\ TaskEnds("panicked")

SourceEvent ==
  \/ ConnAck \/ PollFails \/ BackoffEnds \/ SendRequest \/ SubAck
  \/ DisconnectPacket \/ TrySubscribe
=============================================================================
