------------------------------- MODULE Pipeline -------------------------------
(***************************************************************************)
(* PipelineRunner::run as a worker executes it on the job in its hand:     *)
(* the stages that only look at the message, the durable append, and the   *)
(* DLQ publish as failure stage, which waits for room in the MQTT client's *)
(* request channel. The cache stage is module SensorCache and the append   *)
(* module WalWriter; here an append ends well or badly.                    *)
(***************************************************************************)
EXTENDS WorkerPool, MqttSource

CONSTANT RefusedBy  \* the stage each message fails in, or "none"

CheckingStages == {"decode", "validate_raw", "transform", "validate_business"}

ASSUME RefusedByAssumption == RefusedBy \in [Messages -> CheckingStages \cup {"none"}]

(* The router is strict: a topic without a route is refused, not ignored. *)
Decodes(m) == RefusedBy[m] # "decode"
ValidRaw(m) == RefusedBy[m] # "validate_raw"
Transforms(m) == RefusedBy[m] # "transform"
ValidBusiness(m) == RefusedBy[m] # "validate_business"

RunStages(w) ==
  /\ wpc[w] = "run"
  /\ LET m == hand[w] IN
       GoesTo(w, IF Decodes(m) /\ ValidRaw(m) /\ Transforms(m) /\ ValidBusiness(m)
                 THEN "persist" ELSE "dlq")
  /\ UNCHANGED <<next, queues, hand, job, late, shutdown, mqttVars>>

(* The pipeline is done with the job. *)
Ends(w, outcome) ==
  /\ job' = [job EXCEPT ![hand[w]] = outcome]
  /\ hand' = [hand EXCEPT ![w] = NoMessage]
  /\ GoesTo(w, "check")

(* append_durable returned Ok, and the observe stage has counted it. *)
Persisted(w) ==
  /\ wpc[w] = "persist"
  /\ Ends(w, "persisted")
  /\ UNCHANGED <<next, queues, late, shutdown, mqttVars>>

(* It returned Full, Closed or Durability. *)
PersistFails(w) ==
  /\ wpc[w] = "persist"
  /\ GoesTo(w, "dlq")
  /\ UNCHANGED <<next, queues, hand, job, late, shutdown, mqttVars>>

(* Mutant of DlqPublish: it does not notice that the event loop is gone. *)
DlqPublishWaits(w) ==
  /\ wpc[w] = "dlq"
  /\ ~SourceGone /\ RequestFits
  /\ requests' = Append(requests, hand[w])
  /\ Ends(w, "dlq_queued")
  /\ UNCHANGED <<next, queues, late, shutdown, spc, held, subscribe_pending,
                 ready, connVars>>

DlqPublish(w) ==
  /\ wpc[w] = "dlq"
  /\ \/ /\ ~SourceGone /\ RequestFits
        /\ requests' = Append(requests, hand[w])
        /\ Ends(w, "dlq_queued")
     \/ /\ SourceGone
        /\ Ends(w, "dlq_failed")
        /\ UNCHANGED requests
  /\ UNCHANGED <<next, queues, late, shutdown, spc, held, subscribe_pending,
                 ready, connVars>>
=============================================================================
