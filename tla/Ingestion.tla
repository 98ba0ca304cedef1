------------------------------ MODULE Ingestion ------------------------------
(***************************************************************************)
(* The ingestion side of the service as main wires it: the MQTT source,    *)
(* the worker queues, the workers running the pipeline, and the shutdown   *)
(* sequence. The log and the forwarder stand behind the persist stage and  *)
(* the last step of main; they are the Wal modules.                        *)
(***************************************************************************)
EXTENDS Pipeline

VARIABLE main  \* serve, join_source, join_workers, drain or stopped

vars == <<poolVars, mqttVars, main>>

IngestionTypeOK ==
  /\ PoolTypeOK /\ MqttTypeOK
  /\ main \in {"serve", "join_source", "join_workers", "drain", "stopped"}

Init == PoolInit /\ MqttInit /\ main = "serve"

-----------------------------------------------------------------------------
SourceLoop == SourceEvent /\ UNCHANGED <<poolVars, main>>

SourceReceives ==
  /\ \E m \in Messages : job[m] = "new" /\ ReceivePublish(m)
  /\ UNCHANGED <<poolVars, main>>

SourceDispatches ==
  /\ spc = "dispatch"
  /\ Dispatch(held)
  /\ held' = NoMessage
  /\ spc' = "poll"
  /\ UNCHANGED <<requests, subscribe_pending, ready, connVars, main>>

SourceSeesShutdown == SourceStops(shutdown) /\ UNCHANGED <<poolVars, main>>

SourceFails == SourcePanics /\ UNCHANGED <<poolVars, main>>

Source == SourceLoop \/ SourceReceives \/ SourceDispatches \/ SourceSeesShutdown

-----------------------------------------------------------------------------
(* main drops its senders before it joins the workers; the dispatcher's go *)
(* with the source.                                                        *)
SendersDropped == main \in {"join_workers", "drain", "stopped"}

RecvWorkerJob(w) ==
  /\ \/ WaitForJob(w) \/ TryRecv(w) \/ Recv(w) \/ SeesSignal(w)
     \/ SeesClosed(w, SendersDropped) \/ Leave(w)
  /\ UNCHANGED mqttVars

RunPipeline(w) ==
  RunStages(w) \/ Persisted(w) \/ PersistFails(w) \/ DlqPublish(w)

Worker(w) == (RecvWorkerJob(w) \/ RunPipeline(w)) /\ UNCHANGED main

-----------------------------------------------------------------------------
(* Ctrl-C, SIGTERM or the end of the HTTP task. *)
Signal ==
  /\ main = "serve"
  /\ shutdown' = TRUE
  /\ main' = "join_source"
  /\ UNCHANGED <<next, queues, wpc, hand, job, late, mqttVars>>

JoinedSource ==
  /\ SourceGone
  /\ ready' = (ready /\ spc # "panicked")
  /\ main' = "join_workers"
  /\ UNCHANGED <<spc, held, requests, subscribe_pending, connVars>>

SourceEnded ==
  /\ main = "serve"
  /\ JoinedSource
  /\ shutdown' = TRUE
  /\ UNCHANGED <<next, queues, wpc, hand, job, late>>

JoinSource == main = "join_source" /\ JoinedSource /\ UNCHANGED poolVars

JoinWorkers ==
  /\ main = "join_workers"
  /\ \A w \in Workers : wpc[w] = "gone"
  /\ main' = "drain"
  /\ UNCHANGED <<poolVars, mqttVars>>

(* The forwarder task ended, or five seconds have passed. *)
Drained ==
  /\ main = "drain"
  /\ main' = "stopped"
  /\ UNCHANGED <<poolVars, mqttVars>>

Main == SourceEnded \/ JoinSource \/ JoinWorkers \/ Drained

Next == Source \/ SourceFails \/ (\E w \in Workers : Worker(w)) \/ Signal \/ Main

Spec == Init /\ [][Next]_vars

(* The runtime polls every task that can go on; an append returns (module  *)
(* WalWriter); the broker answers. The select of the source is unbiased:   *)
(* it cannot choose poll over a pending shutdown for ever.                 *)
FairSpec ==
  /\ Spec
  /\ WF_vars(Source) /\ SF_vars(SourceSeesShutdown)
  /\ \A w \in Workers : WF_vars(Worker(w))
  /\ WF_vars(Main)

-----------------------------------------------------------------------------
(* A job that was queued before shutdown was signalled is settled by the   *)
(* time the service has stopped, however the workers, the source and the   *)
(* signal interleave: persisted, handed to the DLQ client, or counted as a *)
(* DLQ error. Only a job dispatched after the signal can be lost.          *)
BacklogIsSettled ==
  /\ \A m \in Messages : job[m] = "lost" => m \in late
  /\ main = "stopped" => \A m \in Messages : job[m] \notin {"queued", "running"}

(* /readyz answers 200 only while the source holds a subscription the      *)
(* broker has granted in this very connection (until the source is gone).  *)
ReadyMeansSubscribed == ready /\ ~SourceGone => granted /\ link = "up"

(* A connection becomes ready unless the broker refuses the subscription,  *)
(* the connection ends or the source stops: also when DLQ publishes fill   *)
(* the request channel that only the source itself drains.                 *)
ConnectedBecomesReady ==
  link = "up" /\ ~SourceGone ~> ready \/ link # "up" \/ refused \/ SourceGone

(* Once signalled, shutdown completes, with the broker away and the        *)
(* request channel full as well.                                           *)
ShutdownCompletes == shutdown ~> main = "stopped"

(* The source, the queues and the workers keep the promise of JobLedger:   *)
(* no job is queued, started or settled twice, however they interleave.    *)
Ledger == INSTANCE JobLedger WITH
  Jobs <- Messages, status <- job, closing <- shutdown, after <- late

ImplementsLedger == Ledger!Spec

(* What has become of a message stays so: no worker takes up a job that is *)
(* settled, and none is in the log and in the DLQ both.                    *)
SettledIsFinal ==
  [][\A m \in Messages : job[m] \notin {"new", "queued", "running"} => job'[m] = job[m]]_vars

(* What the operations guide says of a normal stop: worker queues are      *)
(* drained, so no queued job is dropped.                                   *)
DrainsQueues == main = "stopped" => \A m \in Messages : job[m] # "lost"
=============================================================================
