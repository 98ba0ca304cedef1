----------------------------- MODULE WalForwarder -----------------------------
(***************************************************************************)
(* run_forwarder: one task that polls, in a biased select, a ticker and    *)
(* WalSubscription::next, batches the entries, writes the batch to the     *)
(* sink until it is accepted and then commits the read watermark until     *)
(* that succeeds. A tick drops the next future it interrupts.              *)
(***************************************************************************)
EXTENDS WalSubscription

CONSTANTS BatchSize

ASSUME BatchSizeAssumption == BatchSize \in Nat \ {0}

VARIABLES
  fpc,      \* select, sink (in sink.write), commit (in sub.commit) or exit
  batch,    \* the entries taken from the subscription and not yet committed
  closing,  \* next has returned None: this flush is the last
  sunk      \* history: events the sink has stored

forwarderVars == <<fpc, batch, closing, sunk>>

BatchEvents == {batch[i].event : i \in DOMAIN batch}

ForwarderTypeOK ==
  /\ SubTypeOK
  /\ fpc \in {"select", "sink", "commit", "exit"}
  /\ batch \in Seq(WalEntry) /\ Len(batch) <= BatchSize
  /\ closing \in BOOLEAN
  /\ sunk \subseteq Events

ForwarderStarts == fpc = "select" /\ batch = <<>> /\ closing = FALSE

(* The select polls next again. *)
PollNext ==
  /\ fpc = "select" /\ rpc = "idle"
  /\ rpc' = "read"
  /\ UNCHANGED <<log, head, writer_holds_notify, faults, nextVars, commitVars,
                 forwarderVars>>

NextPending == fpc = "select" /\ NextStep /\ UNCHANGED forwarderVars

(* Mutant of TakeEntry: off by one at the size of the batch. *)
TakeOneMore ==
  /\ fpc = "select"
  /\ \E e \in log : ReadRecord(e) /\ batch' = Append(batch, e)
  /\ fpc' = IF Len(batch') > BatchSize THEN "sink" ELSE "select"
  /\ UNCHANGED <<closing, sunk>>

(* next returns Some(entry). *)
TakeEntry ==
  /\ fpc = "select"
  /\ \E e \in log : ReadRecord(e) /\ batch' = Append(batch, e)
  /\ fpc' = IF Len(batch') >= BatchSize THEN "sink" ELSE "select"
  /\ UNCHANGED <<closing, sunk>>

(* Mutant of TakeNone: the last partial batch is dropped. *)
TakeNoneAndLeave ==
  /\ fpc = "select"
  /\ NextNone
  /\ closing' = TRUE
  /\ fpc' = "exit"
  /\ UNCHANGED <<batch, sunk>>

(* next returns None: flush what is left and leave. *)
TakeNone ==
  /\ fpc = "select"
  /\ NextNone
  /\ closing' = TRUE
  /\ fpc' = IF batch = <<>> THEN "exit" ELSE "sink"
  /\ UNCHANGED <<batch, sunk>>

(* The ticker fires while next is pending, and is polled first. *)
Tick ==
  /\ fpc = "select"
  /\ CancelNext
  /\ fpc' = IF batch = <<>> THEN "select" ELSE "sink"
  /\ UNCHANGED <<batch, closing, sunk>>

(* InfluxSink::write posts the batch up to three times. When it gives up,  *)
(* the batch may have been stored all the same and the answers lost.       *)
WriteOk == sunk' = sunk \cup BatchEvents
WriteErr == Fault("sink") /\ sunk' \in {sunk, sunk \cup BatchEvents}

(* sink.write returns Ok; commit is called with the last offset_after. *)
SinkAccepts ==
  /\ fpc = "sink"
  /\ WriteOk
  /\ fpc' = "commit"
  /\ rpc' = "write_cursor"
  /\ UNCHANGED <<log, head, writer_holds_notify, faults, nextVars, commitVars,
                 batch, closing>>

(* Mutant of SinkFails: the failed batch is dropped and committed. *)
SinkFailsAndCommits ==
  /\ fpc = "sink"
  /\ Fault("sink")
  /\ fpc' = "commit"
  /\ rpc' = "write_cursor"
  /\ UNCHANGED <<log, head, writer_holds_notify, nextVars, commitVars, batch,
                 closing, sunk>>

(* It returns an error, retryable or permanent: the batch is kept. *)
SinkFails ==
  /\ fpc = "sink"
  /\ WriteErr
  /\ UNCHANGED <<log, head, writer_holds_notify, rpc, nextVars, commitVars,
                 fpc, batch, closing>>

(* Mutant of Highest: what the writer has published is committed. *)
HighestPublished == head

Highest == OffsetAfter(batch[Len(batch)])

Commit ==
  /\ fpc = "commit"
  /\ WriteCursor(Highest) \/ CommitStep
  /\ UNCHANGED forwarderVars

(* commit returned Ok. *)
FlushDone ==
  /\ fpc = "commit" /\ rpc = "idle"
  /\ batch' = <<>>
  /\ fpc' = IF closing THEN "exit" ELSE "select"
  /\ UNCHANGED <<log, head, writer_holds_notify, faults, rpc, nextVars,
                 commitVars, closing, sunk>>

ForwarderTask ==
  \/ PollNext \/ NextPending \/ TakeEntry \/ TakeNone
  \/ SinkAccepts \/ SinkFails \/ Commit \/ FlushDone
=============================================================================
