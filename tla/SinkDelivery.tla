----------------------------- MODULE SinkDelivery -----------------------------
(***************************************************************************)
(* flush and InfluxSink::write in detail: the three attempts of a write,   *)
(* the errors it tells apart, the two retry loops with their pauses, and   *)
(* the gauge that signals an outage. WalForwarder has one step for a       *)
(* write; here the log is no more than the numbers of its entries, in      *)
(* order, and the subscription hands them out.                             *)
(***************************************************************************)
EXTENDS Integers, FiniteSets

CONSTANTS
  Last,             \* the entries are 1..Last
  BatchSize,
  FlushIntervalMs,
  Unacceptable,     \* entries the database answers with a 4xx until a repair
  MaxFailures,      \* bound on transient failures of writes and commits
  MaxStops          \* bound on stops of the process

ASSUME SinkAssumption ==
  /\ Last \in Nat /\ BatchSize \in Nat \ {0}
  /\ FlushIntervalMs \in Nat \ {0}
  /\ Unacceptable \subseteq 1..Last
  /\ MaxFailures \in Nat /\ MaxStops \in Nat

VARIABLES
  fpc,        \* select, attempt, pause, commit or commit_pause
  taken,      \* entries handed out by next
  cursor,     \* entries committed; those in between are the batch
  attempt,    \* of the current write, from 0
  backoff_ms, \* of the loop that is running
  outage,     \* the gauge wal_forwarder_retry_outage_active
  stored,     \* what the database has
  refused,    \* what it does not accept, so far
  failures, stops

vars == <<fpc, taken, cursor, attempt, backoff_ms, outage, stored, refused,
          failures, stops>>

RETRY_BACKOFF_CAP_MS == 5000
RETRY_BACKOFF_START_CAP_MS == 1000

(* flush_interval_ms.clamp(1, RETRY_BACKOFF_START_CAP_MS) *)
InitialBackoff ==
  IF FlushIntervalMs > RETRY_BACKOFF_START_CAP_MS THEN RETRY_BACKOFF_START_CAP_MS
  ELSE FlushIntervalMs

(* Mutant of NextBackoff: the cap is forgotten. *)
NextBackoffUncapped(ms) == 2 * ms

NextBackoff(ms) ==
  IF 2 * ms > RETRY_BACKOFF_CAP_MS THEN RETRY_BACKOFF_CAP_MS ELSE 2 * ms

Batch == cursor + 1 .. taken

Init ==
  /\ fpc = "select" /\ taken = 0 /\ cursor = 0 /\ attempt = 0
  /\ backoff_ms = InitialBackoff /\ outage = FALSE
  /\ stored = {} /\ refused = Unacceptable
  /\ failures = 0 /\ stops = 0

StartFlush == fpc' = "attempt" /\ attempt' = 0 /\ backoff_ms' = InitialBackoff

(* Mutant of Take: off by one at the size of a batch. *)
TakeOneMore ==
  /\ fpc = "select" /\ taken < Last
  /\ taken' = taken + 1
  /\ IF taken + 1 - cursor > BatchSize THEN StartFlush
     ELSE UNCHANGED <<fpc, attempt, backoff_ms>>
  /\ UNCHANGED <<cursor, outage, stored, refused, failures, stops>>

(* next returns an entry; the batch that it fills is flushed at once. *)
Take ==
  /\ fpc = "select" /\ taken < Last
  /\ taken' = taken + 1
  /\ IF taken + 1 - cursor >= BatchSize THEN StartFlush
     ELSE UNCHANGED <<fpc, attempt, backoff_ms>>
  /\ UNCHANGED <<cursor, outage, stored, refused, failures, stops>>

Tick ==
  /\ fpc = "select" /\ Batch # {}
  /\ StartFlush
  /\ UNCHANGED <<taken, cursor, outage, stored, refused, failures, stops>>

(* A post that does not succeed may have stored any line it could. *)
StoresPartly == stored' \in {stored, stored \cup (Batch \ refused)}

PostSucceeds ==
  /\ fpc = "attempt" /\ Batch \cap refused = {}
  /\ stored' = stored \cup Batch
  /\ outage' = FALSE
  /\ fpc' = "commit" /\ backoff_ms' = InitialBackoff
  /\ UNCHANGED <<taken, cursor, attempt, refused, failures, stops>>

(* Mutant of WriteFails: the gauge follows transient failures only. *)
WriteFailsSilently == fpc' = "pause" /\ outage' = (attempt = 2)

(* flush holds the batch. *)
WriteFails == fpc' = "pause" /\ outage' = TRUE

(* Mutant of PostRefused: a batch that is refused is dropped. *)
RefusedIsDropped ==
  /\ fpc = "attempt" /\ Batch \cap refused # {}
  /\ StoresPartly
  /\ outage' = FALSE
  /\ fpc' = "commit" /\ backoff_ms' = InitialBackoff
  /\ UNCHANGED <<taken, cursor, attempt, refused, failures, stops>>

(* A 4xx other than 408 and 429: SinkError::Permanent, at the first one. *)
PostRefused ==
  /\ fpc = "attempt" /\ Batch \cap refused # {}
  /\ StoresPartly
  /\ WriteFails
  /\ UNCHANGED <<taken, cursor, attempt, backoff_ms, refused, failures, stops>>

(* No answer, 408, 429 or 5xx: two more attempts, then SinkError::Retryable. *)
PostFails ==
  /\ fpc = "attempt" /\ failures < MaxFailures
  /\ failures' = failures + 1
  /\ StoresPartly
  /\ \/ attempt < 2 /\ attempt' = attempt + 1 /\ UNCHANGED <<fpc, outage>>
     \/ attempt = 2 /\ WriteFails /\ UNCHANGED attempt
  /\ UNCHANGED <<taken, cursor, backoff_ms, refused, stops>>

PauseEnds ==
  /\ fpc = "pause"
  /\ fpc' = "attempt" /\ attempt' = 0
  /\ backoff_ms' = NextBackoff(backoff_ms)
  /\ UNCHANGED <<taken, cursor, outage, stored, refused, failures, stops>>

(* sub.commit(highest) returns Ok. *)
Commit ==
  /\ fpc = "commit"
  /\ cursor' = taken /\ fpc' = "select"
  /\ UNCHANGED <<taken, attempt, backoff_ms, outage, stored, refused, failures, stops>>

(* Mutant of CommitFails: the error is returned, and the task ends. *)
CommitFailsAndEnds ==
  /\ fpc = "commit" /\ failures < MaxFailures
  /\ failures' = failures + 1
  /\ fpc' = "ended"
  /\ UNCHANGED <<taken, cursor, attempt, backoff_ms, outage, stored, refused, stops>>

(* The cursor file is written before the segments are listed for reclaim: *)
(* an error of the second leaves the first moved.                         *)
CommitFails ==
  /\ fpc = "commit" /\ failures < MaxFailures
  /\ failures' = failures + 1
  /\ cursor' \in {cursor, taken}
  /\ fpc' = "commit_pause"
  /\ UNCHANGED <<taken, attempt, backoff_ms, outage, stored, refused, stops>>

CommitPauseEnds ==
  /\ fpc = "commit_pause"
  /\ fpc' = "commit"
  /\ backoff_ms' = NextBackoff(backoff_ms)
  /\ UNCHANGED <<taken, cursor, attempt, outage, stored, refused, failures, stops>>

(* An operator repairs what the database refused the lines for. *)
Repair ==
  /\ refused # {} /\ refused' = {}
  /\ UNCHANGED <<fpc, taken, cursor, attempt, backoff_ms, outage, stored,
                 failures, stops>>

(* The process stops and starts again: the read resumes at the cursor, and *)
(* the gauge of the new process has not been set.                          *)
Restart ==
  /\ stops < MaxStops /\ stops' = stops + 1
  /\ fpc' = "select" /\ taken' = cursor /\ attempt' = 0
  /\ backoff_ms' = InitialBackoff /\ outage' = FALSE
  /\ UNCHANGED <<cursor, stored, refused, failures>>

Flush == \/ PostSucceeds \/ PostRefused \/ PostFails \/ PauseEnds
         \/ Commit \/ CommitFails \/ CommitPauseEnds

Forwarder == Take \/ Tick \/ Flush

Next == Forwarder \/ Repair \/ Restart

Spec == Init /\ [][Next]_vars

(* The runtime polls the task; neither the operator nor the process owes   *)
(* anything.                                                               *)
FairSpec == Spec /\ WF_vars(Forwarder)

-----------------------------------------------------------------------------
(* Types, and no pause beyond the cap or of no length. *)
SinkTypeOK ==
  /\ fpc \in {"select", "attempt", "pause", "commit", "commit_pause"}
  /\ cursor \in 0..Last /\ taken \in cursor..Last /\ taken - cursor <= BatchSize
  /\ attempt \in 0..2
  /\ backoff_ms \in 1..RETRY_BACKOFF_CAP_MS
  /\ outage \in BOOLEAN
  /\ stored \subseteq 1..Last /\ refused \subseteq Unacceptable
  /\ failures \in 0..MaxFailures /\ stops \in 0..MaxStops

(* What the cursor has passed is in the database, refused batches included *)
(* and whatever a commit or a restart repeats.                             *)
CommittedIsStored == 1..cursor \subseteq stored

(* The gauge is up exactly while a batch that the sink has refused or      *)
(* given up is held, as those who alert on it rely on.                     *)
OutageIsSignalled ==
  /\ fpc = "pause" => outage
  /\ outage => fpc \in {"attempt", "pause"}

(* The database never has an entry more than a batch ahead of one it still *)
(* lacks, over partial writes, retries and restarts.                       *)
DisorderIsBounded ==
  \A i \in stored, j \in 1..Last : j < i /\ j \notin stored => i - j < BatchSize

(* The detail of attempts, pauses and answers implements one promise, that *)
(* of a forwarder which only ever sends what lies in a batch beyond its    *)
(* cursor and only ever passes what has arrived.                           *)
Delivery == INSTANCE AtLeastOnceDelivery WITH
  Window <- BatchSize, passed <- cursor, delivered <- stored

ImplementsDelivery == Delivery!Spec

(* Once what the database refuses is repaired, everything is delivered.    *)
RepairDelivers == refused = {} ~> cursor = Last

(* A batch that the sink refuses permanently is dropped and committed.     *)
PermanentFailureIsDropped ==
  \A i \in Unacceptable : i \in Batch ~> i <= cursor
=============================================================================
