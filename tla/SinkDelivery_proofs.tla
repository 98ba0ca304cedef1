-------------------------- MODULE SinkDelivery_proofs --------------------------
(***************************************************************************)
(* Proofs about SinkDelivery, for any log, batch size, faults and stops.   *)
(***************************************************************************)
EXTENDS SinkDelivery, TLAPS

-----------------------------------------------------------------------------
(* The inductive invariant. While a batch waits for its commit the         *)
(* database has all of it; nothing beyond the batch after the cursor was   *)
(* ever posted, whatever a restart has forgotten of it.                    *)
SignalInv ==
  /\ fpc \in {"select", "attempt", "pause", "commit", "commit_pause"}
  /\ outage \in BOOLEAN
  /\ OutageIsSignalled

RetryInv ==
  /\ attempt \in 0..2
  /\ backoff_ms \in 1..RETRY_BACKOFF_CAP_MS
  /\ failures \in 0..MaxFailures /\ stops \in 0..MaxStops

BatchInv ==
  /\ cursor \in Nat /\ taken \in Nat
  /\ cursor <= taken /\ taken <= Last /\ taken - cursor <= BatchSize
  /\ fpc = "select" => taken - cursor < BatchSize
  /\ fpc \in {"commit", "commit_pause"} => Batch \subseteq stored

StoreInv ==
  /\ CommittedIsStored
  /\ stored \subseteq 1..Last
  /\ stored \subseteq 1..(cursor + BatchSize)
  /\ refused \subseteq Unacceptable

SinkInv == SignalInv /\ RetryInv /\ BatchInv /\ StoreInv

-----------------------------------------------------------------------------
LEMMA TypeFromInv == SinkInv => SinkTypeOK
<1> SUFFICES ASSUME SinkInv PROVE SinkTypeOK
  OBVIOUS
<1>1. cursor \in 0..Last /\ taken \in cursor..Last /\ taken - cursor <= BatchSize
  BY SinkAssumption DEF SinkAssumption, SinkInv, BatchInv
<1> QED
  BY <1>1 DEF SinkInv, SignalInv, RetryInv, BatchInv, StoreInv, SinkTypeOK

LEMMA InitialBackoffInRange ==
  InitialBackoff \in 1..RETRY_BACKOFF_CAP_MS
BY SinkAssumption
   DEF SinkAssumption, InitialBackoff, RETRY_BACKOFF_CAP_MS, RETRY_BACKOFF_START_CAP_MS

LEMMA NextBackoffInRange ==
  ASSUME NEW ms \in 1..RETRY_BACKOFF_CAP_MS
  PROVE  NextBackoff(ms) \in 1..RETRY_BACKOFF_CAP_MS
<1>1. RETRY_BACKOFF_CAP_MS \in Nat /\ 1 <= RETRY_BACKOFF_CAP_MS
  BY DEF RETRY_BACKOFF_CAP_MS
<1>2. ms \in Nat /\ 1 <= ms
  BY <1>1
<1>3. CASE 2 * ms > RETRY_BACKOFF_CAP_MS
  BY <1>1, <1>3 DEF NextBackoff
<1>4. CASE 2 * ms <= RETRY_BACKOFF_CAP_MS
  <2>1. 2 * ms \in Nat /\ 1 <= 2 * ms
    BY <1>2
  <2>2. NextBackoff(ms) = 2 * ms
    BY <1>1, <1>4, <2>1 DEF NextBackoff
  <2>3. QED
    BY <1>1, <1>4, <2>1, <2>2
<1>5. QED
  BY <1>1, <1>2, <1>3, <1>4

LEMMA InitSinkInv == Init => SinkInv
<1> SUFFICES ASSUME Init PROVE SinkInv
  OBVIOUS
<1>1. SignalInv
  BY DEF Init, SignalInv, OutageIsSignalled
<1>2. RetryInv
  BY SinkAssumption, InitialBackoffInRange DEF SinkAssumption, Init, RetryInv
<1>3. BatchInv /\ StoreInv
  BY SinkAssumption DEF SinkAssumption, Init, BatchInv, StoreInv, CommittedIsStored
<1> QED
  BY <1>1, <1>2, <1>3 DEF SinkInv

LEMMA StepSignalInv == SinkInv /\ [Next]_vars => SignalInv'
<1> SUFFICES ASSUME SinkInv, [Next]_vars PROVE SignalInv'
  OBVIOUS
<1> USE DEF SinkInv, SignalInv, OutageIsSignalled
<1>1. CASE Take
  BY <1>1 DEF Take, StartFlush
<1>2. CASE Tick
  BY <1>2 DEF Tick, StartFlush
<1>3. CASE PostSucceeds
  BY <1>3 DEF PostSucceeds
<1>4. CASE PostRefused
  BY <1>4 DEF PostRefused, WriteFails
<1>5. CASE PostFails
  BY <1>5 DEF PostFails, WriteFails
<1>6. CASE PauseEnds
  BY <1>6 DEF PauseEnds
<1>7. CASE Commit
  BY <1>7 DEF Commit
<1>8. CASE CommitFails
  BY <1>8 DEF CommitFails
<1>9. CASE CommitPauseEnds
  BY <1>9 DEF CommitPauseEnds
<1>10. CASE Repair
  BY <1>10 DEF Repair
<1>11. CASE Restart
  BY <1>11 DEF Restart
<1>12. CASE UNCHANGED vars
  BY <1>12 DEF vars
<1> QED
  BY <1>1, <1>2, <1>3, <1>4, <1>5, <1>6, <1>7, <1>8, <1>9, <1>10, <1>11, <1>12
     DEF Next, Forwarder, Flush

LEMMA StepRetryInv == SinkInv /\ [Next]_vars => RetryInv'
<1> SUFFICES ASSUME SinkInv, [Next]_vars PROVE RetryInv'
  OBVIOUS
<1> USE SinkAssumption, InitialBackoffInRange DEF SinkAssumption, SinkInv, RetryInv
<1>1. CASE Take
  BY <1>1 DEF Take, StartFlush
<1>2. CASE Tick
  BY <1>2 DEF Tick, StartFlush
<1>3. CASE PostSucceeds
  BY <1>3 DEF PostSucceeds
<1>4. CASE PostRefused
  BY <1>4 DEF PostRefused, WriteFails
<1>5. CASE PostFails
  BY <1>5 DEF PostFails, WriteFails
<1>6. CASE PauseEnds
  BY <1>6, NextBackoffInRange DEF PauseEnds
<1>7. CASE Commit
  BY <1>7 DEF Commit
<1>8. CASE CommitFails
  BY <1>8 DEF CommitFails
<1>9. CASE CommitPauseEnds
  BY <1>9, NextBackoffInRange DEF CommitPauseEnds
<1>10. CASE Repair
  BY <1>10 DEF Repair
<1>11. CASE Restart
  BY <1>11 DEF Restart
<1>12. CASE UNCHANGED vars
  BY <1>12 DEF vars
<1> QED
  BY <1>1, <1>2, <1>3, <1>4, <1>5, <1>6, <1>7, <1>8, <1>9, <1>10, <1>11, <1>12
     DEF Next, Forwarder, Flush

LEMMA StepBatchInv == SinkInv /\ [Next]_vars => BatchInv'
<1> SUFFICES ASSUME SinkInv, [Next]_vars PROVE BatchInv'
  OBVIOUS
<1> USE SinkAssumption DEF SinkAssumption, SinkInv, BatchInv, Batch
<1>1. CASE Take
  BY <1>1 DEF Take, StartFlush
<1>2. CASE Tick
  BY <1>2 DEF Tick, StartFlush
<1>3. CASE PostSucceeds
  BY <1>3 DEF PostSucceeds
<1>4. CASE PostRefused
  BY <1>4 DEF PostRefused, WriteFails, StoresPartly
<1>5. CASE PostFails
  BY <1>5 DEF PostFails, WriteFails, StoresPartly
<1>6. CASE PauseEnds
  BY <1>6 DEF PauseEnds
<1>7. CASE Commit
  BY <1>7 DEF Commit
<1>8. CASE CommitFails
  <2>1. CASE cursor' = cursor
    BY <1>8, <2>1 DEF CommitFails
  <2>2. CASE cursor' = taken
    BY <1>8, <2>2 DEF CommitFails
  <2> QED
    BY <1>8, <2>1, <2>2 DEF CommitFails
<1>9. CASE CommitPauseEnds
  BY <1>9 DEF CommitPauseEnds
<1>10. CASE Repair
  BY <1>10 DEF Repair
<1>11. CASE Restart
  BY <1>11 DEF Restart
<1>12. CASE UNCHANGED vars
  BY <1>12 DEF vars
<1> QED
  BY <1>1, <1>2, <1>3, <1>4, <1>5, <1>6, <1>7, <1>8, <1>9, <1>10, <1>11, <1>12
     DEF Next, Forwarder, Flush

LEMMA StepStoreInv == SinkInv /\ [Next]_vars => StoreInv'
<1> SUFFICES ASSUME SinkInv, [Next]_vars PROVE StoreInv'
  OBVIOUS
<1> USE SinkAssumption DEF SinkAssumption, SinkInv, BatchInv, StoreInv, CommittedIsStored, Batch
<1>1. CASE Take
  BY <1>1 DEF Take, StartFlush
<1>2. CASE Tick
  BY <1>2 DEF Tick, StartFlush
<1>3. CASE PostSucceeds
  BY <1>3 DEF PostSucceeds
<1>4. CASE PostRefused
  BY <1>4 DEF PostRefused, WriteFails, StoresPartly
<1>5. CASE PostFails
  BY <1>5 DEF PostFails, WriteFails, StoresPartly
<1>6. CASE PauseEnds
  BY <1>6 DEF PauseEnds
<1>7. CASE Commit
  BY <1>7 DEF Commit
<1>8. CASE CommitFails
  <2>1. CASE cursor' = cursor
    BY <1>8, <2>1 DEF CommitFails
  <2>2. CASE cursor' = taken
    BY <1>8, <2>2 DEF CommitFails
  <2> QED
    BY <1>8, <2>1, <2>2 DEF CommitFails
<1>9. CASE CommitPauseEnds
  BY <1>9 DEF CommitPauseEnds
<1>10. CASE Repair
  BY <1>10 DEF Repair
<1>11. CASE Restart
  BY <1>11 DEF Restart
<1>12. CASE UNCHANGED vars
  BY <1>12 DEF vars
<1> QED
  BY <1>1, <1>2, <1>3, <1>4, <1>5, <1>6, <1>7, <1>8, <1>9, <1>10, <1>11, <1>12
     DEF Next, Forwarder, Flush

(* What the cursor has passed is stored, and what is not stored is beyond  *)
(* it: a batch is all that can lie between the two.                        *)
LEMMA DisorderFromInv == SinkInv => DisorderIsBounded
BY SinkAssumption
   DEF SinkAssumption, SinkInv, BatchInv, StoreInv, CommittedIsStored, DisorderIsBounded

-----------------------------------------------------------------------------
LEMMA SinkInvHolds == Spec => []SinkInv
<1>1. SinkInv /\ [Next]_vars => SinkInv'
  BY StepSignalInv, StepRetryInv, StepBatchInv, StepStoreInv DEF SinkInv
<1> QED
  BY <1>1, InitSinkInv, PTL DEF Spec

(* The forwarder commits nothing that the database does not have, whatever *)
(* its answers, the failures of the commit and the restarts.               *)
THEOREM CommittedEntriesAreStored == Spec => []CommittedIsStored
<1>1. SinkInv => CommittedIsStored
  BY DEF SinkInv, StoreInv
<1> QED
  BY <1>1, SinkInvHolds, PTL

(* The gauge is up whenever flush pauses after a write, and down outside   *)
(* the retry loop.                                                         *)
THEOREM OutagesAreSignalled == Spec => []OutageIsSignalled
<1>1. SinkInv => OutageIsSignalled
  BY DEF SinkInv, SignalInv
<1> QED
  BY <1>1, SinkInvHolds, PTL

(* The database misses no entry that lies a batch or more behind one that  *)
(* it has.                                                                 *)
THEOREM DisorderStaysInABatch == Spec => []DisorderIsBounded
<1>1. SinkInv => DisorderIsBounded
  BY DisorderFromInv
<1> QED
  BY <1>1, SinkInvHolds, PTL

(* Types; a pause is never of no length nor longer than the cap, and a      *)
(* batch never longer than BATCH_SIZE, over restarts too.                   *)
THEOREM SinkIsTypeCorrect == Spec => []SinkTypeOK
BY TypeFromInv, SinkInvHolds, PTL

-----------------------------------------------------------------------------
(* The contract: each step of flush delivers some of the batch, passes it, *)
(* or changes nothing that the contract speaks of.                         *)
ContractStep == [Delivery!Next]_(Delivery!vars)

LEMMA IsDeliver ==
  ASSUME SinkInv, NEW E, E \subseteq Batch, stored' = stored \cup E, UNCHANGED cursor
  PROVE  ContractStep
<1>1. E \subseteq 1..Last /\ \A i \in E : cursor < i /\ i <= cursor + BatchSize
  BY SinkAssumption DEF SinkAssumption, SinkInv, BatchInv, Batch
<1>2. Delivery!Deliver(E)
  BY <1>1 DEF Delivery!Deliver
<1>3. QED
  BY <1>1, <1>2 DEF ContractStep, Delivery!Next

LEMMA IsPass ==
  ASSUME SinkInv, fpc = "commit", cursor' = taken, UNCHANGED stored
  PROVE  ContractStep
<1>1. /\ cursor \in Nat /\ taken \in Nat /\ cursor <= taken /\ taken <= Last
      /\ Batch \subseteq stored
  BY DEF SinkInv, BatchInv
<1>2. CASE cursor = taken
  BY <1>2 DEF ContractStep, Delivery!vars
<1>3. CASE cursor < taken
  <2>1. taken \in 1..Last
    BY <1>1, <1>3, SinkAssumption DEF SinkAssumption
  <2>2. \A i \in 1..taken : cursor < i => i \in stored
    BY <1>1 DEF Batch
  <2>3. Delivery!Pass(taken)
    BY <1>3, <2>2 DEF Delivery!Pass
  <2>4. QED
    BY <2>1, <2>3 DEF ContractStep, Delivery!Next
<1>4. QED
  BY <1>1, <1>2, <1>3

LEMMA StepIsContractStep ==
  ASSUME SinkInv, [Next]_vars
  PROVE  ContractStep
<1>1. CASE UNCHANGED <<cursor, stored>>
  BY <1>1 DEF ContractStep, Delivery!vars
<1>2. CASE StoresPartly /\ UNCHANGED cursor
  <2>1. CASE stored' = stored
    BY <1>1, <1>2, <2>1
  <2>2. CASE stored' = stored \cup (Batch \ refused)
    BY <1>2, <2>2, IsDeliver
  <2>3. QED
    BY <1>2, <2>1, <2>2 DEF StoresPartly
<1>3. CASE PostSucceeds
  BY <1>3, IsDeliver DEF PostSucceeds
<1>4. CASE PostRefused \/ PostFails
  BY <1>2, <1>4 DEF PostRefused, PostFails
<1>5. CASE Commit \/ CommitFails
  BY <1>1, <1>5, IsPass DEF Commit, CommitFails
<1>6. CASE Take \/ Tick \/ PauseEnds \/ CommitPauseEnds \/ Repair \/ Restart
           \/ UNCHANGED vars
  BY <1>1, <1>6 DEF Take, Tick, PauseEnds, CommitPauseEnds, Repair, Restart, vars
<1>7. QED
  BY <1>3, <1>4, <1>5, <1>6 DEF Next, Forwarder, Flush

(* Attempts, answers, pauses, failures and restarts of flush implement the *)
(* contract: nothing passed that has not arrived, nothing sent beyond a    *)
(* batch, nothing sent again once it is passed.                            *)
THEOREM SinkImplementsDelivery == Spec => ImplementsDelivery
<1>1. Init => Delivery!Init
  BY DEF Init, Delivery!Init
<1>2. SinkInv /\ [Next]_vars => [Delivery!Next]_(Delivery!vars)
  BY StepIsContractStep DEF ContractStep
<1>3. QED
  BY <1>1, <1>2, SinkInvHolds, PTL DEF Spec, ImplementsDelivery, Delivery!Spec
=============================================================================
