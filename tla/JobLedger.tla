------------------------------ MODULE JobLedger ------------------------------
(***************************************************************************)
(* What the ingestion side promises for every job it makes of a message:   *)
(* it is queued or rejected once, started once, and settled once: in the   *)
(* log, handed to the DLQ client, or counted as a DLQ error. A queued job  *)
(* is dropped only at the end of the service, and only if it was queued    *)
(* after the end had been signalled. How many queues and workers there are *)
(* does not show.                                                          *)
(***************************************************************************)
EXTENDS FiniteSets

CONSTANT Jobs

VARIABLES
  status,   \* what has become of each job
  closing,  \* the end of the service has been signalled
  after     \* the jobs that were dispatched after that

ledgerVars == <<status, closing, after>>

Outcomes == {"persisted", "dlq_queued", "dlq_failed"}

Init ==
  /\ status = [j \in Jobs |-> "new"]
  /\ closing = FALSE
  /\ after = {}

Move(j, from, to) ==
  status[j] = from /\ status' = [status EXCEPT ![j] = to]

Dispatch(j) ==
  /\ \E to \in {"queued", "rejected"} : Move(j, "new", to)
  /\ after' = IF closing THEN after \cup {j} ELSE after
  /\ UNCHANGED closing

Start(j) == Move(j, "queued", "running") /\ UNCHANGED <<closing, after>>

Settle(j) ==
  /\ \E outcome \in Outcomes : Move(j, "running", outcome)
  /\ UNCHANGED <<closing, after>>

Close == closing' = TRUE /\ UNCHANGED <<status, after>>

(* A queue is dropped with the late jobs that are in it. *)
Drop ==
  /\ closing
  /\ \E S \in SUBSET after :
       /\ \A j \in S : status[j] = "queued"
       /\ status' = [j \in Jobs |-> IF j \in S THEN "lost" ELSE status[j]]
  /\ UNCHANGED <<closing, after>>

Next ==
  \/ \E j \in Jobs : Dispatch(j) \/ Start(j) \/ Settle(j)
  \/ Close \/ Drop

Spec == Init /\ [][Next]_ledgerVars
=============================================================================
