------------------------------ MODULE WorkerPool ------------------------------
(***************************************************************************)
(* The worker queues of main: one bounded channel per pipeline worker, the *)
(* round-robin IngestDispatcher in front of them, and recv_worker_job, by  *)
(* which a worker takes its next job or leaves. What a worker does with a  *)
(* job is module Pipeline.                                                 *)
(***************************************************************************)
EXTENDS IngestJobs

CONSTANTS
  WorkerTotal,
  PerWorkerCap   \* INPUT_QUEUE_CAPACITY / WorkerTotal

ASSUME PoolAssumption ==
  WorkerTotal \in Nat \ {0} /\ PerWorkerCap \in Nat \ {0}

Workers == 0..(WorkerTotal - 1)

VARIABLES
  next,      \* IngestDispatcher::next, modulo the number of workers
  queues,    \* the channels
  wpc,       \* where each worker is; gone: its receiver is dropped
  hand,      \* the job a worker runs the pipeline on
  job,       \* what has become of each message
  late,      \* history: messages dispatched after shutdown was signalled
  shutdown   \* the watch channel

poolVars == <<next, queues, wpc, hand, job, late, shutdown>>

WorkerPlaces == {"check", "select", "leaving", "gone", "run", "persist", "dlq"}
JobStates == {"new", "queued", "rejected", "running", "persisted", "dlq_queued",
              "dlq_failed", "lost"}

PoolTypeOK ==
  /\ next \in Workers
  /\ queues \in [Workers -> Seq(Messages)]
  /\ \A w \in Workers : Len(queues[w]) <= PerWorkerCap
  /\ wpc \in [Workers -> WorkerPlaces]
  /\ hand \in [Workers -> Messages \cup {NoMessage}]
  /\ job \in [Messages -> JobStates]
  /\ late \subseteq Messages
  /\ shutdown \in BOOLEAN

PoolInit ==
  /\ next = 0
  /\ queues = [w \in Workers |-> <<>>]
  /\ wpc = [w \in Workers |-> "check"]
  /\ hand = [w \in Workers |-> NoMessage]
  /\ job = [m \in Messages |-> "new"]
  /\ late = {}
  /\ shutdown = FALSE

GoesTo(w, place) == wpc' = [wpc EXCEPT ![w] = place]

-----------------------------------------------------------------------------
(* Mutant of HasRoom: off by one at the capacity of the channel. *)
HasOneMore(w) == wpc[w] # "gone" /\ Len(queues[w]) <= PerWorkerCap

(* try_send fails when the channel is full or its receiver dropped; either *)
(* way the job is dropped before the pipeline, without the DLQ.            *)
HasRoom(w) == wpc[w] # "gone" /\ Len(queues[w]) < PerWorkerCap

Dispatch(m) ==
  /\ next' = (next + 1) % WorkerTotal
  /\ \/ /\ HasRoom(next)
        /\ queues' = [queues EXCEPT ![next] = Append(@, m)]
        /\ job' = [job EXCEPT ![m] = "queued"]
     \/ /\ ~HasRoom(next)
        /\ job' = [job EXCEPT ![m] = "rejected"]
        /\ UNCHANGED queues
  /\ late' = IF shutdown THEN late \cup {m} ELSE late
  /\ UNCHANGED <<wpc, hand, shutdown>>

-----------------------------------------------------------------------------
(* The worker takes the first job of its queue and runs the pipeline. *)
Take(w) ==
  /\ queues[w] # <<>>
  /\ hand' = [hand EXCEPT ![w] = Head(queues[w])]
  /\ job' = [job EXCEPT ![Head(queues[w])] = "running"]
  /\ queues' = [queues EXCEPT ![w] = Tail(@)]
  /\ GoesTo(w, "run")
  /\ UNCHANGED <<next, late, shutdown>>

WaitForJob(w) ==
  /\ wpc[w] = "check" /\ ~shutdown
  /\ GoesTo(w, "select")
  /\ UNCHANGED <<next, queues, hand, job, late, shutdown>>

(* Mutant of TryRecv: shutdown ends the worker whatever is queued. *)
LeaveAtOnce(w) ==
  /\ wpc[w] = "check" /\ shutdown
  /\ GoesTo(w, "leaving")
  /\ UNCHANGED <<next, queues, hand, job, late, shutdown>>

(* With shutdown signalled the worker takes what is queued, and leaves the *)
(* first time it finds nothing.                                            *)
TryRecv(w) ==
  /\ wpc[w] = "check" /\ shutdown
  /\ \/ Take(w)
     \/ /\ queues[w] = <<>>
        /\ GoesTo(w, "leaving")
        /\ UNCHANGED <<next, queues, hand, job, late, shutdown>>

Recv(w) == wpc[w] = "select" /\ Take(w)

SeesSignal(w) ==
  /\ wpc[w] = "select" /\ shutdown
  /\ GoesTo(w, "check")
  /\ UNCHANGED <<next, queues, hand, job, late, shutdown>>

(* recv returns None: every sender is dropped and the queue is empty. *)
SeesClosed(w, senders_dropped) ==
  /\ wpc[w] = "select" /\ senders_dropped
  /\ queues[w] = <<>>
  /\ GoesTo(w, "leaving")
  /\ UNCHANGED <<next, queues, hand, job, late, shutdown>>

(* The task ends and drops its receiver with whatever reached the queue    *)
(* since it was found empty.                                               *)
Leave(w) ==
  /\ wpc[w] = "leaving"
  /\ GoesTo(w, "gone")
  /\ job' = [m \in Messages |-> IF m \in Range(queues[w]) THEN "lost" ELSE job[m]]
  /\ queues' = [queues EXCEPT ![w] = <<>>]
  /\ UNCHANGED <<next, hand, late, shutdown>>
=============================================================================
