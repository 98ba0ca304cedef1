----------------------------- MODULE WalDelivery -----------------------------
(***************************************************************************)
(* The writer and the subscription alone: a consumer that calls            *)
(* WalSubscription::next in a loop until it returns None and is never      *)
(* interrupted, as the tests of the log do. Nothing but the writer's       *)
(* notifications wakes it: no ticker comes to the rescue.                  *)
(***************************************************************************)
EXTENDS WalWriter, WalSubscription

VARIABLES
  delivered,  \* events that next has returned
  ended       \* next has returned None

appendVars == <<senders, queue, result, threadVars>>
readVars == <<rpc, cur, reader_open, reader_pos, cursor, gc_todo,
              last_gc_segment_id, skipped, delivered, ended>>
vars == <<writerVars, readVars>>

Init == WriterInit /\ SubInit /\ delivered = {} /\ ended = FALSE

CallNext ==
  /\ rpc = "idle" /\ ~ended
  /\ rpc' = "read"
  /\ UNCHANGED <<log, head, writer_holds_notify, faults, nextVars, commitVars,
                 delivered, ended>>

Pending == NextStep /\ UNCHANGED <<delivered, ended>>

Returned ==
  \/ /\ \E e \in log : ReadRecord(e) /\ delivered' = delivered \cup {e.event}
     /\ UNCHANGED ended
  \/ NextNone /\ ended' = TRUE /\ UNCHANGED delivered

Reader == (CallNext \/ Pending \/ Returned) /\ UNCHANGED appendVars
Writer == WriterThread /\ UNCHANGED readVars

Next == (WriterNext /\ UNCHANGED readVars) \/ Reader

(* Both the thread and the task run for as long as they can. *)
Spec == Init /\ [][Next]_vars /\ WF_vars(Writer) /\ WF_vars(Reader)

-----------------------------------------------------------------------------
(* No wake-up is lost: a record below the published head is returned or    *)
(* passed by, wherever the reader was when the head was stored and the     *)
(* notification sent, and also when the writer dies after that.            *)
PublishedIsReturned ==
  \A m \in Events :
    (\E e \in log : e.event = m /\ Below(e, head)) ~> m \in delivered \cup skipped

(* next returns None once the writer is gone. *)
NextEnds == wpc = "gone" ~> ended
=============================================================================
