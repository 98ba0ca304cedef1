------------------------------ MODULE WalWriter ------------------------------
(***************************************************************************)
(* The write side of the log: Wal::append_durable and Wal::try_append put  *)
(* requests in a bounded channel, and one writer thread (writer_loop)      *)
(* takes them out, frames them into the current segment through a          *)
(* BufWriter, flushes, publishes the head, wakes the reader and resolves   *)
(* the durable acks.                                                       *)
(*                                                                         *)
(* The BufWriter holds the bytes from files[current_segment_id] (what a    *)
(* reader sees) up to current_byte_offset. Time is left out: the flush     *)
(* deadline may have passed whenever the buffer is dirty.                  *)
(***************************************************************************)
EXTENDS WalShared

VARIABLES
  senders,               \* some clone of Wal.tx is alive
  queue,                 \* the sync_channel<WriteRequest>
  result,                \* result[m]: what the append of m has returned
  wpc,                   \* where the writer thread is
  phase,                 \* which flush it is in: periodic, rotate or final
  req,                   \* the request taken from the queue
  current_segment_id,
  current_byte_offset,
  dirty,
  pending_acks           \* pending_durable_acks

threadVars == <<wpc, phase, req, current_segment_id, current_byte_offset,
                dirty, pending_acks>>
writerVars == <<log, files, head, waiter, writer_holds_notify, faults,
                senders, queue, result, threadVars>>

(* none: not appended yet; wait: append_durable awaits its ack; sent:      *)
(* try_append returned Ok; ok, full, closed, failed: append_durable's      *)
(* Ok, Full, Closed and Durability (the first three also for try_append).  *)
Result == {"none", "wait", "sent", "ok", "full", "closed", "failed"}

(* idle: top of the loop; flush: in writer.flush(); notify: head stored,   *)
(* reader not yet woken; open: about to open the next segment; write: in   *)
(* write_all; spill: write_all had to write to the file; exit: returning;  *)
(* dropped: its Arcs are gone; gone: the thread has ended.                 *)
WriterPC == {"idle", "flush", "notify", "open", "write", "spill",
             "exit", "dropped", "gone"}
Phase == {"periodic", "rotate", "final"}

(* sync_channel(queue_capacity) *)
QueueBounded == Len(queue) <= QueueCapacity

WriterTypeOK ==
  /\ SharedTypeOK
  /\ senders \in BOOLEAN
  /\ queue \in Seq(Events) /\ QueueBounded
  /\ result \in [Events -> Result]
  /\ wpc \in WriterPC
  /\ phase \in Phase
  /\ req \in Events \cup {NoEvent}
  /\ current_segment_id \in Nat
  /\ current_byte_offset \in Nat
  /\ dirty \in BOOLEAN
  /\ pending_acks \subseteq Events

(* spawn_writer on an empty directory. *)
WriterInit ==
  /\ SharedInit
  /\ senders = TRUE
  /\ queue = <<>>
  /\ result = [m \in Events |-> "none"]
  /\ wpc = "idle"
  /\ phase = "periodic"
  /\ req = NoEvent
  /\ current_segment_id = 1
  /\ current_byte_offset = 0
  /\ dirty = FALSE
  /\ pending_acks = {}

-----------------------------------------------------------------------------
(* Results of the appends in S that still await their ack become r. *)
Resolved(S, r) ==
  [m \in Events |->
     IF m \in S /\ result[m] = "wait" THEN r ELSE result[m]]

(* acknowledge_pending_durable_ok and fail_pending_durable_acks *)
AckPending == /\ result' = Resolved(pending_acks, "ok")
              /\ pending_acks' = {}

(* Mutant of FailPending: the request in hand is forgotten. *)
FailPendingOnly == /\ result' = Resolved(pending_acks, "failed")
                   /\ pending_acks' = {}

FailPending == /\ result' = Resolved(pending_acks \cup {req}, "failed")
               /\ pending_acks' = {}

(* Mutant of Flushed: the flush before the publication is left out. *)
FlushSkipped == TRUE

Flushed == files[current_segment_id] = current_byte_offset

(* Lengths the file may be seen to have once a write(2) that takes it from *)
(* lo to hi has started.                                                   *)
Grow(lo, hi) == IF TornWrites THEN (lo + 1)..hi ELSE {hi} \ {lo}

(* current_byte_offset > 0 && current_byte_offset + record_len > segment_bytes *)
NeedsRotation(m) ==
  /\ current_byte_offset > 0
  /\ current_byte_offset + RecordLen[m] > SegmentBytes

-----------------------------------------------------------------------------
(* Mutant of Send: off by one at the capacity of the queue. *)
SendOneMore(m, durable) ==
  /\ senders
  /\ result[m] = "none" /\ wpc # "gone"
  /\ Len(queue) <= QueueCapacity
  /\ result' = [result EXCEPT ![m] = IF durable THEN "wait" ELSE "sent"]
  /\ queue' = Append(queue, m)
  /\ UNCHANGED <<log, files, head, waiter, writer_holds_notify, faults,
                 senders, threadVars>>

(* The try_send of append_durable (durable) and try_append (not durable). *)
Send(m, durable) ==
  /\ senders
  /\ result[m] = "none"
  /\ \/ /\ wpc = "gone"
        /\ result' = [result EXCEPT ![m] = "closed"]
        /\ UNCHANGED queue
     \/ /\ wpc # "gone"
        /\ Len(queue) >= QueueCapacity
        /\ result' = [result EXCEPT ![m] = "full"]
        /\ UNCHANGED queue
     \/ /\ wpc # "gone"
        /\ Len(queue) < QueueCapacity
        /\ result' = [result EXCEPT ![m] = IF durable THEN "wait" ELSE "sent"]
        /\ queue' = Append(queue, m)
  /\ UNCHANGED <<log, files, head, waiter, writer_holds_notify, faults,
                 senders, threadVars>>

AppendDurable(m) == Send(m, TRUE)
TryAppend(m) == Send(m, FALSE)

(* The last Wal is dropped. append_durable borrows it, so nobody awaits. *)
DropWal ==
  /\ senders
  /\ \A m \in Events : result[m] # "wait"
  /\ senders' = FALSE
  /\ UNCHANGED <<log, files, head, waiter, writer_holds_notify, faults,
                 queue, result, threadVars>>

-----------------------------------------------------------------------------
(* The deadline has passed at the loop top: writer.flush() starts. *)
BeginPeriodicFlush ==
  /\ wpc = "idle" /\ dirty
  /\ wpc' = "flush" /\ phase' = "periodic"
  /\ UNCHANGED <<log, files, head, waiter, writer_holds_notify, faults,
                 senders, queue, result, req, current_segment_id,
                 current_byte_offset, dirty, pending_acks>>

(* recv returns a request; encode it and decide whether it fits. *)
Recv ==
  /\ wpc = "idle" /\ queue # <<>>
  /\ queue' = Tail(queue)
  /\ LET m == Head(queue) IN
       \/ /\ m \in Oversized
          /\ result' = Resolved({m}, "failed")
          /\ UNCHANGED <<wpc, phase, req>>
       \/ /\ m \notin Oversized
          /\ req' = m
          /\ IF NeedsRotation(m) THEN wpc' = "flush" /\ phase' = "rotate"
                                 ELSE wpc' = "write" /\ UNCHANGED phase
          /\ UNCHANGED result
  /\ UNCHANGED <<log, files, head, waiter, writer_holds_notify, faults,
                 senders, current_segment_id, current_byte_offset, dirty,
                 pending_acks>>

(* recv reports Disconnected: leave the loop for the final flush. *)
RecvDisconnected ==
  /\ wpc = "idle" /\ queue = <<>> /\ ~senders
  /\ wpc' = "flush" /\ phase' = "final"
  /\ UNCHANGED <<log, files, head, waiter, writer_holds_notify, faults,
                 senders, queue, result, req, current_segment_id,
                 current_byte_offset, dirty, pending_acks>>

(* One write(2) of BufWriter::flush moves buffered bytes into the file. *)
FlushBytes ==
  /\ wpc = "flush"
  /\ \E n \in Grow(files[current_segment_id], current_byte_offset) :
       files' = [files EXCEPT ![current_segment_id] = n]
  /\ UNCHANGED <<log, head, waiter, writer_holds_notify, faults, senders,
                 queue, result, threadVars>>

(* A write(2) of the flush fails. What was not written stays buffered; the *)
(* periodic flush is retried, the others are given up.                     *)
FlushFails ==
  /\ wpc = "flush" /\ ~Flushed
  /\ Fault("flush")
  /\ \/ /\ phase = "periodic"
        /\ wpc' = "idle"
        /\ UNCHANGED <<result, req, pending_acks>>
     \/ /\ phase = "rotate"
        /\ FailPending
        /\ req' = NoEvent
        /\ wpc' = "exit"
     \/ /\ phase = "final"
        /\ FailPending
        /\ wpc' = "notify"
        /\ UNCHANGED req
  /\ UNCHANGED <<log, files, head, waiter, writer_holds_notify, senders,
                 queue, phase, current_segment_id, current_byte_offset, dirty>>

(* Mutant of PublishHead: rotation resets the offset before the store. *)
PublishHeadAfterReset ==
  /\ wpc = "flush" /\ Flushed
  /\ head' = Offset(current_segment_id,
                    IF phase = "rotate" THEN 0 ELSE current_byte_offset)
  /\ dirty' = IF phase = "periodic" THEN FALSE ELSE dirty
  /\ IF phase = "final" THEN AckPending ELSE UNCHANGED <<result, pending_acks>>
  /\ wpc' = "notify"
  /\ UNCHANGED <<log, files, waiter, writer_holds_notify, faults, senders,
                 queue, phase, req, current_segment_id, current_byte_offset>>

(* The flush succeeded: head.store. Only the final flush acks before it    *)
(* notifies.                                                               *)
PublishHead ==
  /\ wpc = "flush" /\ Flushed
  /\ head' = Offset(current_segment_id, current_byte_offset)
  /\ dirty' = IF phase = "periodic" THEN FALSE ELSE dirty
  /\ IF phase = "final" THEN AckPending ELSE UNCHANGED <<result, pending_acks>>
  /\ wpc' = "notify"
  /\ UNCHANGED <<log, files, waiter, writer_holds_notify, faults, senders,
                 queue, phase, req, current_segment_id, current_byte_offset>>

(* Mutant of NotifyReader: rotation does not wake the reader. *)
NotifyUnlessRotating ==
  /\ wpc = "notify"
  /\ IF phase = "rotate" THEN UNCHANGED waiter ELSE NotifyWaiters
  /\ \/ /\ phase = "periodic" /\ AckPending /\ wpc' = "idle"
     \/ /\ phase = "rotate" /\ AckPending /\ wpc' = "open"
     \/ /\ phase = "final" /\ UNCHANGED <<result, pending_acks>> /\ wpc' = "exit"
  /\ UNCHANGED <<log, files, head, writer_holds_notify, faults, senders,
                 queue, phase, req, current_segment_id, current_byte_offset,
                 dirty>>

(* notify_waiters, then the acks of the records flushed. *)
NotifyReader ==
  /\ wpc = "notify"
  /\ NotifyWaiters
  /\ \/ /\ phase = "periodic" /\ AckPending /\ wpc' = "idle"
     \/ /\ phase = "rotate" /\ AckPending /\ wpc' = "open"
     \/ /\ phase = "final" /\ UNCHANGED <<result, pending_acks>> /\ wpc' = "exit"
  /\ UNCHANGED <<log, files, head, writer_holds_notify, faults, senders,
                 queue, phase, req, current_segment_id, current_byte_offset,
                 dirty>>

(* Rotation opens the next segment file. *)
OpenNextSegment ==
  LET next == current_segment_id + 1 IN
  /\ wpc = "open"
  /\ current_segment_id' = next
  /\ current_byte_offset' = 0
  /\ files' = [s \in DOMAIN files \cup {next} |->
                 IF s = next THEN 0 ELSE files[s]]
  /\ wpc' = "write"
  /\ UNCHANGED <<log, head, waiter, writer_holds_notify, faults, senders,
                 queue, result, phase, req, dirty, pending_acks>>

OpenNextSegmentFails ==
  /\ wpc = "open"
  /\ Fault("open_next")
  /\ current_segment_id' = current_segment_id + 1
  /\ current_byte_offset' = 0
  /\ FailPending
  /\ req' = NoEvent
  /\ wpc' = "exit"
  /\ UNCHANGED <<log, files, head, waiter, writer_holds_notify, senders,
                 queue, phase, dirty>>

-----------------------------------------------------------------------------
(* The record written after write_all: it lies at the end of the segment. *)
ReqEntry == Entry(req, current_segment_id, current_byte_offset)

(* Mutant of RecordWritten: the head is published with the bytes still in  *)
(* the BufWriter.                                                          *)
RecordPublished ==
  /\ log' = log \cup {ReqEntry}
  /\ current_byte_offset' = current_byte_offset + RecordLen[req]
  /\ head' = OffsetAfter(ReqEntry)
  /\ pending_acks' = IF result[req] = "wait" THEN pending_acks \cup {req}
                                             ELSE pending_acks
  /\ dirty' = TRUE
  /\ req' = NoEvent
  /\ wpc' = "idle"
  /\ UNCHANGED <<files, waiter, writer_holds_notify, faults, senders, queue,
                 result, phase, current_segment_id>>

(* Mutant of RecordWritten: the buffer is not marked dirty. *)
RecordLeftClean ==
  /\ log' = log \cup {ReqEntry}
  /\ current_byte_offset' = current_byte_offset + RecordLen[req]
  /\ pending_acks' = IF result[req] = "wait" THEN pending_acks \cup {req}
                                             ELSE pending_acks
  /\ req' = NoEvent
  /\ wpc' = "idle"
  /\ UNCHANGED <<files, head, waiter, writer_holds_notify, faults, senders,
                 queue, result, phase, current_segment_id, dirty>>

(* write_all returned Ok: advance, keep the ack for the next flush. *)
RecordWritten ==
  /\ log' = log \cup {ReqEntry}
  /\ current_byte_offset' = current_byte_offset + RecordLen[req]
  /\ pending_acks' = IF result[req] = "wait" THEN pending_acks \cup {req}
                                             ELSE pending_acks
  /\ dirty' = TRUE
  /\ req' = NoEvent
  /\ wpc' = "idle"
  /\ UNCHANGED <<files, head, waiter, writer_holds_notify, faults, senders,
                 queue, result, phase, current_segment_id>>

(* The record fits the buffer. *)
WriteBuffered == wpc = "write" /\ RecordWritten

(* The buffer is full (or the record is as large as the buffer): write_all *)
(* writes to the file, the old bytes and possibly the record itself.       *)
BeginSpill ==
  /\ wpc = "write"
  /\ wpc' = "spill"
  /\ log' = log \cup {ReqEntry}
  /\ UNCHANGED <<files, head, waiter, writer_holds_notify, faults, senders,
                 queue, result, phase, req, current_segment_id,
                 current_byte_offset, dirty, pending_acks>>

SpillBytes ==
  /\ wpc = "spill"
  /\ \E hi \in {current_byte_offset, ReqEntry.end} :
       \E n \in Grow(files[current_segment_id], hi) :
         /\ n > files[current_segment_id]
         /\ files' = [files EXCEPT ![current_segment_id] = n]
  /\ UNCHANGED <<log, head, waiter, writer_holds_notify, faults, senders,
                 queue, result, threadVars>>

SpillDone ==
  /\ wpc = "spill"
  /\ files[current_segment_id] \in {current_byte_offset, ReqEntry.end}
  /\ RecordWritten

WriteAllFails ==
  /\ wpc = "spill"
  /\ files[current_segment_id] < ReqEntry.end
  /\ Fault("write_all")
  /\ log' = log \ {ReqEntry}
  /\ FailPending
  /\ req' = NoEvent
  /\ wpc' = "exit"
  /\ UNCHANGED <<files, head, waiter, writer_holds_notify, senders, queue,
                 phase, current_segment_id, current_byte_offset, dirty>>

-----------------------------------------------------------------------------
(* Mutant of DropNotify: a clone of the Arc outlives the thread. *)
DropNothing ==
  /\ wpc = "exit"
  /\ wpc' = "dropped"
  /\ UNCHANGED <<log, files, head, waiter, writer_holds_notify, faults, senders,
                 queue, result, phase, req, current_segment_id,
                 current_byte_offset, dirty, pending_acks>>

(* writer_loop returns: its parameters are dropped last to first, notify   *)
(* before the receiver and the BufWriter.                                  *)
DropNotify ==
  /\ wpc = "exit"
  /\ writer_holds_notify' = FALSE
  /\ wpc' = "dropped"
  /\ UNCHANGED <<log, files, head, waiter, faults, senders, queue, result,
                 phase, req, current_segment_id, current_byte_offset, dirty,
                 pending_acks>>

(* Dropping the receiver drops the queued requests and with them the ack   *)
(* senders; dropping the BufWriter tries to write what it still holds.     *)
DropReceiver ==
  LET s == current_segment_id IN
  /\ wpc = "dropped"
  /\ result' = Resolved({queue[i] : i \in DOMAIN queue}, "failed")
  /\ queue' = <<>>
  /\ \/ UNCHANGED files
     \/ /\ s \in DOMAIN files
        /\ \E n \in Grow(files[s], current_byte_offset) :
             /\ n > files[s]
             /\ files' = [files EXCEPT ![s] = n]
  /\ wpc' = "gone"
  /\ UNCHANGED <<log, head, waiter, writer_holds_notify, faults, senders,
                 phase, req, current_segment_id, current_byte_offset, dirty,
                 pending_acks>>

-----------------------------------------------------------------------------
Callers == \/ \E m \in Events : AppendDurable(m) \/ TryAppend(m)
           \/ DropWal

WriterThread ==
  \/ BeginPeriodicFlush \/ Recv \/ RecvDisconnected
  \/ FlushBytes \/ FlushFails \/ PublishHead \/ NotifyReader
  \/ OpenNextSegment \/ OpenNextSegmentFails
  \/ WriteBuffered \/ BeginSpill \/ SpillBytes \/ SpillDone \/ WriteAllFails
  \/ DropNotify \/ DropReceiver

(* Nothing is left to happen once the thread and the last Wal are gone. *)
WriterStopped == wpc = "gone" /\ ~senders /\ UNCHANGED writerVars

WriterNext == Callers \/ WriterThread \/ WriterStopped

WriterSpec == WriterInit /\ [][WriterNext]_writerVars

(* The thread is scheduled by the operating system for as long as it can   *)
(* run; callers owe nothing.                                               *)
WriterFairSpec == WriterSpec /\ WF_writerVars(WriterThread)

-----------------------------------------------------------------------------
(* append_durable's promise: once it has returned Ok the record can be     *)
(* read back from its segment file, whatever flush carried it there and    *)
(* however many rotations and failed flushes came between.                 *)
AckedIsReadable ==
  \A m \in Events : result[m] = "ok" =>
    \E e \in log : e.event = m /\ Readable(e)

(* The head never exposes bytes that still sit in the BufWriter: every     *)
(* record below it can be read back.                                       *)
HeadIsReadable ==
  \A e \in log : Below(e, head) => Readable(e)

(* A caller that awaits is owed an answer: its ack sender is in the queue, *)
(* in the writer's hand or among the pending acks, so every way out of the *)
(* loop answers it before the thread is gone.                              *)
WaiterIsOwed ==
  \A m \in Events : result[m] = "wait" =>
    /\ wpc # "gone"
    /\ \/ \E i \in DOMAIN queue : queue[i] = m
       \/ m = req
       \/ m \in pending_acks

(* The places of the frames of a segment follow one another without gap or *)
(* overlap: what recovery and the reader's framing rely on.                *)
FramesTile ==
  \A e \in log :
    /\ e.start = 0 \/ \E d \in log : OffsetAfter(d) = Offset(e.segment_id, e.start)
    /\ \A d \in log : d.segment_id = e.segment_id =>
         d = e \/ d.end <= e.start \/ e.end <= d.start

(* An append leaves at most one frame in the log, whatever flush is        *)
(* retried, given up or spilled: only the sink ever sees a record twice.   *)
AppendedOnce == \A d, e \in log : d.event = e.event => d = e

(* An append that was told Full or Closed has left nothing, so that what   *)
(* the caller counts as refused is never stored later.                     *)
Accepted(m) == result[m] \notin {"none", "full", "closed"}

RefusedIsAbsent == \A e \in log : Accepted(e.event)

(* Offsets in the derived order of WalOffset. *)
AtMost(a, b) ==
  \/ a.segment_id < b.segment_id
  \/ a.segment_id = b.segment_id /\ a.byte_offset <= b.byte_offset

(* The reader compares its position with the head without a lock, which is *)
(* sound only if the head never moves back.                                *)
HeadNeverMovesBack == [][AtMost(head, head')]_writerVars

(* Every append_durable returns: a failing flush, a rotation or a fatal    *)
(* exit may delay its answer but never swallow it.                         *)
AppendsReturn ==
  \A m \in Events : result[m] = "wait" ~> result[m] # "wait"
=============================================================================
