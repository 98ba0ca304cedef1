--------------------------- MODULE WalSubscription ---------------------------
(***************************************************************************)
(* The read side of the log: WalSubscription::next hands out the records   *)
(* in order, waiting for the writer at the end of what is flushed, and     *)
(* WalSubscription::commit persists the read watermark and deletes the     *)
(* segments below it. next is split where another thread can step in:      *)
(* before the blocking read, at each look at the head, at the look at the  *)
(* Arc count and while parked.                                             *)
(***************************************************************************)
EXTENDS WalShared

VARIABLES
  rpc,          \* where the subscription is
  cur,          \* cur_segment_id and cur_byte_offset
  reader_open,  \* cur_reader is Some
  reader_pos,   \* how far the cached descriptor has been read
  cursor,       \* content of commit.cursor, or NoCursor
  gc_todo,      \* segments the running commit has still to delete
  last_gc_segment_id,
  skipped       \* history: events of the records passed by undelivered

nextVars == <<cur, reader_open, reader_pos, waiter, skipped>>
commitVars == <<cursor, gc_todo, last_gc_segment_id, files>>

(* Segment ids start at 1, so this value is never written. *)
NoCursor == Offset(0, 0)

(* idle: neither next nor commit runs; read: read_one is about to run;     *)
(* wait: in wait_or_advance, not yet registered; check: registered, about  *)
(* to load the head; count: about to read the Arc count; final: the writer *)
(* is gone, about to load the head again; parked: awaiting the notify;     *)
(* corrupt: read_one returned Corrupt; skip: in skip_corrupt_record;       *)
(* write_cursor, list, gc: the steps of commit.                            *)
RPC == {"idle", "read", "wait", "check", "count", "final", "parked",
        "corrupt", "skip", "write_cursor", "list", "gc"}

SubTypeOK ==
  /\ rpc \in RPC
  /\ cur \in WalOffset
  /\ reader_open \in BOOLEAN /\ reader_pos \in Nat
  /\ cursor \in WalOffset
  /\ gc_todo \subseteq Nat
  /\ last_gc_segment_id \in Nat
  /\ skipped \subseteq Events

(* WalSubscription::new at offset start. *)
SubOpenedAt(start) ==
  /\ rpc = "idle"
  /\ cur = start
  /\ reader_open = FALSE /\ reader_pos = 0
  /\ gc_todo = {}
  /\ last_gc_segment_id = IF start.segment_id = 0 THEN 0 ELSE start.segment_id - 1

SubInit == SubOpenedAt(Offset(1, 0)) /\ cursor = NoCursor /\ skipped = {}

-----------------------------------------------------------------------------
(* read_one. The descriptor is at reader_pos, or reopened at cur: after a  *)
(* read that ended inside a torn frame the two differ.                     *)
Pos == IF reader_open THEN reader_pos ELSE cur.byte_offset
Aligned == Pos = cur.byte_offset

StartsAtCur(e) == Offset(e.segment_id, e.start) = cur

SegmentExists == cur.segment_id \in DOMAIN files
VisibleLen == files[cur.segment_id]

CloseReader == reader_open' = FALSE /\ reader_pos' = 0

(* A complete frame that decodes: next returns the entry. *)
ReadRecord(e) ==
  /\ rpc = "read"
  /\ e \in log /\ StartsAtCur(e) /\ Readable(e) /\ Aligned
  /\ e.event \notin Poison
  /\ cur' = OffsetAfter(e)
  /\ reader_open' = TRUE /\ reader_pos' = e.end
  /\ rpc' = "idle"
  /\ UNCHANGED <<log, head, writer_holds_notify, faults, waiter, skipped, commitVars>>

(* The file ends before a complete frame does: whatever was there has been *)
(* read off the descriptor, which is kept.                                 *)
ReadEof ==
  /\ rpc = "read" /\ SegmentExists
  /\ Aligned => ~\E e \in log : StartsAtCur(e) /\ Readable(e)
  /\ reader_open' = TRUE
  /\ reader_pos' = IF VisibleLen > Pos THEN VisibleLen ELSE Pos
  /\ rpc' = "wait"
  /\ UNCHANGED <<log, head, writer_holds_notify, faults, cur, waiter, skipped, commitVars>>

(* The frame does not decode: rotten on disk, or read from its middle. *)
ReadCorrupt ==
  /\ rpc = "read" /\ SegmentExists
  /\ \/ Aligned /\ \E e \in log : StartsAtCur(e) /\ Readable(e) /\ e.event \in Poison
     \/ ~Aligned /\ VisibleLen > Pos
  /\ CloseReader
  /\ rpc' = "corrupt"
  /\ UNCHANGED <<log, head, writer_holds_notify, faults, cur, waiter, skipped, commitVars>>

(* An I/O error of the read itself is also reported as Corrupt. *)
ReadFails ==
  /\ rpc = "read" /\ SegmentExists
  /\ Fault("read")
  /\ CloseReader
  /\ rpc' = "corrupt"
  /\ UNCHANGED <<log, head, writer_holds_notify, cur, waiter, skipped, commitVars>>

(* NotFound, or OpenError and SeekError. *)
OpenFails ==
  /\ rpc = "read" /\ ~reader_open
  /\ IF SegmentExists THEN Fault("open") ELSE UNCHANGED faults
  /\ rpc' = "wait"
  /\ UNCHANGED <<log, head, writer_holds_notify, nextVars, commitVars>>

-----------------------------------------------------------------------------
(* wait_or_advance *)
Register ==
  /\ rpc = "wait"
  /\ waiter' = "registered"
  /\ rpc' = "check"
  /\ UNCHANGED <<log, head, writer_holds_notify, faults, cur, reader_open,
                 reader_pos, skipped, commitVars>>

Unread == {e \in log : e.segment_id = cur.segment_id /\ e.start >= cur.byte_offset}

(* Move to the next segment, whatever is left unread in this one. *)
Advance ==
  /\ cur' = Offset(cur.segment_id + 1, 0)
  /\ CloseReader
  /\ skipped' = skipped \cup {e.event : e \in Unread}
  /\ waiter' = "none"
  /\ rpc' = "read"

ReadAgain ==
  /\ waiter' = "none"
  /\ rpc' = "read"
  /\ UNCHANGED <<cur, reader_open, reader_pos, skipped>>

NothingNewer ==
  /\ head.segment_id <= cur.segment_id
  /\ head.segment_id = cur.segment_id => head.byte_offset <= cur.byte_offset

CheckHead ==
  /\ rpc = "check"
  /\ \/ head.segment_id > cur.segment_id /\ Advance
     \/ /\ head.segment_id = cur.segment_id
        /\ head.byte_offset > cur.byte_offset
        /\ ReadAgain
     \/ /\ NothingNewer
        /\ rpc' = "count"
        /\ UNCHANGED nextVars
  /\ UNCHANGED <<log, head, writer_holds_notify, faults, commitVars>>

(* Arc::strong_count == 1: the writer has dropped its notify. *)
CheckClosed ==
  /\ rpc = "count"
  /\ rpc' = IF writer_holds_notify THEN "parked" ELSE "final"
  /\ UNCHANGED <<log, head, writer_holds_notify, faults, nextVars, commitVars>>

FinalHead ==
  /\ rpc = "final"
  /\ \/ head.segment_id > cur.segment_id /\ Advance
     \/ /\ head.segment_id <= cur.segment_id
        /\ head.byte_offset > cur.byte_offset
        /\ ReadAgain
  /\ UNCHANGED <<log, head, writer_holds_notify, faults, commitVars>>

(* Mutant of NextNone: the head is not looked at again. *)
NextNoneAtOnce ==
  /\ rpc = "final"
  /\ waiter' = "none"
  /\ rpc' = "idle"
  /\ UNCHANGED <<log, head, writer_holds_notify, faults, cur, reader_open,
                 reader_pos, skipped, commitVars>>

(* next returns None. *)
NextNone ==
  /\ rpc = "final"
  /\ head.segment_id <= cur.segment_id
  /\ head.byte_offset <= cur.byte_offset
  /\ waiter' = "none"
  /\ rpc' = "idle"
  /\ UNCHANGED <<log, head, writer_holds_notify, faults, cur, reader_open,
                 reader_pos, skipped, commitVars>>

Woken ==
  /\ rpc = "parked" /\ waiter = "notified"
  /\ ReadAgain
  /\ UNCHANGED <<log, head, writer_holds_notify, faults, commitVars>>

-----------------------------------------------------------------------------
(* The Corrupt arm of next. *)
AtActiveTail ==
  head.segment_id = cur.segment_id /\ cur.byte_offset >= head.byte_offset

CorruptRecord ==
  /\ rpc = "corrupt"
  /\ rpc' = IF AtActiveTail THEN "wait" ELSE "skip"
  /\ UNCHANGED <<log, head, writer_holds_notify, faults, nextVars, commitVars>>

(* skip_corrupt_record: pass over the frame at cur by its length prefix.   *)
SkipRecord ==
  /\ rpc = "skip"
  /\ SegmentExists /\ VisibleLen > cur.byte_offset
  /\ \E e \in log :
       /\ StartsAtCur(e)
       /\ cur' = OffsetAfter(e)
       /\ skipped' = skipped \cup {e.event}
  /\ rpc' = "read"
  /\ UNCHANGED <<log, head, writer_holds_notify, faults, reader_open,
                 reader_pos, waiter, commitVars>>

(* The prefix cannot be read. *)
SkipUnreadable ==
  /\ rpc = "skip"
  /\ IF SegmentExists /\ VisibleLen > cur.byte_offset
     THEN Fault("open") ELSE UNCHANGED faults
  /\ rpc' = "wait"
  /\ UNCHANGED <<log, head, writer_holds_notify, nextVars, commitVars>>

(* The future of next is dropped at one of its await points; a read in     *)
(* progress takes the descriptor with it.                                  *)
CancelNext ==
  /\ rpc \in {"read", "parked", "skip"}
  /\ IF rpc = "read" THEN CloseReader ELSE UNCHANGED <<reader_open, reader_pos>>
  /\ waiter' = "none"
  /\ rpc' = "idle"
  /\ UNCHANGED <<log, head, writer_holds_notify, faults, cur, skipped, commitVars>>

(* The steps of next that neither return nor are cancelled. *)
NextStep ==
  \/ ReadEof \/ ReadCorrupt \/ ReadFails \/ OpenFails
  \/ Register \/ CheckHead \/ CheckClosed \/ FinalHead \/ Woken
  \/ CorruptRecord \/ SkipRecord \/ SkipUnreadable

-----------------------------------------------------------------------------
(* commit(up_to): write the cursor file by rename, then reclaim segments.  *)
WriteCursor(up_to) ==
  /\ rpc = "write_cursor"
  /\ cursor' = up_to
  /\ rpc' = IF up_to.segment_id > last_gc_segment_id THEN "list" ELSE "idle"
  /\ UNCHANGED <<log, head, writer_holds_notify, faults, files, gc_todo,
                 last_gc_segment_id, nextVars>>

(* Either half fails: commit returns an error and the caller starts over. *)
CommitFails ==
  /\ \/ rpc = "write_cursor" /\ Fault("cursor")
     \/ rpc = "list" /\ Fault("list")
  /\ rpc' = "write_cursor"
  /\ UNCHANGED <<log, head, writer_holds_notify, nextVars, commitVars>>

(* Mutant of ListSegments: the segment of the cursor is reclaimed as well. *)
ListThroughCursor ==
  /\ rpc = "list"
  /\ gc_todo' = {s \in DOMAIN files : s <= cursor.segment_id}
  /\ rpc' = "gc"
  /\ UNCHANGED <<log, head, writer_holds_notify, faults, files, cursor,
                 last_gc_segment_id, nextVars>>

ListSegments ==
  /\ rpc = "list"
  /\ gc_todo' = {s \in DOMAIN files : s < cursor.segment_id}
  /\ rpc' = "gc"
  /\ UNCHANGED <<log, head, writer_holds_notify, faults, files, cursor,
                 last_gc_segment_id, nextVars>>

(* Segments are deleted oldest first; a failure is only logged. *)
DeleteSegment ==
  /\ rpc = "gc"
  /\ \E s \in gc_todo :
       /\ \A t \in gc_todo : s <= t
       /\ gc_todo' = gc_todo \ {s}
       /\ \/ /\ files' = [t \in DOMAIN files \ {s} |-> files[t]]
             /\ UNCHANGED faults
          \/ Fault("delete") /\ UNCHANGED files
  /\ UNCHANGED <<log, head, writer_holds_notify, rpc, cursor,
                 last_gc_segment_id, nextVars>>

GcDone ==
  /\ rpc = "gc" /\ gc_todo = {}
  /\ last_gc_segment_id' = cursor.segment_id
  /\ rpc' = "idle"
  /\ UNCHANGED <<log, head, writer_holds_notify, faults, files, cursor,
                 gc_todo, nextVars>>

CommitStep == CommitFails \/ ListSegments \/ DeleteSegment \/ GcDone
=============================================================================
