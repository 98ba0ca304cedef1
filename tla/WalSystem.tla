------------------------------ MODULE WalSystem ------------------------------
(***************************************************************************)
(* The log as the service runs it: the writer thread and its callers, the  *)
(* forwarder task that reads through the subscription, and the process     *)
(* around them, which may stop at any instant (crash, kill, or exit after  *)
(* a shutdown) and is started again with Wal::open.                        *)
(*                                                                         *)
(* A stop loses memory, the bytes buffered in the BufWriter among it, and  *)
(* keeps what write(2), rename and unlink have done: the page cache. Loss  *)
(* of power is not modelled (nothing is fsynced).                          *)
(***************************************************************************)
EXTENDS WalWriter, WalForwarder

CONSTANTS MaxStops   \* bound on the number of process stops in a behaviour

ASSUME MaxStopsAssumption == MaxStops \in Nat

VARIABLES
  up,      \* running or stopped
  stops    \* number of stops so far (a bound, not program state)

appendVars == <<senders, queue, result, threadVars>>
readVars == <<rpc, cur, reader_open, reader_pos, cursor, gc_todo,
              last_gc_segment_id, skipped, forwarderVars>>
vars == <<writerVars, readVars, up, stops>>

SystemTypeOK ==
  /\ WriterTypeOK
  /\ ForwarderTypeOK
  /\ up \in {"running", "stopped"}
  /\ stops \in Nat

(* First start, on an empty directory. *)
Init ==
  /\ WriterInit
  /\ SubInit
  /\ ForwarderStarts /\ sunk = {}
  /\ up = "running" /\ stops = 0

-----------------------------------------------------------------------------
RunCallers == up = "running" /\ Callers /\ UNCHANGED <<readVars, up, stops>>
RunWriter == up = "running" /\ WriterThread /\ UNCHANGED <<readVars, up, stops>>
RunForwarder == up = "running" /\ ForwarderTask /\ UNCHANGED <<appendVars, up, stops>>
RunTick == up = "running" /\ Tick /\ UNCHANGED <<appendVars, up, stops>>

(* The process ends: only files and the cursor file remain. The appends    *)
(* that were waiting never return.                                         *)
Stop ==
  /\ up = "running" /\ stops < MaxStops
  /\ up' = "stopped" /\ stops' = stops + 1
  /\ log' = {e \in log : e.segment_id \in DOMAIN files => Readable(e)}
  /\ senders' = FALSE /\ queue' = <<>>
  /\ result' = [m \in Events |-> IF result[m] = "wait" THEN "failed" ELSE result[m]]
  /\ wpc' = "gone" /\ phase' = "periodic" /\ req' = NoEvent
  /\ dirty' = FALSE /\ pending_acks' = {}
  /\ waiter' = "none" /\ writer_holds_notify' = FALSE
  /\ rpc' = "idle" /\ CloseReader /\ gc_todo' = {}
  /\ fpc' = "exit" /\ batch' = <<>> /\ closing' = FALSE
  /\ UNCHANGED <<files, head, faults, current_segment_id, current_byte_offset,
                 cur, cursor, last_gc_segment_id, skipped, sunk>>

-----------------------------------------------------------------------------
(* Wal::open *)
FirstSegment == CHOOSE s \in DOMAIN files : \A t \in DOMAIN files : s <= t
ActiveSegment == CHOOSE s \in DOMAIN files : \A t \in DOMAIN files : s >= t

(* Mutant of FrameEnds: a frame that ends where the file ends is torn. *)
FrameEndsInside(s) ==
  {0} \cup {e.end : e \in {d \in log : d.segment_id = s /\ Readable(d) /\ d.end < files[s]}}

(* last_valid_offset: the end of the last complete frame of segment s.     *)
(* Frames that do not decode count; what follows the last frame is torn.   *)
FrameEnds(s) == {0} \cup {e.end : e \in {d \in log : d.segment_id = s /\ Readable(d)}}
LastValidOffset(s) == CHOOSE n \in FrameEnds(s) : \A k \in FrameEnds(s) : n >= k

(* Mutant of CursorOutside: off by one at the oldest segment. *)
CursorNotInside ==
  /\ cursor # NoCursor
  /\ \/ \A s \in DOMAIN files : cursor.segment_id <= s
     \/ \A s \in DOMAIN files : cursor.segment_id > s

CursorOutside ==
  /\ cursor # NoCursor
  /\ \/ \A s \in DOMAIN files : cursor.segment_id < s
     \/ \A s \in DOMAIN files : cursor.segment_id > s

(* Mutant of ReadStart: the cursor is ignored. *)
ReadFromFirst == Offset(FirstSegment, 0)

ReadStart == IF cursor = NoCursor THEN Offset(FirstSegment, 0) ELSE cursor

Open ==
  LET active == ActiveSegment
      valid == LastValidOffset(active)
  IN
  /\ up = "stopped" /\ ~CursorOutside
  /\ up' = "running"
  /\ files' = [files EXCEPT ![active] = valid]
  /\ senders' = TRUE
  /\ wpc' = "idle"
  /\ current_segment_id' = active /\ current_byte_offset' = valid
  /\ head' = Offset(active, valid)
  /\ writer_holds_notify' = TRUE
  /\ cur' = ReadStart /\ last_gc_segment_id' = ReadStart.segment_id - 1
  /\ fpc' = "select"
  /\ UNCHANGED <<log, waiter, faults, queue, result, phase, req, dirty,
                 pending_acks, rpc, reader_open, reader_pos, cursor, gc_todo,
                 skipped, batch, closing, sunk, stops>>

(* A graceful shutdown has run to its end. (Open returns an error when     *)
(* CursorOutside: OpenAccepts says that it never has to.)                  *)
Stopped ==
  /\ up = "running" /\ ~senders /\ wpc = "gone" /\ fpc = "exit"
  /\ UNCHANGED vars

Next == \/ RunCallers \/ RunWriter \/ RunForwarder \/ RunTick
        \/ Stop \/ Open \/ Stopped

Spec == Init /\ [][Next]_vars

(* A poll of next up to its end, and the skip that is one of its awaits. *)
PollsNext == up = "running" /\ (NextPending \/ TakeEntry \/ TakeNone)
             /\ UNCHANGED <<appendVars, up, stops>>
Skips == up = "running" /\ fpc = "select" /\ (SkipRecord \/ SkipUnreadable)
         /\ UNCHANGED <<forwarderVars, appendVars, up, stops>>

(* The runtime keeps polling its tasks and the operating system its        *)
(* threads; callers owe nothing and the process need not stop. The select  *)
(* polls its ticker first whenever it is woken, so a tick that is due is   *)
(* taken however short the moments in which next is pending; and the       *)
(* ticker leaves a whole interval between two ticks, in one of which the   *)
(* reads of next complete however often they have been cancelled.          *)
FairSpec ==
  /\ Spec
  /\ WF_vars(RunWriter) /\ WF_vars(RunForwarder) /\ WF_vars(Open)
  /\ SF_vars(RunTick) /\ SF_vars(PollsNext) /\ SF_vars(Skips)

-----------------------------------------------------------------------------
(* At-least-once, as far as the cursor goes: every record below the        *)
(* committed cursor has been stored by the sink, or is one of those next   *)
(* passed by (see NothingSkipped); and this survives cancelled reads,      *)
(* failed flushes, commits and deletions, and restarts.                    *)
CursorIsCovered ==
  \A e \in log : Below(e, cursor) => e.event \in sunk \cup skipped

(* append_durable's promise over the life of the system: a record whose    *)
(* append returned Ok can be read back, in this process or a later one,    *)
(* until the committed cursor has passed it.                               *)
AckedSurvives ==
  \A m \in Events : result[m] = "ok" =>
    \E e \in log : e.event = m /\ (Readable(e) \/ Below(e, cursor))

(* Reclaiming a segment never takes a record that is still to be           *)
(* committed, nor the segment of the published head, which the writer may  *)
(* be appending to, nor the file that the subscription is reading.         *)
ReclaimIsSafe ==
  /\ \A e \in log : ~Below(e, cursor) => e.segment_id \in DOMAIN files
  /\ head.segment_id \in DOMAIN files
  /\ reader_open => cur.segment_id \in DOMAIN files

(* Wal::open never refuses the directory that the service left behind.     *)
OpenAccepts == up = "stopped" => ~CursorOutside

(* The cursor and the reading position are always boundaries of frames     *)
(* that are wholly in the file: no stop can truncate the log below them,   *)
(* which would let later appends be taken for records already committed.   *)
OnFrameBoundary(o) ==
  \/ o.byte_offset = 0
  \/ \E e \in log : OffsetAfter(e) = o /\ Readable(e)

PositionsOnFrames ==
  OnFrameBoundary(cursor) /\ (up = "running" => OnFrameBoundary(cur))

(* next passes by no record except those whose frame does not decode.      *)
NothingSkipped == skipped \subseteq Poison

(* It breaks that promise where a write(2) is seen half done, where a read *)
(* fails, and where it moves to the next segment; nowhere else (the two    *)
(* that follow hold with whole writes and reads that succeed).             *)

(* A record that decodes is passed by only in the step to a next segment.  *)
LossOnlyAtRotation ==
  [][\/ skipped' \subseteq skipped \cup Poison
     \/ /\ cur.segment_id < head.segment_id
        /\ cur' = Offset(cur.segment_id + 1, 0)]_vars

(* As long as no rotation has been published none has been passed by.      *)
FirstSegmentIsWhole == head.segment_id = 1 => NothingSkipped

(* A batch is a run of the log: its records come one after the other, none *)
(* twice, and a record that lies between its first and the reading         *)
(* position is in it, or next has passed it by. A flush that is cancelled, *)
(* retried or cut by a rotation or a restart never reorders or doubles     *)
(* what goes into one write to the sink.                                   *)
StartOf(e) == Offset(e.segment_id, e.start)

BatchInOrder ==
  \A i, j \in DOMAIN batch : i < j => Below(batch[i], StartOf(batch[j]))

BatchHasNoGap ==
  batch # <<>> => \A e \in log : Below(e, cur) =>
    Below(e, StartOf(batch[1])) \/ e.event \in BatchEvents \cup skipped

(* The reading position goes back only when the process does: next, its    *)
(* skips and its cancellations never return to what they have passed.      *)
ReadingNeverGoesBack ==
  [][up = "running" /\ up' = "running" => AtMost(cur, cur')]_vars

(* No wake-up is lost: next is parked without a notification on its way    *)
(* only while nothing lies beyond its position, wherever the writer was    *)
(* when next registered and looked at the head.                            *)
NoWakeupIsLost ==
  rpc = "parked" /\ waiter = "registered" => NothingNewer \/ wpc = "notify"

(* The forwarder leaves after a graceful shutdown only once every record   *)
(* that was published, so every one whose append returned Ok, in this      *)
(* process or an earlier one, is with the sink or was passed by.           *)
ExitIsComplete ==
  up = "running" /\ fpc = "exit" =>
    /\ \A e \in log : Below(e, head) => e.event \in sunk \cup skipped
    /\ \A m \in Events : result[m] = "ok" => m \in sunk \cup skipped

(* The committed watermark never moves back, not even over a restart.      *)
CursorNeverMovesBack == [][AtMost(cursor, cursor')]_vars

(* The system implements the log it promises: a record is stored from the  *)
(* moment its frame is in the file until the cursor passes it.             *)
StoredEvents == {e.event : e \in {d \in log : Readable(d) /\ ~Below(d, cursor)}}

Log == INSTANCE AtLeastOnceLog WITH
  Messages <- Events,
  stored <- StoredEvents, forwarded <- sunk, lost <- skipped

(* A stored record is never forgotten, whatever stops, fails or is         *)
(* reclaimed: the only ways out are the sink and the places where next     *)
(* passes a record by.                                                     *)
ImplementsAtLeastOnce == Log!Spec

(* Once the last Wal is dropped the forwarder drains the log and exits, or *)
(* the process is stopped first.                                           *)
ShutdownDrains ==
  (up = "running" /\ ~senders) ~> (fpc = "exit" \/ up # "running")

(* A record whose append returned Ok reaches the sink, or next passes it   *)
(* by, across any number of restarts.                                      *)
AckedIsForwarded ==
  \A m \in Events : result[m] = "ok" ~> m \in sunk \cup skipped
=============================================================================
