---------------------------- MODULE WalSystem_proofs ----------------------------
(***************************************************************************)
(* Proofs about the log: first what the writer keeps by itself (WalWriter  *)
(* and its specification), then what writer, forwarder and Wal::open keep  *)
(* together (WalSystem), for every set of events, every size of record,    *)
(* segment, queue and batch, every number and kind of I/O errors and stops.*)
(***************************************************************************)
EXTENDS WalSystem, WellFoundedInduction, TLAPS

-----------------------------------------------------------------------------
(* The writer: the inductive invariant. *)

(* The thread has a request in hand exactly between recv and the append,   *)
(* and on every way out of the loop it has resolved its acks.              *)
HasRequest == \/ wpc \in {"open", "write", "spill"}
              \/ wpc \in {"flush", "notify"} /\ phase = "rotate"

AcksResolved == \/ wpc \in {"open", "exit", "dropped", "gone"}
                \/ wpc = "notify" /\ phase = "final"

RequestInv ==
  /\ IF HasRequest THEN req \in Events ELSE req = NoEvent
  /\ AcksResolved => pending_acks = {}

(* The current segment is the newest; its file ends in the BufWriter's     *)
(* range, and where a flush has succeeded at the end of it.                *)
FileInv ==
  /\ \A s \in DOMAIN files : s <= current_segment_id
  /\ wpc \notin {"exit", "dropped", "gone"} =>
       /\ current_segment_id \in DOMAIN files
       /\ files[current_segment_id] <=
            IF wpc = "spill" THEN ReqEntry.end ELSE current_byte_offset
  /\ wpc = "open" => Flushed
  /\ wpc = "notify" /\ phase # "final" => Flushed

(* The writer itself never removes a segment. *)
KeptInv == \A e \in log : e.segment_id \in DOMAIN files

(* A sealed segment, if it is there, is wholly in its file; a record of    *)
(* the current one ends at or before the offset, but for the one being     *)
(* spilled, as long as the thread lives.                                   *)
LogInv ==
  \A e \in log :
    /\ e.start < e.end
    /\ e.segment_id <= current_segment_id
    /\ e.segment_id \in DOMAIN files /\ e.segment_id < current_segment_id =>
         e.end <= files[e.segment_id]
    /\ e.segment_id = current_segment_id /\ wpc # "gone" =>
         \/ e.end <= current_byte_offset
         \/ wpc = "spill" /\ e = ReqEntry

(* Acks wait only for records of the current segment. *)
PendingInv ==
  \A m \in pending_acks : \E e \in log :
    /\ e.event = m
    /\ e.segment_id = current_segment_id
    /\ e.end <= current_byte_offset

HeadInv ==
  /\ head.segment_id <= current_segment_id
  /\ head.segment_id = current_segment_id =>
       /\ head.byte_offset <= current_byte_offset
       /\ head.segment_id \in DOMAIN files
       /\ head.byte_offset <= files[head.segment_id]

(* The next record starts where the last one of its segment ends. *)
TailInv ==
  \/ wpc = "gone"
  \/ current_byte_offset = 0
  \/ \E d \in log : OffsetAfter(d) = Offset(current_segment_id, current_byte_offset)

WriterInv ==
  /\ WriterTypeOK
  /\ RequestInv
  /\ FileInv
  /\ KeptInv
  /\ LogInv
  /\ PendingInv
  /\ HeadInv
  /\ TailInv
  /\ AckedIsReadable
  /\ WaiterIsOwed
  /\ FramesTile

-----------------------------------------------------------------------------
(* Lemmas about the operators. *)

LEMMA OffsetType ==
  ASSUME NEW s \in Nat, NEW b \in Nat
  PROVE  Offset(s, b) \in WalOffset
BY DEF Offset, WalOffset

LEMMA EntryType ==
  ASSUME NEW m \in Events, NEW s \in Nat, NEW b \in Nat
  PROVE  /\ Entry(m, s, b) \in WalEntry
         /\ Entry(m, s, b).event = m
         /\ Entry(m, s, b).segment_id = s
         /\ Entry(m, s, b).start = b
         /\ Entry(m, s, b).end = b + RecordLen[m]
         /\ RecordLen[m] \in Nat \ {0}
BY RecordLenAssumption DEF Entry, WalEntry

(* A file only ever grows, up to what it is given to write. *)
LEMMA GrowBounds ==
  ASSUME NEW lo \in Nat, NEW hi \in Nat, NEW n \in Grow(lo, hi)
  PROVE  n \in Nat /\ n <= hi /\ (lo <= hi => lo <= n)
BY FlagsAssumption DEF Grow

LEMMA ResolvedType ==
  ASSUME NEW S, NEW r \in Result, result \in [Events -> Result]
  PROVE  /\ Resolved(S, r) \in [Events -> Result]
         /\ \A m \in Events : Resolved(S, r)[m] =
              IF m \in S /\ result[m] = "wait" THEN r ELSE result[m]
BY DEF Resolved

LEMMA ReqEntryType ==
  ASSUME WriterTypeOK, req \in Events
  PROVE  /\ ReqEntry \in WalEntry
         /\ ReqEntry.event = req
         /\ ReqEntry.segment_id = current_segment_id
         /\ ReqEntry.start = current_byte_offset
         /\ ReqEntry.end = current_byte_offset + RecordLen[req]
         /\ RecordLen[req] \in Nat \ {0}
BY EntryType DEF ReqEntry, WriterTypeOK

-----------------------------------------------------------------------------
(* The channel is never filled beyond its capacity. *)
LEMMA QueueStep ==
  ASSUME WriterTypeOK, [WriterNext]_writerVars
  PROVE  QueueBounded'
<1> USE DEF WriterTypeOK, QueueBounded
<1>1. ASSUME NEW m \in Events, NEW durable \in BOOLEAN, Send(m, durable)
      PROVE  QueueBounded'
  <2>1. CASE queue' = queue
    BY <2>1
  <2>2. CASE queue' = Append(queue, m) /\ Len(queue) < QueueCapacity
    <3>1. Len(queue') = Len(queue) + 1 /\ Len(queue) \in Nat
      BY <2>2
    <3>2. QED
      BY <2>2, <3>1, SizesAssumption
  <2>3. QED
    BY <1>1, <2>1, <2>2 DEF Send
<1>2. CASE Recv
  <2>1. Len(queue') = Len(queue) - 1 /\ Len(queue) \in Nat
    BY <1>2 DEF Recv
  <2>2. QED
    BY <2>1, SizesAssumption
<1>3. CASE DropReceiver
  BY <1>3, SizesAssumption DEF DropReceiver
<1>4. CASE UNCHANGED queue
  BY <1>4
<1>5. QED
  BY <1>1, <1>2, <1>3, <1>4 DEF WriterNext, Callers, WriterThread, AppendDurable,
     TryAppend, DropWal, BeginPeriodicFlush, RecvDisconnected, FlushBytes,
     FlushFails, PublishHead, NotifyReader, OpenNextSegment,
     OpenNextSegmentFails, WriteBuffered, RecordWritten, BeginSpill, SpillBytes,
     SpillDone, WriteAllFails, DropNotify, WriterStopped, writerVars

(* Type correctness. The guards need RequestInv (what is written is an     *)
(* event) and FileInv (the current file exists).                           *)
LEMMA TypeStep ==
  ASSUME WriterTypeOK, RequestInv, FileInv, [WriterNext]_writerVars
  PROVE  WriterTypeOK'
<1> USE QueueStep DEF WriterTypeOK, SharedTypeOK, WaiterState, WriterPC, Phase, threadVars
<1>1. ASSUME NEW m \in Events, NEW durable \in BOOLEAN, Send(m, durable)
      PROVE  WriterTypeOK'
  <2>1. queue' \in Seq(Events)
    BY <1>1 DEF Send
  <2>2. result' \in [Events -> Result]
    BY <1>1 DEF Send, Result
  <2>3. QED
    BY <1>1, <2>1, <2>2 DEF Send
<1>2. CASE DropWal
  BY <1>2 DEF DropWal
<1>3. CASE BeginPeriodicFlush
  BY <1>3 DEF BeginPeriodicFlush
<1>4. CASE Recv
  <2>1. queue' \in Seq(Events) /\ Head(queue) \in Events
    BY <1>4 DEF Recv
  <2>2. result' \in [Events -> Result]
    BY <1>4, ResolvedType DEF Recv, Result
  <2>3. QED
    BY <1>4, <2>1, <2>2 DEF Recv
<1>5. CASE RecvDisconnected
  BY <1>5 DEF RecvDisconnected
<1>6. CASE FlushBytes
  BY <1>6, GrowBounds DEF FlushBytes, FileInv
<1>7. CASE FlushFails
  BY <1>7, ResolvedType DEF FlushFails, FailPending, Fault, Result
<1>8. CASE PublishHead
  <2>1. dirty' \in BOOLEAN
    BY <1>8 DEF PublishHead
  <2>2. head' \in WalOffset
    BY <1>8, OffsetType DEF PublishHead
  <2>3. result' \in [Events -> Result] /\ pending_acks' \subseteq Events
    BY <1>8, ResolvedType DEF PublishHead, AckPending, Result
  <2>4. QED
    BY <1>8, <2>1, <2>2, <2>3 DEF PublishHead
<1>9. CASE NotifyReader
  BY <1>9, ResolvedType DEF NotifyReader, NotifyWaiters, AckPending, Result
<1>10. CASE OpenNextSegment
  BY <1>10 DEF OpenNextSegment
<1>11. CASE OpenNextSegmentFails
  BY <1>11, ResolvedType DEF OpenNextSegmentFails, FailPending, Fault, Result
<1>12. CASE WriteBuffered
  BY <1>12, ReqEntryType DEF WriteBuffered, RecordWritten, RequestInv, HasRequest
<1>13. CASE BeginSpill
  BY <1>13, ReqEntryType DEF BeginSpill, RequestInv, HasRequest
<1>14. CASE SpillBytes
  <2>1. req \in Events
    BY <1>14 DEF SpillBytes, RequestInv, HasRequest
  <2>2. ReqEntry.end \in Nat
    BY <2>1, ReqEntryType DEF WalEntry
  <2>3. files[current_segment_id] \in Nat
    BY <1>14 DEF SpillBytes, FileInv
  <2>4. PICK hi \in {current_byte_offset, ReqEntry.end} :
          \E n \in Grow(files[current_segment_id], hi) :
            files' = [files EXCEPT ![current_segment_id] = n]
    BY <1>14 DEF SpillBytes
  <2>5. PICK n \in Nat : files' = [files EXCEPT ![current_segment_id] = n]
    <3>1. PICK n \in Grow(files[current_segment_id], hi) :
            files' = [files EXCEPT ![current_segment_id] = n]
      BY <2>4
    <3>2. hi \in Nat
      BY <2>2, <2>4
    <3>3. n \in Nat
      BY <2>3, <3>2, GrowBounds
    <3> QED
      BY <3>1, <3>3
  <2>6. DOMAIN files' = DOMAIN files /\ files' \in [DOMAIN files' -> Nat]
    BY <2>5
  <2>7. QED
    BY <1>14, <2>6 DEF SpillBytes
<1>15. CASE SpillDone
  BY <1>15, ReqEntryType DEF SpillDone, RecordWritten, RequestInv, HasRequest
<1>16. CASE WriteAllFails
  BY <1>16, ResolvedType DEF WriteAllFails, FailPending, Fault, Result
<1>17. CASE DropNotify
  BY <1>17 DEF DropNotify
<1>18. CASE DropReceiver
  <2>1. result' \in [Events -> Result]
    BY <1>18, ResolvedType DEF DropReceiver, Result
  <2>2. DOMAIN files' = DOMAIN files /\ files' \in [DOMAIN files -> Nat]
    BY <1>18, GrowBounds DEF DropReceiver
  <2>3. QED
    BY <1>18, <2>1, <2>2 DEF DropReceiver
<1>19. CASE WriterStopped \/ UNCHANGED writerVars
  BY <1>19 DEF WriterStopped, writerVars
<1>20. QED
  BY <1>1, <1>2, <1>3, <1>4, <1>5, <1>6, <1>7, <1>8, <1>9, <1>10, <1>11,
     <1>12, <1>13, <1>14, <1>15, <1>16, <1>17, <1>18, <1>19
     DEF WriterNext, Callers, WriterThread, AppendDurable, TryAppend

-----------------------------------------------------------------------------
LEMMA RequestStep ==
  ASSUME WriterTypeOK, RequestInv, [WriterNext]_writerVars
  PROVE  RequestInv'
<1> USE FlagsAssumption
    DEF RequestInv, HasRequest, AcksResolved, WriterTypeOK, WriterPC, Phase, threadVars
<1>1. CASE Callers \/ WriterStopped \/ UNCHANGED writerVars
  BY <1>1 DEF Callers, AppendDurable, TryAppend, Send, DropWal, WriterStopped,
     writerVars
<1>2. CASE BeginPeriodicFlush \/ RecvDisconnected
  BY <1>2 DEF BeginPeriodicFlush, RecvDisconnected
<1>3. CASE Recv
  BY <1>3 DEF Recv
<1>4. CASE FlushBytes \/ SpillBytes
  BY <1>4 DEF FlushBytes, SpillBytes
<1>5. CASE FlushFails
  BY <1>5 DEF FlushFails, FailPending
<1>6. CASE PublishHead
  BY <1>6 DEF PublishHead, AckPending
<1>7. CASE NotifyReader
  BY <1>7 DEF NotifyReader, AckPending
<1>8. CASE OpenNextSegment \/ OpenNextSegmentFails
  BY <1>8 DEF OpenNextSegment, OpenNextSegmentFails, FailPending
<1>9. CASE WriteBuffered \/ SpillDone
  BY <1>9 DEF WriteBuffered, SpillDone, RecordWritten
<1>10. CASE BeginSpill \/ WriteAllFails
  BY <1>10 DEF BeginSpill, WriteAllFails, FailPending
<1>11. CASE DropNotify \/ DropReceiver
  BY <1>11 DEF DropNotify, DropReceiver
<1>12. QED
  BY <1>1, <1>2, <1>3, <1>4, <1>5, <1>6, <1>7, <1>8, <1>9, <1>10, <1>11
     DEF WriterNext, WriterThread

(* No step of the writer or of its callers takes back what is in a file. *)
LEMMA FilesGrow ==
  ASSUME WriterTypeOK, RequestInv, FileInv, [WriterNext]_writerVars
  PROVE  \A s \in DOMAIN files : s \in DOMAIN files' /\ files[s] <= files'[s]
<1> USE DEF WriterTypeOK, SharedTypeOK
<1>1. CASE FlushBytes
  BY <1>1, GrowBounds DEF FlushBytes, FileInv
<1>2. CASE SpillBytes
  <2>1. PICK n \in Nat : /\ n > files[current_segment_id]
                         /\ files' = [files EXCEPT ![current_segment_id] = n]
    <3>1. req \in Events
      BY <1>2 DEF SpillBytes, RequestInv, HasRequest
    <3>2. PICK hi \in {current_byte_offset, ReqEntry.end} :
            \E n \in Grow(files[current_segment_id], hi) :
              /\ n > files[current_segment_id]
              /\ files' = [files EXCEPT ![current_segment_id] = n]
      BY <1>2 DEF SpillBytes
    <3>3. hi \in Nat /\ files[current_segment_id] \in Nat
      BY <1>2, <3>1, ReqEntryType DEF FileInv, SpillBytes
    <3>4. QED
      BY <3>2, <3>3, GrowBounds
  <2>2. QED
    BY <2>1, <1>2 DEF SpillBytes, FileInv
<1>3. CASE DropReceiver
  <2>1. CASE UNCHANGED files
    BY <2>1
  <2>2. CASE ~UNCHANGED files
    <3>1. PICK n \in Grow(files[current_segment_id], current_byte_offset) :
            /\ n > files[current_segment_id]
            /\ files' = [files EXCEPT ![current_segment_id] = n]
      BY <1>3, <2>2 DEF DropReceiver
    <3>2. CASE current_segment_id \in DOMAIN files
      <4>1. n \in Nat
        BY <3>1, <3>2, GrowBounds
      <4>2. QED
        BY <3>1, <3>2, <4>1
    <3>3. CASE current_segment_id \notin DOMAIN files
      BY <3>1, <3>3
    <3>4. QED
      BY <3>2, <3>3
  <2>3. QED
    BY <2>1, <2>2
<1>4. CASE OpenNextSegment
  BY <1>4 DEF OpenNextSegment, FileInv
<1>5. ASSUME UNCHANGED files
      PROVE  \A s \in DOMAIN files : s \in DOMAIN files' /\ files[s] <= files'[s]
  BY <1>5
<1>6. QED
  BY <1>1, <1>2, <1>3, <1>4, <1>5 DEF WriterNext, Callers, WriterThread,
     AppendDurable, TryAppend, Send, DropWal, BeginPeriodicFlush, Recv,
     RecvDisconnected, FlushFails, PublishHead, NotifyReader,
     OpenNextSegmentFails, WriteBuffered, RecordWritten, BeginSpill, SpillDone,
     WriteAllFails, DropNotify, WriterStopped, writerVars

(* No step but the rotation makes a new one. *)
LEMMA FilesAdded ==
  ASSUME WriterTypeOK, [WriterNext]_writerVars
  PROVE  \/ DOMAIN files' = DOMAIN files
         \/ OpenNextSegment /\ DOMAIN files' = DOMAIN files \cup {current_segment_id + 1}
BY DEF WriterTypeOK, SharedTypeOK, WriterNext, Callers, WriterThread,
   AppendDurable, TryAppend, Send, DropWal, BeginPeriodicFlush, Recv,
   RecvDisconnected, FlushBytes, FlushFails, PublishHead, NotifyReader,
   OpenNextSegment, OpenNextSegmentFails, WriteBuffered, RecordWritten, BeginSpill,
   SpillBytes, SpillDone, WriteAllFails, DropNotify, DropReceiver, WriterStopped,
   writerVars

LEMMA FileStep ==
  ASSUME WriterTypeOK, RequestInv, FileInv, [WriterNext]_writerVars
  PROVE  FileInv'
<1> USE DEF WriterTypeOK, SharedTypeOK, WriterPC, Phase, threadVars, FileInv, Flushed
<1>1. CASE Callers \/ WriterStopped \/ UNCHANGED writerVars
  BY <1>1 DEF Callers, AppendDurable, TryAppend, Send, DropWal, WriterStopped,
     writerVars, ReqEntry, Entry
<1>2. CASE BeginPeriodicFlush \/ RecvDisconnected \/ Recv
  BY <1>2 DEF BeginPeriodicFlush, RecvDisconnected, Recv
<1>3. CASE FlushBytes
  BY <1>3, GrowBounds DEF FlushBytes
<1>4. CASE FlushFails
  BY <1>4 DEF FlushFails
<1>5. CASE PublishHead \/ NotifyReader
  BY <1>5 DEF PublishHead, NotifyReader
<1>6. CASE OpenNextSegment
  BY <1>6 DEF OpenNextSegment
<1>7. CASE OpenNextSegmentFails
  BY <1>7 DEF OpenNextSegmentFails
<1>8. CASE WriteBuffered
  BY <1>8, ReqEntryType DEF WriteBuffered, RecordWritten, RequestInv, HasRequest
<1>9. CASE BeginSpill
  BY <1>9, ReqEntryType DEF BeginSpill, RequestInv, HasRequest, ReqEntry
<1>10. CASE SpillBytes
  <2>1. req \in Events
    BY <1>10 DEF SpillBytes, RequestInv, HasRequest
  <2>2. ReqEntry' = ReqEntry
    BY <1>10 DEF SpillBytes, ReqEntry
  <2>3. PICK hi \in {current_byte_offset, ReqEntry.end} :
          \E n \in Grow(files[current_segment_id], hi) :
            files' = [files EXCEPT ![current_segment_id] = n]
    BY <1>10 DEF SpillBytes
  <2>4. hi \in Nat /\ hi <= ReqEntry.end
    BY <2>1, ReqEntryType
  <2>5. PICK n \in Grow(files[current_segment_id], hi) :
          files' = [files EXCEPT ![current_segment_id] = n]
    BY <2>3
  <2>6. n \in Nat /\ n <= hi
    BY <1>10, <2>4, GrowBounds DEF SpillBytes
  <2>7. QED
    BY <1>10, <2>1, <2>2, <2>4, <2>5, <2>6, ReqEntryType DEF SpillBytes
<1>11. CASE SpillDone
  BY <1>11, ReqEntryType DEF SpillDone, RecordWritten, RequestInv, HasRequest
<1>12. CASE WriteAllFails \/ DropNotify
  BY <1>12 DEF WriteAllFails, DropNotify
<1>13. CASE DropReceiver
  BY <1>13 DEF DropReceiver
<1>14. QED
  BY <1>1, <1>2, <1>3, <1>4, <1>5, <1>6, <1>7, <1>8, <1>9, <1>10, <1>11,
     <1>12, <1>13 DEF WriterNext, WriterThread

-----------------------------------------------------------------------------
(* The steps that leave the records, and the place of the next one, alone. *)
Elsewhere ==
  \/ Callers \/ BeginPeriodicFlush \/ RecvDisconnected \/ Recv \/ FlushBytes
  \/ FlushFails \/ PublishHead \/ NotifyReader \/ DropNotify \/ DropReceiver
  \/ WriterStopped \/ UNCHANGED writerVars

LEMMA ElsewhereFrame ==
  ASSUME WriterTypeOK, Elsewhere
  PROVE  /\ UNCHANGED <<log, current_segment_id, current_byte_offset>>
         /\ wpc = "spill" => wpc' = "spill" /\ req' = req
         /\ wpc = "gone" => wpc' = "gone"
BY DEF Elsewhere, Callers, AppendDurable, TryAppend, Send, DropWal,
   BeginPeriodicFlush, RecvDisconnected, Recv, FlushBytes, FlushFails,
   PublishHead, NotifyReader, DropNotify, DropReceiver, WriterStopped,
   writerVars, threadVars

LEMMA LogStep ==
  ASSUME WriterTypeOK, RequestInv, FileInv, LogInv, [WriterNext]_writerVars
  PROVE  LogInv'
<1> USE DEF WriterTypeOK, SharedTypeOK, threadVars, LogInv
<1>1. \A s \in DOMAIN files : s \in DOMAIN files' /\ files[s] <= files'[s]
  BY FilesGrow
<1>2. \A e \in log : /\ e.segment_id \in Nat /\ e.start \in Nat /\ e.end \in Nat
                     /\ e.segment_id <= current_segment_id
  BY DEF WalEntry
<1>3. FileInv' /\ WriterTypeOK'
  BY FileStep, TypeStep
<1>0. \A e \in log : e.segment_id \in DOMAIN files' => e.segment_id \in DOMAIN files
  BY <1>2, FilesAdded
<1>4. CASE Elsewhere
  BY <1>0, <1>1, <1>2, <1>3, <1>4, ElsewhereFrame DEF ReqEntry
<1>5. CASE SpillBytes
  BY <1>0, <1>1, <1>2, <1>3, <1>5 DEF SpillBytes, ReqEntry
<1>6. CASE OpenNextSegment
  BY <1>0, <1>1, <1>2, <1>3, <1>6 DEF OpenNextSegment, FileInv, Flushed
<1>7. CASE OpenNextSegmentFails
  BY <1>0, <1>1, <1>2, <1>3, <1>7 DEF OpenNextSegmentFails, FileInv, Flushed
<1>8. CASE WriteBuffered \/ SpillDone
  <2>1. req \in Events
    BY <1>8 DEF WriteBuffered, SpillDone, RequestInv, HasRequest
  <2>2. QED
    BY <1>2, <1>8, <2>1, ReqEntryType
       DEF WriteBuffered, SpillDone, RecordWritten, FileInv
<1>9. CASE BeginSpill
  <2>1. req \in Events
    BY <1>9 DEF BeginSpill, RequestInv, HasRequest
  <2>2. ReqEntry' = ReqEntry
    BY <1>9 DEF BeginSpill, ReqEntry
  <2>3. QED
    BY <1>2, <1>9, <2>1, <2>2, ReqEntryType DEF BeginSpill, FileInv
<1>10. CASE WriteAllFails
  BY <1>2, <1>10 DEF WriteAllFails
<1>11. QED
  BY <1>4, <1>5, <1>6, <1>7, <1>8, <1>9, <1>10 DEF Elsewhere, WriterNext, WriterThread

LEMMA KeptStep ==
  ASSUME WriterTypeOK, RequestInv, FileInv, KeptInv, [WriterNext]_writerVars
  PROVE  KeptInv'
<1> USE DEF WriterTypeOK, SharedTypeOK, KeptInv
<1>1. \A s \in DOMAIN files : s \in DOMAIN files'
  BY FilesGrow
<1>2. CASE log' \subseteq log
  BY <1>1, <1>2
<1>3. CASE wpc \in {"write", "spill"} /\ log' = log \cup {ReqEntry}
  <2>1. req \in Events
    BY <1>3 DEF RequestInv, HasRequest
  <2>2. QED
    BY <1>1, <1>3, <2>1, ReqEntryType DEF FileInv
<1>4. QED
  BY <1>2, <1>3, ElsewhereFrame DEF Elsewhere, WriterNext, WriterThread, SpillBytes,
     OpenNextSegment, OpenNextSegmentFails, WriteBuffered, SpillDone, RecordWritten,
     BeginSpill, WriteAllFails

LEMMA PendingStep ==
  ASSUME WriterTypeOK, RequestInv, FileInv, LogInv, PendingInv,
         [WriterNext]_writerVars
  PROVE  PendingInv'
<1> USE DEF WriterTypeOK, SharedTypeOK, threadVars, PendingInv
<1>1. CASE Elsewhere
  <2>1. pending_acks' \subseteq pending_acks
    BY <1>1 DEF Elsewhere, Callers, AppendDurable, TryAppend, Send, DropWal,
       BeginPeriodicFlush, RecvDisconnected, Recv, FlushBytes, FlushFails,
       PublishHead, NotifyReader, DropNotify, DropReceiver, WriterStopped,
       writerVars, AckPending, FailPending
  <2>2. QED
    BY <1>1, <2>1, ElsewhereFrame
<1>2. CASE SpillBytes
  BY <1>2 DEF SpillBytes
<1>3. CASE OpenNextSegment \/ OpenNextSegmentFails \/ WriteAllFails
  BY <1>3 DEF OpenNextSegment, OpenNextSegmentFails, WriteAllFails, FailPending,
     RequestInv, AcksResolved
<1>4. CASE WriteBuffered \/ SpillDone
  <2>1. req \in Events
    BY <1>4 DEF WriteBuffered, SpillDone, RequestInv, HasRequest
  <2>2. /\ log' = log \cup {ReqEntry}
        /\ current_segment_id' = current_segment_id
        /\ current_byte_offset' = current_byte_offset + RecordLen[req]
        /\ pending_acks' \subseteq pending_acks \cup {req}
    BY <1>4 DEF WriteBuffered, SpillDone, RecordWritten
  <2>3. ASSUME NEW m \in pending_acks'
        PROVE  \E e \in log' : /\ e.event = m
                               /\ e.segment_id = current_segment_id'
                               /\ e.end <= current_byte_offset'
    <3>1. CASE m = req
      BY <2>1, <2>2, <3>1, ReqEntryType
    <3>2. CASE m \in pending_acks
      <4>1. PICK e \in log : /\ e.event = m
                             /\ e.segment_id = current_segment_id
                             /\ e.end <= current_byte_offset
        BY <3>2
      <4>2. e.end \in Nat
        BY DEF WalEntry
      <4>3. QED
        BY <2>1, <2>2, <4>1, <4>2, ReqEntryType
    <3>3. QED
      BY <2>2, <2>3, <3>1, <3>2
  <2>4. QED
    BY <2>3
<1>5. CASE BeginSpill
  BY <1>5 DEF BeginSpill
<1>6. QED
  BY <1>1, <1>2, <1>3, <1>4, <1>5 DEF Elsewhere, WriterNext, WriterThread

LEMMA HeadStep ==
  ASSUME WriterTypeOK, RequestInv, FileInv, HeadInv, [WriterNext]_writerVars
  PROVE  HeadInv' /\ AtMost(head, head')
<1> USE DEF WriterTypeOK, SharedTypeOK, threadVars, HeadInv, AtMost
<1>1. \A s \in DOMAIN files : s \in DOMAIN files' /\ files[s] <= files'[s]
  BY FilesGrow
<1>2. head.segment_id \in Nat /\ head.byte_offset \in Nat
  BY DEF WalOffset
<1>3. FileInv' /\ WriterTypeOK'
  BY FileStep, TypeStep
<1>4. CASE PublishHead
  BY <1>2, <1>4 DEF PublishHead, FileInv, Flushed, Offset
<1>5. CASE Elsewhere /\ ~PublishHead
  <2>1. UNCHANGED head
    BY <1>5 DEF Elsewhere, Callers, AppendDurable, TryAppend, Send, DropWal,
       BeginPeriodicFlush, RecvDisconnected, Recv, FlushBytes, FlushFails,
       NotifyReader, DropNotify, DropReceiver, WriterStopped, writerVars
  <2>2. QED
    BY <1>1, <1>2, <1>3, <1>5, <2>1, ElsewhereFrame
<1>6. CASE SpillBytes
  BY <1>1, <1>2, <1>3, <1>6 DEF SpillBytes
<1>7. CASE OpenNextSegment \/ OpenNextSegmentFails
  BY <1>2, <1>7 DEF OpenNextSegment, OpenNextSegmentFails
<1>8. CASE WriteBuffered \/ SpillDone
  <2>1. req \in Events
    BY <1>8 DEF WriteBuffered, SpillDone, RequestInv, HasRequest
  <2>2. QED
    BY <1>2, <1>8, <2>1, ReqEntryType DEF WriteBuffered, SpillDone, RecordWritten
<1>9. CASE BeginSpill \/ WriteAllFails
  BY <1>2, <1>9 DEF BeginSpill, WriteAllFails
<1>10. QED
  BY <1>4, <1>5, <1>6, <1>7, <1>8, <1>9 DEF Elsewhere, WriterNext, WriterThread

LEMMA TailStep ==
  ASSUME WriterTypeOK, RequestInv, TailInv, [WriterNext]_writerVars
  PROVE  TailInv'
<1> USE DEF WriterTypeOK, SharedTypeOK, TailInv
<1>1. CASE Elsewhere
  BY <1>1, ElsewhereFrame
<1>2. CASE SpillBytes
  BY <1>2 DEF SpillBytes, threadVars
<1>3. CASE OpenNextSegment \/ OpenNextSegmentFails
  BY <1>3 DEF OpenNextSegment, OpenNextSegmentFails
<1>4. CASE WriteBuffered \/ SpillDone
  <2>1. req \in Events
    BY <1>4 DEF WriteBuffered, SpillDone, RequestInv, HasRequest
  <2>2. ReqEntry \in log' /\ OffsetAfter(ReqEntry) =
          Offset(current_segment_id', current_byte_offset')
    BY <1>4, <2>1, ReqEntryType
       DEF WriteBuffered, SpillDone, RecordWritten, OffsetAfter
  <2>3. QED
    BY <2>2
<1>5. CASE BeginSpill
  BY <1>5 DEF BeginSpill
<1>6. CASE WriteAllFails
  <2>1. req \in Events
    BY <1>6 DEF WriteAllFails, RequestInv, HasRequest
  <2>2. OffsetAfter(ReqEntry) # Offset(current_segment_id, current_byte_offset)
    BY <2>1, ReqEntryType DEF OffsetAfter, Offset
  <2>3. QED
    BY <1>6, <2>2 DEF WriteAllFails
<1>7. QED
  BY <1>1, <1>2, <1>3, <1>4, <1>5, <1>6 DEF Elsewhere, WriterNext, WriterThread

(* What can be read stays where it is. *)
LEMMA ReadableStays ==
  ASSUME WriterTypeOK, RequestInv, FileInv, [WriterNext]_writerVars,
         NEW e \in log, Readable(e)
  PROVE  e \in log' /\ Readable(e)'
<1> USE DEF WriterTypeOK, SharedTypeOK
<1>1. \A s \in DOMAIN files : s \in DOMAIN files' /\ files[s] <= files'[s]
  BY FilesGrow
<1>2. WriterTypeOK'
  BY TypeStep
<1>3. Readable(e)'
  <2>1. e.segment_id \in DOMAIN files /\ e.end <= files[e.segment_id] /\ e.end \in Nat
    BY DEF Readable, WalEntry
  <2>2. QED
    BY <1>1, <1>2, <2>1 DEF Readable
<1>4. CASE WriteAllFails
  <2>1. req \in Events
    BY <1>4 DEF WriteAllFails, RequestInv, HasRequest
  <2>2. ~Readable(ReqEntry)
    BY <1>4, <2>1, ReqEntryType DEF WriteAllFails, Readable, FileInv
  <2>3. QED
    BY <1>3, <1>4, <2>2 DEF WriteAllFails
<1>5. CASE ~WriteAllFails
  BY <1>3, <1>5, ElsewhereFrame DEF WriterNext, WriterThread, Elsewhere,
     SpillBytes, OpenNextSegment, OpenNextSegmentFails, WriteBuffered,
     SpillDone, RecordWritten, BeginSpill
<1>6. QED
  BY <1>4, <1>5

(* Where an append is told Ok, its record is flushed.                      *)
LEMMA NewlyAcked ==
  ASSUME WriterTypeOK, RequestInv, FileInv, PendingInv, [WriterNext]_writerVars,
         NEW m \in Events, result'[m] = "ok", result[m] # "ok"
  PROVE  \E e \in log : e.event = m /\ Readable(e)
<1> USE DEF WriterTypeOK, SharedTypeOK
<1>1. m \in pending_acks /\ Flushed
  <2>1. CASE Callers
    BY <2>1 DEF Callers, AppendDurable, TryAppend, Send, DropWal
  <2>2. CASE Recv
    BY <2>2, ResolvedType DEF Recv, Result
  <2>3. CASE FlushFails \/ OpenNextSegmentFails \/ WriteAllFails
    BY <2>3, ResolvedType
       DEF FlushFails, OpenNextSegmentFails, WriteAllFails, FailPending, Result
  <2>4. CASE PublishHead
    BY <2>4, ResolvedType DEF PublishHead, AckPending, Result
  <2>5. CASE NotifyReader
    BY <2>5, ResolvedType DEF NotifyReader, AckPending, Result, FileInv
  <2>6. CASE DropReceiver
    BY <2>6, ResolvedType DEF DropReceiver, Result
  <2>7. CASE UNCHANGED result
    BY <2>7
  <2>8. QED
    BY <2>1, <2>2, <2>3, <2>4, <2>5, <2>6, <2>7
       DEF WriterNext, WriterThread, BeginPeriodicFlush, RecvDisconnected,
       FlushBytes, OpenNextSegment, WriteBuffered, BeginSpill, SpillBytes,
       SpillDone, RecordWritten, DropNotify, WriterStopped, writerVars
<1>2. wpc \notin {"exit", "dropped", "gone"}
  BY <1>1 DEF RequestInv, AcksResolved
<1>3. QED
  BY <1>1, <1>2 DEF PendingInv, FileInv, Flushed, Readable

LEMMA AckedStep ==
  ASSUME WriterTypeOK, RequestInv, FileInv, PendingInv, AckedIsReadable,
         [WriterNext]_writerVars
  PROVE  AckedIsReadable'
<1>1. ASSUME NEW m \in Events, result'[m] = "ok"
      PROVE  \E e \in log : e.event = m /\ Readable(e)
  <2>1. CASE result[m] = "ok"
    BY <2>1 DEF AckedIsReadable
  <2>2. CASE result[m] # "ok"
    BY <1>1, <2>2, NewlyAcked
  <2>3. QED
    BY <2>1, <2>2
<1>2. QED
  BY <1>1, ReadableStays DEF AckedIsReadable

LEMMA OwedStep ==
  ASSUME WriterTypeOK, RequestInv, WaiterIsOwed, [WriterNext]_writerVars
  PROVE  WaiterIsOwed'
<1> USE FlagsAssumption DEF WriterTypeOK, SharedTypeOK
<1> SUFFICES ASSUME NEW m \in Events, result'[m] = "wait"
             PROVE  /\ wpc' # "gone"
                    /\ \/ \E i \in DOMAIN queue' : queue'[i] = m
                       \/ m = req'
                       \/ m \in pending_acks'
  BY DEF WaiterIsOwed
<1>1. result[m] = "wait" =>
        /\ wpc # "gone"
        /\ \/ \E i \in DOMAIN queue : queue[i] = m
           \/ m = req
           \/ m \in pending_acks
  BY DEF WaiterIsOwed
<1>2. ASSUME NEW n \in Events, NEW durable \in BOOLEAN, Send(n, durable)
      PROVE  /\ wpc' # "gone"
             /\ \/ \E i \in DOMAIN queue' : queue'[i] = m
                \/ m = req'
                \/ m \in pending_acks'
  <2>1. UNCHANGED <<wpc, req, pending_acks>>
    BY <1>2 DEF Send, threadVars
  <2>2. \/ result[m] = "wait"
        \/ m = n /\ wpc # "gone" /\ queue' = Append(queue, n)
    BY <1>2 DEF Send
  <2>3. queue' = queue \/ queue' = Append(queue, n)
    BY <1>2 DEF Send
  <2>4. \A i \in DOMAIN queue : i \in DOMAIN queue' /\ queue'[i] = queue[i]
    BY <2>3
  <2>5. queue' = Append(queue, n) => \E i \in DOMAIN queue' : queue'[i] = n
    <3>1. queue' = Append(queue, n) =>
            Len(queue) + 1 \in DOMAIN queue' /\ queue'[Len(queue) + 1] = n
      OBVIOUS
    <3>2. QED
      BY <3>1
  <2>6. QED
    BY <1>1, <2>1, <2>2, <2>4, <2>5
<1>3. CASE DropWal
  BY <1>1, <1>3 DEF DropWal, threadVars
<1>4. CASE BeginPeriodicFlush \/ RecvDisconnected
  BY <1>1, <1>4 DEF BeginPeriodicFlush, RecvDisconnected
<1>5. CASE Recv
  <2>1. result[m] = "wait" /\ m # req
    BY <1>5, ResolvedType DEF Recv, Result, RequestInv, HasRequest
  <2>2. wpc' # "gone" /\ pending_acks' = pending_acks
    BY <1>5 DEF Recv
  <2>3. m = Head(queue) => m = req'
    BY <1>5, <2>1, ResolvedType DEF Recv, Result
  <2>4. ASSUME NEW i \in DOMAIN queue, queue[i] = m, m # Head(queue)
        PROVE  \E j \in DOMAIN queue' : queue'[j] = m
    <3>1. queue \in Seq(Events) /\ queue # <<>> /\ queue' = Tail(queue)
      BY <1>5 DEF Recv
    <3>2. i \in 2..Len(queue)
      BY <2>4, <3>1
    <3>3. i - 1 \in DOMAIN queue' /\ queue'[i - 1] = queue[i]
      BY <3>1, <3>2
    <3>4. QED
      BY <2>4, <3>3
  <2>5. QED
    BY <1>1, <2>1, <2>2, <2>3, <2>4
<1>6. CASE FlushFails
  BY <1>1, <1>6, ResolvedType DEF FlushFails, FailPending, Result, RequestInv, HasRequest
<1>7. CASE PublishHead
  BY <1>1, <1>7, ResolvedType DEF PublishHead, AckPending, Result
<1>8. CASE NotifyReader
  BY <1>1, <1>8, ResolvedType DEF NotifyReader, AckPending, Result
<1>9. CASE OpenNextSegment
  BY <1>1, <1>9 DEF OpenNextSegment
<1>10. CASE OpenNextSegmentFails \/ WriteAllFails
  BY <1>1, <1>10, ResolvedType DEF OpenNextSegmentFails, WriteAllFails, FailPending, Result
<1>11. CASE WriteBuffered \/ SpillDone
  BY <1>1, <1>11 DEF WriteBuffered, SpillDone, RecordWritten
<1>12. CASE BeginSpill
  BY <1>1, <1>12 DEF BeginSpill
<1>13. CASE FlushBytes \/ SpillBytes \/ WriterStopped \/ UNCHANGED writerVars
  BY <1>1, <1>13 DEF FlushBytes, SpillBytes, WriterStopped, writerVars, threadVars
<1>14. CASE DropNotify
  BY <1>1, <1>14 DEF DropNotify
<1>15. CASE DropReceiver
  BY <1>1, <1>15, ResolvedType
     DEF DropReceiver, Result, RequestInv, HasRequest, AcksResolved
<1>16. QED
  BY <1>2, <1>3, <1>4, <1>5, <1>6, <1>7, <1>8, <1>9, <1>10, <1>11, <1>12, <1>13,
     <1>14, <1>15 DEF WriterNext, Callers, WriterThread, AppendDurable, TryAppend

LEMMA TileStep ==
  ASSUME WriterTypeOK, RequestInv, FileInv, LogInv, TailInv, FramesTile,
         [WriterNext]_writerVars
  PROVE  FramesTile'
<1> USE DEF WriterTypeOK, SharedTypeOK
<1>1. CASE log' = log
  BY <1>1 DEF FramesTile
<1>2. CASE /\ wpc \in {"write", "spill"}
           /\ log' = log \cup {ReqEntry}
           /\ wpc = "write" \/ ReqEntry \notin log
  <2>1. req \in Events
    BY <1>2 DEF RequestInv, HasRequest
  <2>2. ASSUME NEW d \in log, d.segment_id = current_segment_id, d # ReqEntry
        PROVE  d.end <= ReqEntry.start
    BY <1>2, <2>1, <2>2, ReqEntryType DEF LogInv
  <2>3. ReqEntry.start = 0 \/ \E d \in log :
          OffsetAfter(d) = Offset(ReqEntry.segment_id, ReqEntry.start)
    BY <1>2, <2>1, ReqEntryType DEF TailInv
  <2>4. QED
    BY <1>2, <2>1, <2>2, <2>3, ReqEntryType DEF FramesTile
<1>3. CASE WriteAllFails
  <2>1. req \in Events
    BY <1>3 DEF WriteAllFails, RequestInv, HasRequest
  <2>2. log' = log \ {ReqEntry}
    BY <1>3 DEF WriteAllFails
  <2>3. ASSUME NEW e \in log'
        PROVE  OffsetAfter(ReqEntry) # Offset(e.segment_id, e.start)
    <3>1. e \in WalEntry /\ e \in log /\ e # ReqEntry
      BY <2>2, <2>3
    <3>2. e.segment_id = current_segment_id => e.start < ReqEntry.end
      BY <1>3, <2>1, <3>1, ReqEntryType DEF LogInv, WalEntry, WriteAllFails
    <3>3. QED
      BY <2>1, <3>1, <3>2, ReqEntryType DEF OffsetAfter, Offset, WalEntry
  <2>4. QED
    BY <2>2, <2>3 DEF FramesTile
<1>4. QED
  BY <1>1, <1>2, <1>3, ElsewhereFrame DEF WriterNext, WriterThread, Elsewhere,
     SpillBytes, OpenNextSegment, OpenNextSegmentFails, WriteBuffered,
     SpillDone, RecordWritten, BeginSpill

-----------------------------------------------------------------------------
LEMMA InitWriterInv == WriterInit => WriterInv
<1> SUFFICES ASSUME WriterInit PROVE WriterInv
  OBVIOUS
<1> USE DEF WriterInit, SharedInit
<1>1. WriterTypeOK
  <2>1. head \in WalOffset
    BY OffsetType
  <2>2. log \subseteq WalEntry /\ DOMAIN files \subseteq Nat /\ files \in [DOMAIN files -> Nat]
    OBVIOUS
  <2>3. SharedTypeOK
    BY <2>1, <2>2 DEF SharedTypeOK, WaiterState
  <2>4. queue \in Seq(Events) /\ QueueBounded /\ result \in [Events -> Result]
    BY SizesAssumption DEF Result, QueueBounded
  <2>5. QED
    BY <2>3, <2>4 DEF WriterTypeOK, WriterPC, Phase
<1>2. RequestInv /\ FileInv /\ KeptInv /\ LogInv /\ PendingInv /\ TailInv
  BY DEF RequestInv, HasRequest, AcksResolved, FileInv, KeptInv, LogInv, PendingInv, TailInv
<1>3. HeadInv
  BY DEF HeadInv, Offset
<1>4. AckedIsReadable /\ WaiterIsOwed /\ FramesTile
  BY DEF AckedIsReadable, WaiterIsOwed, FramesTile
<1>5. QED
  BY <1>1, <1>2, <1>3, <1>4 DEF WriterInv

LEMMA StepWriterInv ==
  ASSUME WriterInv, [WriterNext]_writerVars
  PROVE  WriterInv'
BY TypeStep, RequestStep, FileStep, KeptStep, LogStep, PendingStep, HeadStep, TailStep,
   AckedStep, OwedStep, TileStep DEF WriterInv

LEMMA HeadInvImpliesReadable == WriterInv => HeadIsReadable
<1> SUFFICES ASSUME WriterInv, NEW e \in log, Below(e, head)
             PROVE  Readable(e)
  BY DEF HeadIsReadable
<1>1. /\ e.segment_id \in DOMAIN files /\ e.segment_id \in Nat /\ e.end \in Nat
      /\ head \in WalOffset /\ files \in [DOMAIN files -> Nat]
      /\ current_segment_id \in Nat
  BY DEF WriterInv, WriterTypeOK, SharedTypeOK, KeptInv, WalEntry
<1>2. CASE e.segment_id < current_segment_id
  BY <1>1, <1>2 DEF WriterInv, LogInv, Readable
<1>3. CASE ~(e.segment_id < current_segment_id)
  BY <1>1, <1>3 DEF WriterInv, HeadInv, Below, Readable, WalOffset
<1>4. QED
  BY <1>2, <1>3

-----------------------------------------------------------------------------
(* AppendedOnce and RefusedIsAbsent. An accepted append is in exactly one  *)
(* place: the queue, the thread's hand or the log; only while a record is  *)
(* being spilled is it in hand and in the log at once.                     *)
QueuedOnce ==
  /\ \A i \in DOMAIN queue :
       /\ Accepted(queue[i]) /\ queue[i] # req
       /\ \A e \in log : e.event # queue[i]
  /\ \A i, j \in DOMAIN queue : queue[i] = queue[j] => i = j

TakenOnce ==
  req \in Events =>
    /\ Accepted(req)
    /\ \A e \in log : e.event = req => wpc = "spill" /\ e = ReqEntry

OnceInv == QueuedOnce /\ TakenOnce /\ AppendedOnce /\ RefusedIsAbsent

(* A step that adds no record and takes nothing from the queue but by      *)
(* emptying it, and that takes no acceptance back.                         *)
LEMMA OnceKept ==
  ASSUME WriterTypeOK, OnceInv,
         log' \subseteq log, queue' \in {queue, <<>>}, req' \in {req, NoEvent},
         wpc = "spill" /\ req' \in Events =>
           wpc' = "spill" /\ UNCHANGED <<current_segment_id, current_byte_offset>>,
         \A m \in Events : Accepted(m) => Accepted(m)'
  PROVE  OnceInv'
<1> USE DEF WriterTypeOK, SharedTypeOK
<1>1. \A i \in DOMAIN queue : queue[i] \in Events
  OBVIOUS
<1>2. \A i \in DOMAIN queue' : i \in DOMAIN queue /\ queue'[i] = queue[i]
  OBVIOUS
<1>3. QueuedOnce'
  BY <1>1, <1>2, FlagsAssumption DEF OnceInv, QueuedOnce
<1>4. TakenOnce'
  BY FlagsAssumption DEF OnceInv, TakenOnce, ReqEntry
<1>5. AppendedOnce'
  BY DEF OnceInv, AppendedOnce
<1>6. RefusedIsAbsent'
  BY DEF OnceInv, RefusedIsAbsent, WalEntry
<1>7. QED
  BY <1>3, <1>4, <1>5, <1>6 DEF OnceInv

LEMMA ResolvedAccepts ==
  ASSUME WriterTypeOK, NEW S, NEW r \in {"ok", "failed"}, result' = Resolved(S, r)
  PROVE  \A m \in Events : Accepted(m) => Accepted(m)'
<1>1. r \in Result
  BY DEF Result
<1>2. QED
  BY <1>1, ResolvedType DEF WriterTypeOK, Accepted

(* The steps of callers and thread that neither fill the queue nor take a  *)
(* request from it nor add a record.                                       *)
Quiet ==
  \/ DropWal \/ BeginPeriodicFlush \/ RecvDisconnected \/ FlushBytes \/ FlushFails
  \/ PublishHead \/ NotifyReader \/ OpenNextSegment \/ OpenNextSegmentFails
  \/ SpillBytes \/ WriteAllFails \/ DropNotify \/ DropReceiver
  \/ WriterStopped \/ UNCHANGED writerVars

LEMMA QuietOnce ==
  ASSUME WriterTypeOK, OnceInv, Quiet
  PROVE  OnceInv'
<1>1. \/ result' = result
      \/ \E S \in {pending_acks, pending_acks \cup {req},
                   {queue[i] : i \in DOMAIN queue}}, r \in {"ok", "failed"} :
            result' = Resolved(S, r)
  BY DEF Quiet, DropWal, BeginPeriodicFlush, RecvDisconnected, FlushBytes,
     FlushFails, FailPending, PublishHead, AckPending, NotifyReader,
     OpenNextSegment, OpenNextSegmentFails, SpillBytes, WriteAllFails,
     DropNotify, DropReceiver, WriterStopped, writerVars, threadVars
<1>2. \A m \in Events : Accepted(m) => Accepted(m)'
  BY <1>1, ResolvedAccepts DEF Accepted
<1>3. log' \subseteq log /\ queue' \in {queue, <<>>} /\ req' \in {req, NoEvent}
  BY DEF Quiet, DropWal, BeginPeriodicFlush, RecvDisconnected, FlushBytes,
     FlushFails, PublishHead, NotifyReader, OpenNextSegment,
     OpenNextSegmentFails, SpillBytes, WriteAllFails, DropNotify, DropReceiver,
     WriterStopped, writerVars, threadVars
<1>4. wpc = "spill" /\ req' \in Events =>
        wpc' = "spill" /\ UNCHANGED <<current_segment_id, current_byte_offset>>
  BY FlagsAssumption
     DEF Quiet, DropWal, BeginPeriodicFlush, RecvDisconnected, FlushBytes,
     FlushFails, PublishHead, NotifyReader, OpenNextSegment,
     OpenNextSegmentFails, SpillBytes, WriteAllFails, DropNotify, DropReceiver,
     WriterStopped, writerVars, threadVars
<1>5. QED
  BY <1>2, <1>3, <1>4, OnceKept

(* The request that is sent has not been sent before, so it is nowhere.    *)
LEMMA SendOnce ==
  ASSUME WriterTypeOK, OnceInv, NEW m \in Events, NEW durable \in BOOLEAN,
         Send(m, durable)
  PROVE  OnceInv'
<1> USE DEF WriterTypeOK, SharedTypeOK, threadVars
<1>1. /\ UNCHANGED <<log, req, wpc, current_segment_id, current_byte_offset>>
      /\ ~Accepted(m) /\ result[m] = "none"
      /\ \A k \in Events : k # m => result'[k] = result[k]
  BY <1>1 DEF Send, Accepted
<1>2. \A k \in Events : Accepted(k) => k # m /\ Accepted(k)'
  BY <1>1 DEF Accepted
<1>3. CASE queue' = queue
  BY <1>1, <1>2, <1>3, OnceKept
<1>4. CASE queue' = Append(queue, m) /\ result'[m] \in {"wait", "sent"}
  <2>1. TakenOnce'
    BY <1>1, <1>2, <1>4 DEF OnceInv, TakenOnce, ReqEntry
  <2>2. AppendedOnce'
    BY <1>1 DEF OnceInv, AppendedOnce
  <2>3. RefusedIsAbsent'
    BY <1>1, <1>2 DEF OnceInv, RefusedIsAbsent, WalEntry
  <2>4. /\ Len(queue) \in Nat /\ DOMAIN queue = 1..Len(queue)
        /\ DOMAIN queue' = 1..Len(queue) + 1
        /\ queue'[Len(queue) + 1] = m
        /\ \A i \in DOMAIN queue : queue'[i] = queue[i] /\ queue[i] \in Events
    BY <1>4
  <2>5. \A i \in DOMAIN queue : queue[i] # m
    BY <1>2, <2>4 DEF OnceInv, QueuedOnce
  <2>6. m # req /\ \A e \in log : e.event # m
    BY <1>1 DEF OnceInv, TakenOnce, RefusedIsAbsent
  <2>7. Accepted(m)'
    BY <1>4 DEF Accepted
  <2>8. (\A i \in DOMAIN queue : /\ Accepted(queue[i]) /\ queue[i] # req
                               /\ \A e \in log : e.event # queue[i])'
    BY <1>1, <1>2, <2>4, <2>6, <2>7 DEF OnceInv, QueuedOnce, Accepted
  <2>9. \A i, j \in DOMAIN queue' : queue'[i] = queue'[j] => i = j
    BY <2>4, <2>5 DEF OnceInv, QueuedOnce
  <2>10. QED
    BY <2>1, <2>2, <2>3, <2>8, <2>9 DEF OnceInv, QueuedOnce, Accepted
<1>5. QED
  BY <1>3, <1>4 DEF Send

LEMMA RecvOnce ==
  ASSUME WriterTypeOK, RequestInv, OnceInv, Recv
  PROVE  OnceInv'
<1> USE DEF WriterTypeOK, SharedTypeOK, threadVars
<1>1. UNCHANGED log /\ wpc = "idle" /\ req = NoEvent /\ queue # <<>>
  BY DEF Recv, RequestInv, HasRequest
<1>2. /\ queue' = Tail(queue) /\ Len(queue) \in Nat \ {0}
      /\ DOMAIN queue = 1..Len(queue) /\ DOMAIN queue' = 1..Len(queue) - 1
      /\ Head(queue) = queue[1] /\ queue[1] \in Events
      /\ \A i \in DOMAIN queue' : queue'[i] = queue[i + 1] /\ i + 1 \in DOMAIN queue
  BY DEF Recv
<1>3. /\ req' \in {NoEvent, queue[1]}
      /\ result' = result \/ result' = Resolved({queue[1]}, "failed")
  BY <1>1, <1>2 DEF Recv
<1>4. \A m \in Events : Accepted(m) => Accepted(m)'
  BY <1>3, ResolvedAccepts DEF Accepted
<1>5. \A i \in DOMAIN queue' : queue'[i] # queue[1] /\ queue'[i] \in Events
  BY <1>2 DEF OnceInv, QueuedOnce
<1>6. (\A i \in DOMAIN queue : /\ Accepted(queue[i]) /\ queue[i] # req
                             /\ \A e \in log : e.event # queue[i])'
  BY <1>1, <1>2, <1>3, <1>4, <1>5, FlagsAssumption DEF OnceInv, QueuedOnce, Accepted
<1>7. \A i, j \in DOMAIN queue' : queue'[i] = queue'[j] => i = j
  BY <1>2 DEF OnceInv, QueuedOnce
<1>8. TakenOnce'
  BY <1>1, <1>2, <1>3, <1>4, FlagsAssumption
     DEF OnceInv, QueuedOnce, TakenOnce, Accepted
<1>9. AppendedOnce'
  BY <1>1 DEF OnceInv, AppendedOnce
<1>10. RefusedIsAbsent'
  BY <1>1, <1>4 DEF OnceInv, RefusedIsAbsent, WalEntry
<1>11. QED
  BY <1>6, <1>7, <1>8, <1>9, <1>10 DEF OnceInv, QueuedOnce, Accepted

(* The record in hand enters the log, or is there already while it spills. *)
LEMMA StoreOnce ==
  ASSUME WriterTypeOK, RequestInv, OnceInv, WriteBuffered \/ SpillDone \/ BeginSpill
  PROVE  OnceInv'
<1> USE DEF WriterTypeOK, SharedTypeOK, threadVars
<1>1. /\ UNCHANGED <<queue, result>> /\ log' = log \cup {ReqEntry}
      /\ \/ req' = NoEvent
         \/ req' = req /\ wpc' = "spill" /\ ReqEntry' = ReqEntry
  BY DEF WriteBuffered, SpillDone, RecordWritten, BeginSpill, ReqEntry
<1>2. req \in Events
  BY DEF WriteBuffered, SpillDone, BeginSpill, RequestInv, HasRequest
<1>3. ReqEntry.event = req
  BY <1>2, ReqEntryType
<1>4. Accepted(req) /\ \A e \in log : e.event = req => e = ReqEntry
  BY <1>2 DEF OnceInv, TakenOnce
<1>5. QueuedOnce'
  <2>1. \A i \in DOMAIN queue : queue[i] # req' /\ queue[i] # req
    BY <1>1, FlagsAssumption DEF OnceInv, QueuedOnce
  <2>2. QED
    BY <1>1, <1>3, <2>1 DEF OnceInv, QueuedOnce, Accepted
<1>6. TakenOnce'
  BY <1>1, <1>4, FlagsAssumption DEF TakenOnce, Accepted
<1>7. AppendedOnce'
  BY <1>1, <1>3, <1>4 DEF OnceInv, AppendedOnce
<1>8. RefusedIsAbsent'
  BY <1>1, <1>3, <1>4 DEF OnceInv, RefusedIsAbsent, Accepted
<1>9. QED
  BY <1>5, <1>6, <1>7, <1>8 DEF OnceInv

LEMMA StepOnceInv ==
  ASSUME WriterTypeOK, RequestInv, OnceInv, [WriterNext]_writerVars
  PROVE  OnceInv'
BY QuietOnce, SendOnce, RecvOnce, StoreOnce
   DEF Quiet, WriterNext, Callers, WriterThread, AppendDurable, TryAppend

LEMMA InitOnceInv == WriterInit => OnceInv
BY FlagsAssumption DEF WriterInit, SharedInit, OnceInv, QueuedOnce, TakenOnce,
   AppendedOnce, RefusedIsAbsent

-----------------------------------------------------------------------------
(* The variables keep their types under every interleaving of callers and  *)
(* writer thread, with every I/O error.                                    *)
THEOREM WriterIsTypeCorrect == WriterSpec => []WriterTypeOK
<1>1. WriterInv => WriterTypeOK
  BY DEF WriterInv
<1>2. QED
  BY <1>1, InitWriterInv, StepWriterInv, PTL DEF WriterSpec

(* An append_durable that has returned Ok left its record readable in its  *)
(* segment file, through every later rotation and failed flush.            *)
THEOREM AckedRecordsAreReadable == WriterSpec => []AckedIsReadable
<1>1. WriterInv => AckedIsReadable
  BY DEF WriterInv
<1>2. QED
  BY <1>1, InitWriterInv, StepWriterInv, PTL DEF WriterSpec

(* head.store follows the flush of everything below it.                    *)
THEOREM PublishedRecordsAreReadable == WriterSpec => []HeadIsReadable
BY HeadInvImpliesReadable, InitWriterInv, StepWriterInv, PTL DEF WriterSpec

(* No append_durable that awaits is forgotten by the writer thread: at     *)
(* each of its exits the ack sender has been used.                         *)
THEOREM WaitersAreOwed == WriterSpec => []WaiterIsOwed
<1>1. WriterInv => WaiterIsOwed
  BY DEF WriterInv
<1>2. QED
  BY <1>1, InitWriterInv, StepWriterInv, PTL DEF WriterSpec

(* The records of a segment are laid end to end.                           *)
THEOREM SegmentsAreTiled == WriterSpec => []FramesTile
<1>1. WriterInv => FramesTile
  BY DEF WriterInv
<1>2. QED
  BY <1>1, InitWriterInv, StepWriterInv, PTL DEF WriterSpec

(* The head that the reader compares with never moves back.                *)
THEOREM HeadIsMonotonic == WriterSpec => HeadNeverMovesBack
<1>1. ASSUME WriterInv, [WriterNext]_writerVars
      PROVE  [AtMost(head, head')]_writerVars
  BY <1>1, HeadStep DEF WriterInv
<1>2. QED
  BY <1>1, InitWriterInv, StepWriterInv, PTL DEF WriterSpec, HeadNeverMovesBack

(* An append leaves at most one frame, whatever is retried or fails.       *)
THEOREM AppendsAreStoredOnce == WriterSpec => []AppendedOnce
<1>1. WriterInv => WriterTypeOK /\ RequestInv
  BY DEF WriterInv
<1>2. OnceInv => AppendedOnce
  BY DEF OnceInv
<1>3. QED
  BY <1>1, <1>2, InitWriterInv, StepWriterInv, InitOnceInv, StepOnceInv, PTL
     DEF WriterSpec

(* What was told Full or Closed is not in the log.                         *)
THEOREM RefusedAppendsAreAbsent == WriterSpec => []RefusedIsAbsent
<1>1. WriterInv => WriterTypeOK /\ RequestInv
  BY DEF WriterInv
<1>2. OnceInv => RefusedIsAbsent
  BY DEF OnceInv
<1>3. QED
  BY <1>1, <1>2, InitWriterInv, StepWriterInv, InitOnceInv, StepOnceInv, PTL
     DEF WriterSpec

-----------------------------------------------------------------------------
(* The system: the inductive invariant. *)

(* What holds of the writer alone still holds, but for KeptInv. *)
LogSideInv ==
  /\ WriterTypeOK
  /\ RequestInv
  /\ FileInv
  /\ LogInv
  /\ PendingInv
  /\ HeadInv
  /\ TailInv
  /\ FramesTile

(* The subscription runs next while the forwarder selects, commit while it *)
(* commits, and nothing otherwise; what is flushed is not empty, and what  *)
(* is committed is with the sink.                                          *)
TaskInv ==
  /\ fpc = "select" => /\ rpc \notin {"write_cursor", "list", "gc"}
                       /\ Len(batch) < BatchSize
  /\ fpc \in {"sink", "exit"} => rpc = "idle"
  /\ fpc = "commit" => /\ rpc \in {"idle", "write_cursor", "list", "gc"}
                       /\ BatchEvents \subseteq sunk
  /\ fpc \in {"sink", "commit"} => batch # <<>>

(* Cursor, reading position and head are boundaries of frames, in this     *)
(* order; the segments from the cursor on are there, each record that is   *)
(* not below them too.                                                     *)
PlaceInv ==
  /\ OnFrameBoundary(cursor) /\ OnFrameBoundary(cur) /\ OnFrameBoundary(head)
  /\ AtMost(cursor, cur)
  /\ cur.segment_id <= head.segment_id
  /\ cursor = NoCursor \/ cursor.segment_id \in DOMAIN files
  /\ cur.segment_id # 0 /\ 0 \notin DOMAIN files
  /\ head.segment_id \in DOMAIN files
  /\ reader_open => cur.segment_id \in DOMAIN files
  /\ \A s \in gc_todo : s < cursor.segment_id
  /\ \A e \in log : e.segment_id \in DOMAIN files \/ e.segment_id < cursor.segment_id
  /\ rpc = "skip" => ~AtActiveTail

(* The batch ends between the cursor and the reading position. *)
BatchInv ==
  batch # <<>> =>
    /\ batch[Len(batch)] \in log /\ Readable(batch[Len(batch)])
    /\ AtMost(cursor, Highest) /\ AtMost(Highest, cur)

(* Until it is with the sink, all of the batch is still in the log.        *)
FreshInv ==
  fpc \in {"select", "sink"} => \A i \in DOMAIN batch :
    batch[i] \in log /\ Readable(batch[i]) /\ ~Below(batch[i], cursor)

(* What next has passed is with the sink, in the batch, or skipped. *)
CoverInv ==
  /\ CursorIsCovered
  /\ up = "running" =>
       \A e \in log : Below(e, cur) => e.event \in sunk \cup skipped \cup BatchEvents

(* A stopped process has only its files. *)
StopInv ==
  up = "stopped" =>
    /\ wpc = "gone" /\ fpc = "exit" /\ rpc = "idle" /\ batch = <<>> /\ ~reader_open
    /\ \A e \in log : e.segment_id \in DOMAIN files => Readable(e)

SystemInv ==
  /\ SystemTypeOK
  /\ LogSideInv
  /\ TaskInv
  /\ PlaceInv
  /\ BatchInv
  /\ FreshInv
  /\ CoverInv
  /\ AckedSurvives
  /\ StopInv

-----------------------------------------------------------------------------
(* Positions and frames. *)

LEMMA OffsetAfterType ==
  ASSUME NEW e \in WalEntry
  PROVE  /\ OffsetAfter(e) \in WalOffset
         /\ OffsetAfter(e).segment_id = e.segment_id
         /\ OffsetAfter(e).byte_offset = e.end
BY DEF OffsetAfter, Offset, WalOffset, WalEntry

LEMMA AtMostIsTransitive ==
  ASSUME NEW p \in WalOffset, NEW q \in WalOffset, NEW r \in WalOffset,
         AtMost(p, q), AtMost(q, r)
  PROVE  AtMost(p, r)
BY DEF AtMost, WalOffset

LEMMA BelowIsMonotonic ==
  ASSUME NEW e \in WalEntry, NEW p \in WalOffset, NEW q \in WalOffset,
         Below(e, p), AtMost(p, q)
  PROVE  Below(e, q)
BY DEF AtMost, Below, WalOffset, WalEntry

LEMMA PositionTypes ==
  ASSUME SystemTypeOK
  PROVE  /\ cursor \in WalOffset /\ cur \in WalOffset /\ head \in WalOffset
         /\ cursor.segment_id \in Nat /\ cur.segment_id \in Nat
         /\ head.segment_id \in Nat /\ current_segment_id \in Nat
         /\ DOMAIN files \subseteq Nat /\ files \in [DOMAIN files -> Nat]
         /\ log \subseteq WalEntry
BY DEF SystemTypeOK, WriterTypeOK, SharedTypeOK, ForwarderTypeOK, SubTypeOK, WalOffset

LEMMA PlaceOrder ==
  ASSUME SystemTypeOK, LogSideInv, PlaceInv
  PROVE  /\ cursor.segment_id <= cur.segment_id
         /\ cur.segment_id <= head.segment_id
         /\ cursor.segment_id <= head.segment_id
         /\ head.segment_id <= current_segment_id
         /\ cursor.segment_id <= current_segment_id
         /\ cur.segment_id <= current_segment_id
<1>1. cursor.segment_id <= cur.segment_id
  BY PositionTypes DEF PlaceInv, AtMost
<1>2. cur.segment_id <= head.segment_id
  BY DEF PlaceInv
<1>3. head.segment_id <= current_segment_id
  BY DEF LogSideInv, HeadInv
<1>4. QED
  BY <1>1, <1>2, <1>3, PositionTypes

(* No frame straddles a boundary. *)
LEMMA NothingStraddles ==
  ASSUME WriterTypeOK, LogInv, FramesTile,
         NEW o \in WalOffset, OnFrameBoundary(o),
         NEW e \in log, e.segment_id = o.segment_id, e.start < o.byte_offset
  PROVE  e.end <= o.byte_offset /\ Readable(e)
<1> USE DEF WriterTypeOK, SharedTypeOK, WalOffset
<1>1. PICK d \in log : OffsetAfter(d) = o /\ Readable(d)
  BY DEF OnFrameBoundary, WalEntry
<1>2. d.segment_id = o.segment_id /\ d.end = o.byte_offset
  BY <1>1, OffsetAfterType
<1>3. d = e \/ e.end <= d.start
  BY <1>2 DEF FramesTile, WalEntry
<1>4. e.end <= d.end
  BY <1>3 DEF LogInv, WalEntry
<1>5. QED
  BY <1>1, <1>2, <1>4 DEF Readable, WalEntry

(* What lies below a boundary, in a segment that is there, can be read. *)
LEMMA PassedIsReadable ==
  ASSUME WriterTypeOK, LogInv, FramesTile,
         NEW o \in WalOffset, OnFrameBoundary(o), o.segment_id <= current_segment_id,
         NEW e \in log, Below(e, o), e.segment_id \in DOMAIN files
  PROVE  Readable(e)
<1> USE DEF WriterTypeOK, SharedTypeOK
<1>1. CASE e.segment_id < o.segment_id
  BY <1>1 DEF LogInv, Readable, WalOffset, WalEntry
<1>2. CASE e.segment_id = o.segment_id /\ e.end <= o.byte_offset
  <2>1. e.start < o.byte_offset
    BY <1>2 DEF LogInv, WalOffset, WalEntry
  <2>2. QED
    BY <1>2, <2>1, NothingStraddles
<1>3. QED
  BY <1>1, <1>2 DEF Below

(* The frame about to be written, or being written, lies beyond. *)
LEMMA NewIsBeyond ==
  ASSUME WriterTypeOK, LogInv, req \in Events, wpc # "gone",
         ReqEntry \notin log \/ ~Readable(ReqEntry),
         NEW o \in WalOffset, OnFrameBoundary(o), o.segment_id <= current_segment_id
  PROVE  ~Below(ReqEntry, o)
<1> USE DEF WriterTypeOK, SharedTypeOK
<1> SUFFICES ASSUME Below(ReqEntry, o) PROVE FALSE
  OBVIOUS
<1>1. o.segment_id = current_segment_id /\ current_byte_offset < o.byte_offset
  BY ReqEntryType DEF Below, WalOffset
<1>2. PICK d \in log : OffsetAfter(d) = o /\ Readable(d)
  BY <1>1 DEF OnFrameBoundary
<1>3. d.segment_id = current_segment_id /\ d.end = o.byte_offset /\ d # ReqEntry
  BY <1>1, <1>2, OffsetAfterType
<1>4. d.end <= current_byte_offset
  BY <1>3 DEF LogInv
<1>5. QED
  BY <1>1, <1>3, <1>4 DEF WalOffset

-----------------------------------------------------------------------------
(* Steps of the callers and of the writer thread. *)
WriteStep == RunCallers \/ RunWriter

LEMMA WriteFrame ==
  ASSUME WriteStep
  PROVE  /\ [WriterNext]_writerVars
         /\ Callers \/ WriterThread
         /\ UNCHANGED <<rpc, cur, reader_open, reader_pos, cursor, gc_todo,
                        last_gc_segment_id, skipped, fpc, batch, closing, sunk,
                        up, stops>>
BY DEF WriteStep, RunCallers, RunWriter, WriterNext, readVars, forwarderVars

LEMMA LogChange ==
  ASSUME WriterTypeOK, RequestInv, FileInv, Callers \/ WriterThread
  PROVE  /\ \A e \in log' : e \in log \/
              (e = ReqEntry /\ req \in Events /\ wpc \in {"write", "spill"})
         /\ \A e \in log : e \in log' \/
              (e = ReqEntry /\ req \in Events /\ wpc = "spill" /\ ~Readable(e))
<1>1. CASE log' = log
  BY <1>1
<1>2. CASE log' = log \cup {ReqEntry} /\ wpc \in {"write", "spill"}
  BY <1>2 DEF RequestInv, HasRequest
<1>3. CASE WriteAllFails
  <2>1. req \in Events
    BY <1>3 DEF WriteAllFails, RequestInv, HasRequest
  <2>2. ~Readable(ReqEntry)
    BY <1>3, <2>1, ReqEntryType
       DEF WriteAllFails, Readable, FileInv, WriterTypeOK, SharedTypeOK
  <2>3. QED
    BY <1>3, <2>1, <2>2 DEF WriteAllFails
<1>4. QED
  BY <1>1, <1>2, <1>3, ElsewhereFrame DEF WriterThread, Elsewhere,
     SpillBytes, OpenNextSegment, OpenNextSegmentFails, WriteBuffered,
     SpillDone, RecordWritten, BeginSpill

LEMMA WriteKeepsLogSide ==
  ASSUME LogSideInv, WriteStep
  PROVE  LogSideInv' /\ AtMost(head, head')
BY WriteFrame, TypeStep, RequestStep, FileStep, LogStep, PendingStep, HeadStep,
   TailStep, TileStep DEF LogSideInv

LEMMA WriteKeepsTypes ==
  ASSUME SystemTypeOK, LogSideInv, WriteStep
  PROVE  SystemTypeOK'
<1>1. WriterTypeOK'
  BY WriteKeepsLogSide DEF LogSideInv
<1>2. QED
  BY <1>1, WriteFrame DEF SystemTypeOK, ForwarderTypeOK, SubTypeOK

LEMMA WriteKeepsTasks ==
  ASSUME TaskInv, WriteStep
  PROVE  TaskInv'
BY WriteFrame DEF TaskInv, BatchEvents

LEMMA BoundaryStays ==
  ASSUME WriterTypeOK, RequestInv, FileInv, [WriterNext]_writerVars,
         NEW o, OnFrameBoundary(o)
  PROVE  o.byte_offset = 0 \/ \E e \in log' : OffsetAfter(e) = o /\ Readable(e)'
BY ReadableStays DEF OnFrameBoundary

(* The head is published where a frame ends, and that frame is flushed. *)
LEMMA PublishedIsBoundary ==
  ASSUME LogSideInv, PublishHead
  PROVE  OnFrameBoundary(head)'
<1> USE DEF LogSideInv, WriterTypeOK, SharedTypeOK
<1>1. /\ head' = Offset(current_segment_id, current_byte_offset)
      /\ UNCHANGED <<log, files>>
      /\ Flushed /\ current_segment_id \in DOMAIN files
      /\ wpc = "flush"
  BY DEF PublishHead, FileInv
<1>2. CASE current_byte_offset = 0
  BY <1>1, <1>2 DEF OnFrameBoundary, Offset
<1>3. CASE current_byte_offset # 0
  <2>1. PICK d \in log : OffsetAfter(d) = Offset(current_segment_id, current_byte_offset)
    BY <1>1, <1>3 DEF TailInv
  <2>2. d.segment_id = current_segment_id /\ d.end = current_byte_offset
    BY <2>1, OffsetAfterType DEF Offset
  <2>3. Readable(d)'
    BY <1>1, <2>2 DEF Readable, Flushed
  <2>4. QED
    BY <1>1, <2>1, <2>3 DEF OnFrameBoundary
<1>4. QED
  BY <1>2, <1>3

LEMMA HeadChange ==
  ASSUME Callers \/ WriterThread
  PROVE  UNCHANGED head \/ PublishHead
BY DEF Callers, WriterThread, AppendDurable, TryAppend, Send, DropWal,
   BeginPeriodicFlush, Recv, RecvDisconnected, FlushBytes, FlushFails,
   NotifyReader, OpenNextSegment, OpenNextSegmentFails, WriteBuffered,
   RecordWritten, BeginSpill, SpillBytes, SpillDone, WriteAllFails, DropNotify,
   DropReceiver

LEMMA WriteKeepsPlaces ==
  ASSUME SystemTypeOK, LogSideInv, PlaceInv, WriteStep
  PROVE  PlaceInv'
<1> USE DEF LogSideInv, WriterTypeOK, SharedTypeOK
<1>1. [WriterNext]_writerVars
  BY WriteFrame
<1>2. UNCHANGED <<cur, cursor, gc_todo, reader_open, rpc>>
  BY WriteFrame
<1>3. \A s \in DOMAIN files : s \in DOMAIN files'
  BY <1>1, FilesGrow
<1>4. OnFrameBoundary(cursor)' /\ OnFrameBoundary(cur)'
  BY <1>1, <1>2, BoundaryStays DEF PlaceInv, OnFrameBoundary
<1>5. OnFrameBoundary(head)'
  <2>1. CASE UNCHANGED head
    BY <1>1, <2>1, BoundaryStays DEF PlaceInv, OnFrameBoundary
  <2>2. QED
    BY <2>1, WriteFrame, HeadChange, PublishedIsBoundary
<1>6. /\ head.segment_id <= head'.segment_id
      /\ head'.segment_id \in DOMAIN files'
  <2>1. CASE UNCHANGED head
    BY <1>3, <2>1 DEF PlaceInv, WalOffset
  <2>2. CASE PublishHead
    BY <1>3, <2>2 DEF PublishHead, HeadInv, FileInv, Offset, WalOffset
  <2>3. QED
    BY <2>1, <2>2, WriteFrame, HeadChange
<1>7. cur.segment_id <= head'.segment_id
  <2>1. head \in WalOffset /\ head' \in WalOffset /\ cur \in WalOffset
    BY WriteKeepsLogSide, PositionTypes
  <2>2. cur.segment_id <= head.segment_id /\ head.segment_id <= head'.segment_id
    BY <1>6 DEF PlaceInv
  <2>3. QED
    BY <2>1, <2>2 DEF WalOffset
<1>8. 0 \notin DOMAIN files'
  BY <1>1, FilesAdded DEF PlaceInv
<1>9. \A e \in log' : e.segment_id \in DOMAIN files' \/ e.segment_id < cursor.segment_id
  <2>1. ASSUME req \in Events, wpc \in {"write", "spill"}
        PROVE  ReqEntry.segment_id \in DOMAIN files'
    BY <1>3, <2>1, ReqEntryType DEF FileInv
  <2>2. QED
    BY <1>3, <2>1, WriteFrame, LogChange DEF PlaceInv
<1>10. (rpc = "skip" => ~AtActiveTail)'
  <2>1. AtMost(head, head') /\ head' \in WalOffset
    BY WriteKeepsLogSide
  <2>2. head \in WalOffset /\ cur \in WalOffset
    BY PositionTypes
  <2>3. rpc' = "skip" => ~AtActiveTail
    BY <1>2 DEF PlaceInv
  <2>4. cur.segment_id <= head.segment_id /\ cur' = cur
    BY <1>2 DEF PlaceInv
  <2>5. ~AtActiveTail => ~AtActiveTail'
    BY <2>1, <2>2, <2>4 DEF AtActiveTail, AtMost, WalOffset
  <2>6. QED
    BY <2>3, <2>5
<1>11. QED
  BY <1>2, <1>3, <1>4, <1>5, <1>6, <1>7, <1>8, <1>9, <1>10 DEF PlaceInv, AtMost

LEMMA WriteKeepsBatch ==
  ASSUME LogSideInv, BatchInv, WriteStep
  PROVE  BatchInv'
<1>1. UNCHANGED <<batch, cursor, cur>> /\ [WriterNext]_writerVars
  BY WriteFrame
<1>2. CASE batch # <<>>
  <2>1. batch[Len(batch)] \in log' /\ Readable(batch[Len(batch)])'
    BY <1>1, <1>2, ReadableStays DEF BatchInv, LogSideInv, Readable
  <2>2. Highest' = Highest
    BY <1>1 DEF Highest
  <2>3. QED
    BY <1>1, <1>2, <2>1, <2>2 DEF BatchInv, AtMost, Readable
<1>3. QED
  BY <1>1, <1>2 DEF BatchInv

LEMMA WriteKeepsFresh ==
  ASSUME LogSideInv, FreshInv, WriteStep
  PROVE  FreshInv'
<1>1. UNCHANGED <<fpc, batch, cursor>> /\ [WriterNext]_writerVars
  BY WriteFrame
<1>2. CASE fpc \in {"select", "sink"}
  <2>1. ASSUME NEW i \in DOMAIN batch
        PROVE  /\ batch[i] \in log' /\ Readable(batch[i])'
               /\ ~Below(batch[i], cursor)
    <3>1. batch[i] \in log /\ Readable(batch[i]) /\ ~Below(batch[i], cursor)
      BY <1>2 DEF FreshInv
    <3>2. ASSUME NEW e \in log, e = batch[i]
          PROVE  e \in log' /\ Readable(e)'
      BY <1>1, <3>1, <3>2, ReadableStays DEF LogSideInv
    <3>3. QED
      BY <1>1, <3>1, <3>2 DEF Readable
  <2>2. QED
    BY <1>1, <2>1 DEF FreshInv, Below, Readable
<1>3. QED
  BY <1>1, <1>2 DEF FreshInv

LEMMA WriteKeepsCover ==
  ASSUME SystemTypeOK, LogSideInv, PlaceInv, CoverInv, WriteStep
  PROVE  CoverInv'
<1>1. /\ UNCHANGED <<cur, cursor, skipped, sunk, batch, up>>
      /\ Callers \/ WriterThread
  BY WriteFrame
<1>2. ASSUME NEW o \in {cursor, cur}, NEW e \in log', Below(e, o)
      PROVE  e \in log
  <2>1. o \in WalOffset /\ OnFrameBoundary(o) /\ o.segment_id <= current_segment_id
    BY PositionTypes, PlaceOrder DEF PlaceInv
  <2>2. CASE e \notin log
    BY <1>1, <1>2, <2>1, <2>2, LogChange, NewIsBeyond DEF LogSideInv
  <2>3. QED
    BY <2>2
<1>3. CursorIsCovered'
  BY <1>1, <1>2 DEF CoverInv, CursorIsCovered, Below
<1>4. up' = "running" => \A e \in log' : Below(e, cur') =>
        e.event \in sunk' \cup skipped' \cup BatchEvents'
  BY <1>1, <1>2 DEF CoverInv, BatchEvents, Below
<1>5. QED
  BY <1>3, <1>4 DEF CoverInv, Below

LEMMA WriteKeepsAcked ==
  ASSUME SystemTypeOK, LogSideInv, PlaceInv, AckedSurvives, WriteStep
  PROVE  AckedSurvives'
<1> SUFFICES ASSUME NEW m \in Events, result'[m] = "ok"
             PROVE  \E e \in log' : e.event = m /\ (Readable(e)' \/ Below(e, cursor'))
  BY DEF AckedSurvives, Below
<1>1. UNCHANGED cursor /\ [WriterNext]_writerVars /\ (Callers \/ WriterThread)
  BY WriteFrame
<1>2. PICK e \in log : e.event = m /\ (Readable(e) \/ Below(e, cursor))
  BY <1>1, NewlyAcked DEF AckedSurvives, LogSideInv
<1>3. CASE Readable(e)
  BY <1>1, <1>2, <1>3, ReadableStays DEF LogSideInv
<1>4. CASE Below(e, cursor)
  <2>1. /\ cursor \in WalOffset /\ OnFrameBoundary(cursor)
        /\ cursor.segment_id <= current_segment_id
    BY PositionTypes, PlaceOrder DEF PlaceInv
  <2>2. e \in log'
    BY <1>1, <1>4, <2>1, LogChange, NewIsBeyond DEF LogSideInv
  <2>3. QED
    BY <1>1, <1>2, <1>4, <2>2
<1>5. QED
  BY <1>2, <1>3, <1>4

-----------------------------------------------------------------------------
(* Steps of the forwarder and of its ticker. *)
ReadStep == RunForwarder \/ RunTick

(* Nothing moves, though a batch may have reached the sink. *)
Still == UNCHANGED <<cur, cursor, files, batch, skipped>> /\ sunk \subseteq sunk'

Taken == /\ fpc = "select" /\ UNCHANGED sunk
         /\ \E e \in log : ReadRecord(e) /\ batch' = Append(batch, e)

Advanced == /\ head.segment_id > cur.segment_id /\ Advance
            /\ UNCHANGED <<cursor, files, batch, sunk>>

PassedBy == SkipRecord /\ UNCHANGED <<batch, sunk>>

CursorWritten == fpc = "commit" /\ WriteCursor(Highest) /\ UNCHANGED <<batch, sunk>>

Deleted == fpc = "commit" /\ DeleteSegment /\ UNCHANGED <<batch, sunk>>

LEMMA ReadFrame ==
  ASSUME ReadStep
  PROVE  /\ UNCHANGED <<log, head, writer_holds_notify, senders, queue, result, wpc,
                        phase, req, current_segment_id, current_byte_offset, dirty,
                        pending_acks, up, stops>>
         /\ up = "running"
         /\ ForwarderTask \/ Tick
<1>1. ForwarderTask \/ Tick
  BY DEF ReadStep, RunForwarder, RunTick
<1>2. UNCHANGED <<log, head, writer_holds_notify>>
  BY <1>1 DEF ForwarderTask, PollNext, NextPending, NextStep, TakeEntry, TakeNone,
     SinkAccepts, SinkFails, Commit, FlushDone, Tick, ReadRecord, ReadEof,
     ReadCorrupt, ReadFails, OpenFails, Register, CheckHead, CheckClosed, FinalHead,
     NextNone, Woken, CorruptRecord, SkipRecord, SkipUnreadable, CancelNext,
     WriteCursor, CommitStep, CommitFails, ListSegments, DeleteSegment, GcDone
<1>3. QED
  BY <1>1, <1>2 DEF ReadStep, RunForwarder, RunTick, appendVars, threadVars

LEMMA ReadCases ==
  ASSUME ReadStep
  PROVE  Still \/ Taken \/ Advanced \/ PassedBy \/ CursorWritten \/ Deleted \/ FlushDone
<1>1. CASE PollNext \/ Tick \/ TakeNone \/ SinkAccepts \/ SinkFails
  BY <1>1 DEF PollNext, Tick, CancelNext, TakeNone, NextNone, SinkAccepts, SinkFails,
     WriteOk, WriteErr, Still, nextVars, commitVars, forwarderVars
<1>2. CASE NextPending
  <2>1. UNCHANGED <<fpc, batch, sunk>> /\ NextStep
    BY <1>2 DEF NextPending, forwarderVars
  <2>2. CASE ReadEof \/ ReadCorrupt \/ ReadFails \/ OpenFails
    BY <2>1, <2>2 DEF ReadEof, ReadCorrupt, ReadFails, OpenFails, Still, nextVars, commitVars
  <2>3. CASE Register \/ CheckClosed \/ Woken \/ CorruptRecord \/ SkipUnreadable
    BY <2>1, <2>3 DEF Register, CheckClosed, Woken, ReadAgain, CorruptRecord,
       SkipUnreadable, Still, nextVars, commitVars
  <2>4. CASE CheckHead \/ FinalHead
    BY <2>1, <2>4 DEF CheckHead, FinalHead, ReadAgain, Still, Advanced, nextVars, commitVars
  <2>5. CASE SkipRecord
    BY <2>1, <2>5 DEF PassedBy
  <2>6. QED
    BY <2>1, <2>2, <2>3, <2>4, <2>5 DEF NextStep
<1>3. CASE TakeEntry
  BY <1>3 DEF TakeEntry, Taken
<1>4. CASE Commit
  BY <1>4 DEF Commit, CommitStep, CommitFails, ListSegments, GcDone, Still, CursorWritten,
     Deleted, nextVars, commitVars, forwarderVars
<1>5. CASE FlushDone
  BY <1>5
<1>6. QED
  BY <1>1, <1>2, <1>3, <1>4, <1>5, ReadFrame DEF ForwarderTask

(* The only thing that happens to a file is that commit deletes it.        *)
LEMMA FilesAfterRead ==
  ASSUME SystemTypeOK, PlaceInv, ReadStep
  PROVE  /\ DOMAIN files' \subseteq DOMAIN files
         /\ files' \in [DOMAIN files' -> Nat]
         /\ \A s \in DOMAIN files' : files'[s] = files[s]
         /\ \A s \in DOMAIN files : s \in DOMAIN files' \/ s < cursor.segment_id
         /\ UNCHANGED files \/ UNCHANGED <<cursor, cur, batch, sunk, skipped>>
<1> USE DEF SystemTypeOK, WriterTypeOK, SharedTypeOK
<1>1. CASE UNCHANGED files
  BY <1>1
<1>2. CASE Deleted
  <2>1. PICK s \in gc_todo : \/ files' = [t \in DOMAIN files \ {s} |-> files[t]]
                             \/ UNCHANGED files
    BY <1>2 DEF Deleted, DeleteSegment
  <2>2. s < cursor.segment_id
    BY DEF PlaceInv
  <2>3. UNCHANGED <<cursor, cur, batch, sunk, skipped>>
    BY <1>2 DEF Deleted, DeleteSegment, nextVars
  <2>4. QED
    BY <2>1, <2>2, <2>3
<1>3. QED
  BY <1>1, <1>2, ReadCases DEF Still, Taken, ReadRecord, Advanced, PassedBy, SkipRecord,
     CursorWritten, WriteCursor, FlushDone, commitVars

LEMMA ReadKeepsReadable ==
  ASSUME SystemTypeOK, PlaceInv, ReadStep,
         NEW e \in log, Readable(e), cursor.segment_id <= e.segment_id
  PROVE  Readable(e)'
<1>1. e.segment_id \in DOMAIN files /\ e.segment_id \in Nat /\ e.end <= files[e.segment_id]
  BY PositionTypes DEF Readable
<1>2. e.segment_id \in DOMAIN files'
  BY <1>1, FilesAfterRead, PositionTypes
<1>3. QED
  BY <1>1, <1>2, FilesAfterRead DEF Readable

LEMMA ReadKeepsLogSide ==
  ASSUME SystemTypeOK, LogSideInv, PlaceInv, ReadStep, SystemTypeOK'
  PROVE  LogSideInv'
<1>1. ~(current_segment_id < cursor.segment_id)
  BY PlaceOrder, PositionTypes
<1>2. current_segment_id \in DOMAIN files => current_segment_id \in DOMAIN files'
  BY <1>1, FilesAfterRead
<1> USE ReadFrame, FilesAfterRead DEF WriterTypeOK, SharedTypeOK
<1>3. RequestInv' /\ PendingInv' /\ TailInv' /\ FramesTile'
  BY DEF LogSideInv, RequestInv, HasRequest, AcksResolved, PendingInv, TailInv, FramesTile
<1>4. FileInv'
  BY <1>2 DEF LogSideInv, FileInv, Flushed, ReqEntry
<1>5. LogInv'
  BY DEF LogSideInv, LogInv, ReqEntry
<1>6. HeadInv'
  BY <1>2 DEF LogSideInv, HeadInv
<1>7. QED
  BY <1>3, <1>4, <1>5, <1>6 DEF LogSideInv, SystemTypeOK

LEMMA BatchIsOfEvents ==
  ASSUME batch \in Seq(WalEntry)
  PROVE  BatchEvents \subseteq Events
<1>1. \A i \in DOMAIN batch : batch[i] \in WalEntry
  OBVIOUS
<1>2. QED
  BY <1>1 DEF BatchEvents, WalEntry

(* What each step leaves in the variables of subscription and forwarder.   *)
ReadTypes ==
  /\ SubTypeOK
  /\ waiter \in WaiterState /\ faults \in Nat
  /\ fpc \in {"select", "sink", "commit", "exit"}
  /\ closing \in BOOLEAN
  /\ sunk \subseteq Events

LEMMA ReadTypesStay ==
  ASSUME SystemTypeOK, TaskInv, ReadStep
  PROVE  ReadTypes'
<1>1. ReadTypes /\ batch \in Seq(WalEntry) /\ files \in [DOMAIN files -> Nat]
      /\ DOMAIN files \subseteq Nat
  BY DEF ReadTypes, SystemTypeOK, ForwarderTypeOK, WriterTypeOK, SharedTypeOK
<1> USE <1>1 DEF ReadTypes, SubTypeOK, RPC, WaiterState
<1>2. CASE PollNext \/ Tick \/ TakeNone
  <2>1. CASE PollNext
    BY <2>1 DEF PollNext, nextVars, commitVars, forwarderVars
  <2>2. CASE Tick
    <3>1. fpc' \in {"select", "sink"} /\ rpc' = "idle" /\ waiter' = "none"
          /\ UNCHANGED <<faults, cur, skipped, cursor, gc_todo, last_gc_segment_id,
                         closing, sunk>>
      BY <2>2 DEF Tick, CancelNext, commitVars
    <3>2. (reader_open' = FALSE /\ reader_pos' = 0) \/ UNCHANGED <<reader_open, reader_pos>>
      BY <2>2 DEF Tick, CancelNext, CloseReader
    <3>3. reader_open' \in BOOLEAN
      BY <3>2
    <3>4. reader_pos' \in Nat
      BY <3>2
    <3>5. QED
      BY <3>1, <3>3, <3>4
  <2>3. CASE TakeNone
    <3>1. closing' \in BOOLEAN /\ fpc' \in {"exit", "sink"} /\ rpc' = "idle"
      BY <2>3 DEF TakeNone, NextNone
    <3>2. waiter' = "none"
          /\ UNCHANGED <<faults, cur, reader_open, reader_pos, skipped, cursor, gc_todo,
                         last_gc_segment_id, sunk>>
      BY <2>3 DEF TakeNone, NextNone, commitVars
    <3>3. QED
      BY <3>1, <3>2
  <2>4. QED
    BY <1>2, <2>1, <2>2, <2>3
<1>3. CASE SinkAccepts \/ SinkFails
  <2>1. BatchEvents \subseteq Events
    BY BatchIsOfEvents, <1>1
  <2>2. QED
    BY <1>3, <2>1 DEF SinkAccepts, SinkFails, WriteOk, WriteErr, Fault, nextVars, commitVars
<1>4. CASE NextPending
  <2>1. NextStep /\ UNCHANGED forwarderVars
    BY <1>4 DEF NextPending
  <2>2. CASE ReadEof
    <3>1. VisibleLen \in Nat /\ Pos \in Nat
      BY <2>2 DEF ReadEof, SegmentExists, VisibleLen, Pos, WalOffset
    <3>2. QED
      BY <2>1, <2>2, <3>1 DEF ReadEof, commitVars, forwarderVars
  <2>3. CASE ReadCorrupt \/ ReadFails
    <3>1. faults' \in Nat
      BY <2>3 DEF ReadCorrupt, ReadFails, Fault
    <3>2. rpc' = "corrupt" /\ reader_open' = FALSE /\ reader_pos' = 0
          /\ UNCHANGED <<cur, waiter, skipped, cursor, gc_todo, last_gc_segment_id>>
      BY <2>3 DEF ReadCorrupt, ReadFails, CloseReader, commitVars
    <3>3. QED
      BY <2>1, <3>1, <3>2 DEF forwarderVars
  <2>9. CASE OpenFails
    <3>1. faults' \in Nat
      BY <2>9 DEF OpenFails, Fault
    <3>2. QED
      BY <2>1, <2>9, <3>1 DEF OpenFails, nextVars, commitVars, forwarderVars
  <2>4. CASE Register \/ Woken \/ SkipUnreadable
    BY <2>1, <2>4 DEF Register, Woken, ReadAgain, SkipUnreadable, Fault, nextVars,
       commitVars, forwarderVars
  <2>8. CASE CheckClosed \/ CorruptRecord
    BY <2>1, <2>8 DEF CheckClosed, CorruptRecord, nextVars, commitVars, forwarderVars
  <2>5. CASE CheckHead \/ FinalHead
    <3>1. Offset(cur.segment_id + 1, 0) \in WalOffset
      <4>1. cur.segment_id + 1 \in Nat /\ 0 \in Nat
        BY PositionTypes
      <4>2. QED
        BY <4>1, OffsetType
    <3>2. {e.event : e \in Unread} \subseteq Events
      BY DEF Unread, WalEntry, SystemTypeOK, WriterTypeOK, SharedTypeOK
    <3>3. CASE Advance
      BY <2>1, <2>5, <3>1, <3>2, <3>3 DEF CheckHead, FinalHead, Advance, CloseReader,
         commitVars, forwarderVars
    <3>4. CASE ReadAgain \/ (UNCHANGED nextVars /\ rpc' = "count")
      BY <2>1, <2>5, <3>4 DEF CheckHead, FinalHead, ReadAgain, nextVars, commitVars,
         forwarderVars
    <3>5. QED
      BY <2>5, <3>3, <3>4 DEF CheckHead, FinalHead
  <2>6. CASE SkipRecord
    <3>1. PICK e \in log : cur' = OffsetAfter(e) /\ skipped' = skipped \cup {e.event}
      BY <2>6 DEF SkipRecord
    <3>2. OffsetAfter(e) \in WalOffset /\ e.event \in Events
      BY OffsetAfterType, PositionTypes DEF WalEntry
    <3>3. QED
      BY <2>1, <2>6, <3>1, <3>2 DEF SkipRecord, commitVars, forwarderVars
  <2>7. QED
    BY <2>1, <2>2, <2>3, <2>4, <2>5, <2>6, <2>8, <2>9 DEF NextStep
<1>5. CASE TakeEntry
  <2>1. PICK e \in log : ReadRecord(e) /\ batch' = Append(batch, e)
    BY <1>5 DEF TakeEntry
  <2>2. OffsetAfter(e) \in WalOffset /\ e.end \in Nat
    BY OffsetAfterType, PositionTypes DEF WalEntry
  <2>3. QED
    BY <1>5, <2>1, <2>2 DEF TakeEntry, ReadRecord, commitVars
<1>6. CASE Commit
  <2>1. UNCHANGED forwarderVars
    BY <1>6 DEF Commit
  <2>2. CASE WriteCursor(Highest)
    <3>1. batch[Len(batch)] \in WalEntry
      BY <1>6 DEF Commit, TaskInv
    <3>2. Highest \in WalOffset
      BY <3>1, OffsetAfterType DEF Highest
    <3>3. QED
      BY <2>1, <2>2, <3>2 DEF WriteCursor, nextVars, forwarderVars
  <2>3. CASE CommitFails \/ ListSegments
    BY <2>1, <2>3 DEF CommitFails, ListSegments, Fault, nextVars, commitVars, forwarderVars
  <2>4. CASE DeleteSegment
    BY <2>1, <2>4 DEF DeleteSegment, Fault, nextVars, forwarderVars
  <2>5. CASE GcDone
    BY <2>1, <2>5 DEF GcDone, nextVars, forwarderVars, WalOffset
  <2>6. QED
    BY <1>6, <2>2, <2>3, <2>4, <2>5 DEF Commit, CommitStep
<1>7. CASE FlushDone
  BY <1>7 DEF FlushDone, nextVars, commitVars
<1>8. QED
  BY <1>2, <1>3, <1>4, <1>5, <1>6, <1>7, ReadFrame DEF ForwarderTask

LEMMA ReadKeepsTypes ==
  ASSUME SystemTypeOK, TaskInv, PlaceInv, ReadStep
  PROVE  SystemTypeOK'
<1>1. ReadTypes'
  BY ReadTypesStay
<1>2. batch' \in Seq(WalEntry) /\ Len(batch') <= BatchSize
  <2>1. batch \in Seq(WalEntry) /\ Len(batch) <= BatchSize /\ log \subseteq WalEntry
    BY PositionTypes DEF SystemTypeOK, ForwarderTypeOK
  <2>2. CASE UNCHANGED batch
    BY <2>1, <2>2
  <2>3. CASE Taken
    <3>1. PICK e \in WalEntry : batch' = Append(batch, e)
      BY <2>1, <2>3 DEF Taken
    <3>2. Len(batch) < BatchSize
      BY <2>3 DEF Taken, TaskInv
    <3>3. QED
      BY <2>1, <3>1, <3>2, BatchSizeAssumption
  <2>4. CASE FlushDone
    BY <2>4, BatchSizeAssumption DEF FlushDone
  <2>5. QED
    BY <2>2, <2>3, <2>4, ReadCases DEF Still, Advanced, PassedBy, CursorWritten, Deleted
<1>3. WriterTypeOK'
  BY <1>1, ReadFrame, FilesAfterRead
     DEF SystemTypeOK, WriterTypeOK, SharedTypeOK, ReadTypes, QueueBounded
<1>4. QED
  BY <1>1, <1>2, <1>3, ReadFrame DEF SystemTypeOK, ForwarderTypeOK, ReadTypes

LEMMA ReadKeepsTasks ==
  ASSUME SystemTypeOK, TaskInv, ReadStep
  PROVE  TaskInv'
<1> USE BatchSizeAssumption DEF TaskInv
<1>1. batch \in Seq(WalEntry) /\ fpc \in {"select", "sink", "commit", "exit"}
  BY DEF SystemTypeOK, ForwarderTypeOK
<1>2. CASE PollNext
  BY <1>2 DEF PollNext, forwarderVars
<1>3. CASE Tick
  BY <1>3 DEF Tick, CancelNext
<1>4. CASE TakeNone
  BY <1>4 DEF TakeNone, NextNone
<1>5. CASE SinkAccepts
  BY <1>5 DEF SinkAccepts, WriteOk, BatchEvents
<1>6. CASE SinkFails
  BY <1>6 DEF SinkFails
<1>7. CASE NextPending
  <2>1. fpc = "select" /\ UNCHANGED <<fpc, batch, sunk>>
    BY <1>7 DEF NextPending, forwarderVars
  <2>2. rpc' \notin {"write_cursor", "list", "gc"}
    BY <1>7 DEF NextPending, NextStep, ReadEof, ReadCorrupt, ReadFails, OpenFails, Register,
       CheckHead, CheckClosed, FinalHead, Woken, CorruptRecord, SkipRecord,
       SkipUnreadable, Advance, ReadAgain
  <2>3. QED
    BY <2>1, <2>2
<1>8. CASE TakeEntry
  <2>1. PICK e \in log : batch' = Append(batch, e) /\ rpc' = "idle"
    BY <1>8 DEF TakeEntry, ReadRecord
  <2>2. batch' # <<>> /\ Len(batch') \in Nat
    BY <1>1, <2>1
  <2>3. fpc' = IF Len(batch') >= BatchSize THEN "sink" ELSE "select"
    BY <1>8 DEF TakeEntry
  <2>4. QED
    BY <2>1, <2>2, <2>3
<1>9. CASE Commit
  <2>1. fpc = "commit" /\ UNCHANGED <<fpc, batch, sunk>>
    BY <1>9 DEF Commit, forwarderVars
  <2>2. rpc' \in {"idle", "write_cursor", "list", "gc"}
    BY <1>9 DEF Commit, WriteCursor, CommitStep, CommitFails, ListSegments, DeleteSegment,
       GcDone
  <2>3. QED
    BY <2>1, <2>2 DEF BatchEvents
<1>10. CASE FlushDone
  BY <1>10 DEF FlushDone
<1>11. QED
  BY <1>2, <1>3, <1>4, <1>5, <1>6, <1>7, <1>8, <1>9, <1>10, ReadFrame DEF ForwarderTask

(* Where the positions go: from boundary to boundary, never back, and not  *)
(* beyond the segment of the head.                                         *)
LEMMA ReadMoves ==
  ASSUME SystemTypeOK, LogSideInv, TaskInv, PlaceInv, BatchInv, ReadStep
  PROVE  /\ OnFrameBoundary(cursor') /\ OnFrameBoundary(cur')
         /\ AtMost(cursor, cursor') /\ AtMost(cursor', cur') /\ AtMost(cur, cur')
         /\ cur'.segment_id <= head.segment_id
         /\ cursor' = NoCursor \/ cursor'.segment_id \in DOMAIN files
<1> DEFINE Goal == /\ OnFrameBoundary(cursor') /\ OnFrameBoundary(cur')
                   /\ AtMost(cursor, cursor') /\ AtMost(cursor', cur') /\ AtMost(cur, cur')
                   /\ cur'.segment_id <= head.segment_id
                   /\ cursor' = NoCursor \/ cursor'.segment_id \in DOMAIN files
<1>1. \A p \in WalOffset : AtMost(p, p)
  BY DEF AtMost, WalOffset
<1>2. CASE UNCHANGED <<cur, cursor>>
  BY <1>1, <1>2, PositionTypes DEF PlaceInv
<1>3. ASSUME NEW e \in log, StartsAtCur(e), Readable(e), cur' = OffsetAfter(e),
             UNCHANGED cursor
      PROVE  Goal
  <2>1. /\ cur' \in WalOffset
        /\ cur'.segment_id = cur.segment_id /\ e.segment_id = cur.segment_id
        /\ cur'.byte_offset = e.end /\ e.start = cur.byte_offset
    BY <1>3, OffsetAfterType, PositionTypes DEF StartsAtCur, Offset
  <2>2. AtMost(cur, cur')
    <3>1. e.start < e.end /\ e.start \in Nat /\ e.end \in Nat
      BY PositionTypes DEF LogSideInv, LogInv, WalEntry
    <3>2. QED
      BY <2>1, <3>1 DEF AtMost
  <2>3. OnFrameBoundary(cur')
    BY <1>3 DEF OnFrameBoundary
  <2>4. AtMost(cursor, cur')
    BY <2>1, <2>2, AtMostIsTransitive, PositionTypes DEF PlaceInv
  <2>5. QED
    BY <1>1, <1>3, <2>1, <2>2, <2>3, <2>4, PositionTypes DEF PlaceInv
<1>4. CASE Taken
  BY <1>3, <1>4 DEF Taken, ReadRecord, commitVars
<1>5. CASE Advanced
  <2>1. cur' = Offset(cur.segment_id + 1, 0) /\ UNCHANGED cursor
        /\ cur.segment_id < head.segment_id
    BY <1>5, PositionTypes DEF Advanced, Advance
  <2>2. /\ cur'.segment_id = cur.segment_id + 1 /\ cur'.byte_offset = 0
        /\ cur' \in WalOffset
    BY <2>1, PositionTypes DEF Offset, WalOffset
  <2>3. AtMost(cur, cur')
    BY <2>2, PositionTypes DEF AtMost
  <2>4. AtMost(cursor, cur')
    BY <2>2, <2>3, AtMostIsTransitive, PositionTypes DEF PlaceInv
  <2>5. OnFrameBoundary(cur')
    BY <2>2 DEF OnFrameBoundary
  <2>6. cur'.segment_id <= head.segment_id
    BY <2>1, <2>2, PositionTypes
  <2>7. QED
    BY <1>1, <2>1, <2>3, <2>4, <2>5, <2>6, PositionTypes DEF PlaceInv
<1>6. CASE PassedBy
  <2>1. PICK e \in log : StartsAtCur(e) /\ cur' = OffsetAfter(e)
    BY <1>6 DEF PassedBy, SkipRecord
  <2>2. /\ e.segment_id = cur.segment_id /\ e.start = cur.byte_offset
        /\ cur.segment_id \in DOMAIN files /\ UNCHANGED cursor /\ ~AtActiveTail
    BY <1>6, <2>1 DEF PassedBy, SkipRecord, StartsAtCur, Offset, SegmentExists, commitVars,
       PlaceInv
  <2>3. CASE cur.segment_id < head.segment_id
    <3>1. e.segment_id < current_segment_id
      BY <2>2, <2>3, PlaceOrder, PositionTypes
    <3>2. Readable(e)
      BY <2>2, <3>1 DEF LogSideInv, LogInv, Readable
    <3>3. QED
      BY <1>3, <2>1, <2>2, <3>2
  <2>4. CASE cur.segment_id = head.segment_id /\ cur.byte_offset < head.byte_offset
    <3>1. Readable(e)
      BY <2>2, <2>4, NothingStraddles, PositionTypes DEF LogSideInv, PlaceInv
    <3>2. QED
      BY <1>3, <2>1, <2>2, <3>1
  <2>5. QED
    BY <2>2, <2>3, <2>4, PlaceOrder, PositionTypes DEF AtActiveTail, WalOffset
<1>7. CASE CursorWritten
  <2>1. cursor' = Highest /\ UNCHANGED cur /\ batch # <<>>
    BY <1>7 DEF CursorWritten, WriteCursor, TaskInv, nextVars
  <2>2. /\ batch[Len(batch)] \in log /\ Readable(batch[Len(batch)])
        /\ AtMost(cursor, Highest) /\ AtMost(Highest, cur)
    BY <2>1 DEF BatchInv
  <2>3. OnFrameBoundary(Highest) /\ Highest.segment_id \in DOMAIN files
    BY <2>2, OffsetAfterType, PositionTypes DEF OnFrameBoundary, Highest, Readable
  <2>4. QED
    BY <1>1, <2>1, <2>2, <2>3, PositionTypes DEF PlaceInv
<1>8. CASE Still \/ Deleted \/ FlushDone
  BY <1>2, <1>8 DEF Still, Deleted, DeleteSegment, FlushDone, nextVars, commitVars
<1>9. QED
  BY <1>4, <1>5, <1>6, <1>7, <1>8, ReadCases

(* A file is open where a read has found it.                               *)
LEMMA ReaderOpens ==
  ASSUME ReadStep, reader_open'
  PROVE  \/ reader_open /\ cur'.segment_id = cur.segment_id
         \/ cur'.segment_id \in DOMAIN files
<1> DEFINE Goal == \/ reader_open /\ cur'.segment_id = cur.segment_id
                   \/ cur'.segment_id \in DOMAIN files
<1>1. CASE UNCHANGED <<cur, reader_open>>
  BY <1>1
<1>2. CASE NextPending
  <2>1. CASE ReadEof
    BY <2>1 DEF ReadEof, SegmentExists
  <2>2. CASE ReadCorrupt \/ ReadFails
    BY <2>2 DEF ReadCorrupt, ReadFails, CloseReader
  <2>3. CASE OpenFails \/ Register \/ CheckClosed \/ Woken \/ CorruptRecord \/ SkipUnreadable
    BY <1>1, <2>3 DEF OpenFails, Register, CheckClosed, Woken, ReadAgain, CorruptRecord,
       SkipUnreadable, nextVars
  <2>4. CASE CheckHead \/ FinalHead
    BY <1>1, <2>4 DEF CheckHead, FinalHead, Advance, CloseReader, ReadAgain, nextVars
  <2>5. CASE SkipRecord
    <3>1. PICK e \in log : StartsAtCur(e) /\ cur' = OffsetAfter(e)
      BY <2>5 DEF SkipRecord
    <3>2. cur'.segment_id = cur.segment_id /\ cur.segment_id \in DOMAIN files
      BY <2>5, <3>1 DEF SkipRecord, StartsAtCur, Offset, OffsetAfter, SegmentExists
    <3>3. QED
      BY <3>2
  <2>6. QED
    BY <1>2, <2>1, <2>2, <2>3, <2>4, <2>5 DEF NextPending, NextStep
<1>3. CASE TakeEntry
  <2>1. PICK e \in log : Readable(e) /\ cur' = OffsetAfter(e)
    BY <1>3 DEF TakeEntry, ReadRecord
  <2>2. cur'.segment_id = e.segment_id
    BY <2>1 DEF OffsetAfter, Offset
  <2>3. QED
    BY <2>1, <2>2 DEF Readable
<1>4. CASE Tick
  BY <1>1, <1>4 DEF Tick, CancelNext, CloseReader
<1>5. CASE PollNext \/ TakeNone \/ SinkAccepts \/ SinkFails \/ Commit \/ FlushDone
  BY <1>1, <1>5 DEF PollNext, TakeNone, NextNone, SinkAccepts, SinkFails, Commit,
     WriteCursor, CommitStep, CommitFails, ListSegments, DeleteSegment, GcDone, FlushDone,
     nextVars
<1>6. QED
  BY <1>2, <1>3, <1>4, <1>5, ReadFrame DEF ForwarderTask

(* commit reclaims below its cursor; next skips behind the active tail.    *)
LEMMA ReadTargets ==
  ASSUME ReadStep
  PROVE  /\ \A s \in gc_todo' : s \in gc_todo \/ (s < cursor.segment_id /\ UNCHANGED cursor)
         /\ rpc' = "skip" => UNCHANGED cur /\ (rpc = "skip" \/ ~AtActiveTail)
<1>1. CASE NextPending
  <2>1. UNCHANGED gc_todo
    BY <1>1 DEF NextPending, NextStep, ReadEof, ReadCorrupt, ReadFails, OpenFails, Register,
       CheckHead, CheckClosed, FinalHead, Woken, CorruptRecord, SkipRecord,
       SkipUnreadable, commitVars
  <2>2. rpc' = "skip" => UNCHANGED cur /\ ~AtActiveTail
    BY <1>1 DEF NextPending, NextStep, ReadEof, ReadCorrupt, ReadFails, OpenFails, Register,
       CheckHead, CheckClosed, FinalHead, Woken, CorruptRecord, SkipRecord,
       SkipUnreadable, Advance, ReadAgain, nextVars
  <2>3. QED
    BY <2>1, <2>2
<1>2. CASE TakeEntry
  BY <1>2 DEF TakeEntry, ReadRecord, commitVars
<1>3. CASE Commit
  BY <1>3 DEF Commit, WriteCursor, CommitStep, CommitFails, ListSegments, DeleteSegment,
     GcDone, nextVars, commitVars
<1>4. CASE PollNext \/ Tick \/ TakeNone \/ SinkAccepts \/ SinkFails \/ FlushDone
  BY <1>4 DEF PollNext, Tick, CancelNext, TakeNone, NextNone, SinkAccepts, SinkFails,
     FlushDone, nextVars, commitVars
<1>5. QED
  BY <1>1, <1>2, <1>3, <1>4, ReadFrame DEF ForwarderTask

LEMMA ReadKeepsPlaces ==
  ASSUME SystemTypeOK, LogSideInv, TaskInv, PlaceInv, BatchInv, ReadStep, SystemTypeOK'
  PROVE  PlaceInv'
<1>1. UNCHANGED <<log, head>>
  BY ReadFrame
<1>2. ASSUME NEW s \in DOMAIN files, cursor.segment_id <= s
      PROVE  s \in DOMAIN files'
  BY <1>2, FilesAfterRead, PositionTypes
<1>3. /\ cursor'.segment_id \in Nat /\ cur'.segment_id \in Nat
      /\ cursor' \in WalOffset /\ cur' \in WalOffset
      /\ cursor.segment_id <= cursor'.segment_id /\ cur.segment_id <= cur'.segment_id
      /\ cursor.segment_id <= cur'.segment_id
  <2>1. cursor' \in WalOffset /\ cur' \in WalOffset
    BY DEF SystemTypeOK, ForwarderTypeOK, SubTypeOK
  <2>2. cursor'.segment_id \in Nat /\ cur'.segment_id \in Nat
    BY <2>1 DEF WalOffset
  <2>3. cursor.segment_id <= cursor'.segment_id /\ cur.segment_id <= cur'.segment_id
    BY <2>2, ReadMoves, PositionTypes DEF AtMost
  <2>4. QED
    BY <2>1, <2>2, <2>3, PlaceOrder, PositionTypes
<1>4. ASSUME NEW o \in WalOffset, OnFrameBoundary(o), cursor.segment_id <= o.segment_id
      PROVE  o.byte_offset = 0 \/ \E e \in log : OffsetAfter(e) = o /\ Readable(e)'
  <2>1. CASE o.byte_offset # 0
    <3>1. PICK e \in log : OffsetAfter(e) = o /\ Readable(e)
      BY <1>4, <2>1 DEF OnFrameBoundary
    <3>2. e.segment_id = o.segment_id
      BY <3>1, OffsetAfterType, PositionTypes
    <3>3. QED
      BY <1>4, <3>1, <3>2, ReadKeepsReadable
  <2>2. QED
    BY <2>1
<1>5. OnFrameBoundary(cursor)' /\ OnFrameBoundary(cur)'
  BY <1>1, <1>3, <1>4, ReadMoves DEF OnFrameBoundary
<1>6. OnFrameBoundary(head)'
  BY <1>1, <1>4, PlaceOrder, PositionTypes DEF OnFrameBoundary, PlaceInv
<1>7. AtMost(cursor, cur)' /\ (cur.segment_id <= head.segment_id)'
  BY <1>1, ReadMoves DEF AtMost
<1>8. (cursor = NoCursor \/ cursor.segment_id \in DOMAIN files)'
  BY <1>2, <1>3, ReadMoves DEF NoCursor
<1>9. (cur.segment_id # 0)' /\ (0 \notin DOMAIN files)'
  BY <1>3, FilesAfterRead, PositionTypes DEF PlaceInv
<1>10. (head.segment_id \in DOMAIN files)'
  BY <1>1, <1>2, PlaceOrder DEF PlaceInv
<1>11. (reader_open => cur.segment_id \in DOMAIN files)'
  <2>1. reader_open' => cur'.segment_id \in DOMAIN files
    BY ReaderOpens DEF PlaceInv
  <2>2. QED
    BY <1>2, <1>3, <2>1
<1>12. \A s \in gc_todo' : s < cursor'.segment_id
  <2>1. ASSUME NEW s \in gc_todo'
        PROVE  s < cursor.segment_id /\ s \in Nat
    BY ReadTargets DEF PlaceInv, SystemTypeOK, ForwarderTypeOK, SubTypeOK
  <2>2. QED
    BY <1>3, <2>1, PositionTypes
<1>13. \A e \in log' : e.segment_id \in DOMAIN files' \/ e.segment_id < cursor'.segment_id
  <2>1. ASSUME NEW e \in log
        PROVE  e.segment_id \in DOMAIN files' \/ e.segment_id < cursor.segment_id
    BY FilesAfterRead DEF PlaceInv
  <2>2. \A e \in log : e.segment_id \in Nat
    BY PositionTypes DEF WalEntry
  <2>3. QED
    BY <1>1, <1>3, <2>1, <2>2, PositionTypes
<1>14. (rpc = "skip" => ~AtActiveTail)'
  BY <1>1, ReadTargets DEF PlaceInv, AtActiveTail
<1>15. QED
  BY <1>5, <1>6, <1>7, <1>8, <1>9, <1>10, <1>11, <1>12, <1>13, <1>14 DEF PlaceInv

LEMMA ReadKeepsBatch ==
  ASSUME SystemTypeOK, LogSideInv, TaskInv, PlaceInv, BatchInv, ReadStep, SystemTypeOK'
  PROVE  BatchInv'
<1> SUFFICES ASSUME batch' # <<>>
             PROVE  /\ (batch[Len(batch)] \in log)' /\ Readable(batch[Len(batch)])'
                    /\ AtMost(cursor, Highest)' /\ AtMost(Highest, cur)'
  BY DEF BatchInv
<1>1. /\ cursor' \in WalOffset /\ cur' \in WalOffset
      /\ batch \in Seq(WalEntry)
  BY DEF SystemTypeOK, ForwarderTypeOK, SubTypeOK
<1>2. CASE UNCHANGED batch
  <2>1. Highest' = Highest /\ batch[Len(batch)] \in log /\ Readable(batch[Len(batch)])
        /\ AtMost(cursor, Highest) /\ AtMost(Highest, cur)
    BY <1>2 DEF Highest, BatchInv
  <2>2. /\ Highest \in WalOffset
        /\ Highest.segment_id = batch[Len(batch)].segment_id
    BY <2>1, OffsetAfterType, PositionTypes DEF Highest
  <2>3. cursor.segment_id <= batch[Len(batch)].segment_id
    BY <2>1, <2>2, PositionTypes DEF AtMost, WalOffset
  <2>4. Readable(batch[Len(batch)])'
    <3>1. ASSUME NEW e \in log, e = batch[Len(batch)] PROVE Readable(e)'
      BY <2>1, <2>3, <3>1, ReadKeepsReadable
    <3>2. QED
      BY <1>2, <2>1, <3>1 DEF Readable
  <2>5. AtMost(Highest, cur')
    BY <1>1, <2>1, <2>2, ReadMoves, AtMostIsTransitive, PositionTypes
  <2>6. AtMost(cursor', Highest)
    <3>1. CASE UNCHANGED cursor
      BY <2>1, <3>1
    <3>2. CASE CursorWritten
      BY <2>2, <3>2 DEF CursorWritten, WriteCursor, AtMost, WalOffset
    <3>3. QED
      BY <3>1, <3>2, ReadCases DEF Still, Taken, ReadRecord, Advanced, PassedBy,
         SkipRecord, Deleted, DeleteSegment, FlushDone, commitVars
  <2>7. QED
    BY <1>2, <2>1, <2>4, <2>5, <2>6, ReadFrame DEF AtMost
<1>3. CASE Taken
  <2>1. PICK e \in log : ReadRecord(e) /\ batch' = Append(batch, e)
    BY <1>3 DEF Taken
  <2>2. batch'[Len(batch')] = e
    BY <1>1, <2>1, PositionTypes
  <2>3. Readable(e) /\ cur' = OffsetAfter(e) /\ UNCHANGED <<files, cursor>>
    BY <2>1 DEF ReadRecord, commitVars
  <2>4. Highest' = cur'
    BY <2>2, <2>3 DEF Highest, OffsetAfter
  <2>5. Readable(batch[Len(batch)])'
    BY <2>2, <2>3 DEF Readable
  <2>6. QED
    BY <1>1, <2>2, <2>3, <2>4, <2>5, ReadFrame, ReadMoves DEF AtMost, WalOffset
<1>4. CASE FlushDone
  BY <1>4 DEF FlushDone
<1>5. QED
  BY <1>2, <1>3, <1>4, ReadCases DEF Still, Advanced, PassedBy, CursorWritten, Deleted

(* What starts at the reading position or after it is not committed.       *)
LEMMA AheadIsFresh ==
  ASSUME SystemTypeOK, LogSideInv, PlaceInv,
         NEW e \in log, e.segment_id = cur.segment_id, e.start >= cur.byte_offset
  PROVE  ~Below(e, cursor)
<1>1. /\ e.segment_id \in Nat /\ e.start \in Nat /\ e.end \in Nat /\ e.start < e.end
      /\ cur.byte_offset \in Nat /\ cursor.byte_offset \in Nat
  BY PositionTypes DEF LogSideInv, LogInv, WalEntry, WalOffset
<1>2. AtMost(cursor, cur)
  BY DEF PlaceInv
<1>3. QED
  BY <1>1, <1>2, PositionTypes DEF AtMost, Below

LEMMA ReadKeepsFresh ==
  ASSUME SystemTypeOK, LogSideInv, TaskInv, PlaceInv, FreshInv, ReadStep
  PROVE  FreshInv'
<1>1. UNCHANGED log
  BY ReadFrame
<1>2. CASE UNCHANGED <<batch, cursor, files>> /\ (fpc' = fpc \/ fpc = "select")
  <2>1. fpc' \in {"select", "sink"} => fpc \in {"select", "sink"}
    BY <1>2
  <2>2. QED
    BY <1>1, <1>2, <2>1 DEF FreshInv, Readable, Below
<1>3. CASE fpc' \notin {"select", "sink"}
  BY <1>3 DEF FreshInv
<1>4. CASE Taken
  <2>1. PICK e \in log : ReadRecord(e) /\ batch' = Append(batch, e)
    BY <1>4 DEF Taken
  <2>2. /\ Readable(e) /\ UNCHANGED <<files, cursor>>
        /\ e.segment_id = cur.segment_id /\ e.start = cur.byte_offset
    BY <2>1 DEF ReadRecord, commitVars, StartsAtCur, Offset
  <2>3. ~Below(e, cursor)
    <3>1. e.start >= cur.byte_offset
      BY <2>2, PositionTypes DEF WalEntry
    <3>2. QED
      BY <2>2, <3>1, AheadIsFresh
  <2>4. \A i \in DOMAIN batch : batch[i] \in log /\ Readable(batch[i]) /\ ~Below(batch[i], cursor)
    BY <1>4 DEF FreshInv, Taken
  <2>5. ASSUME NEW i \in DOMAIN batch'
        PROVE  (i \in DOMAIN batch /\ batch'[i] = batch[i]) \/ batch'[i] = e
    <3>1. batch \in Seq(WalEntry) /\ e \in WalEntry
      BY PositionTypes DEF SystemTypeOK, ForwarderTypeOK
    <3>2. QED
      BY <2>1, <3>1
  <2>6. ASSUME NEW i \in DOMAIN batch'
        PROVE  batch'[i] \in log /\ Readable(batch'[i]) /\ ~Below(batch'[i], cursor)
    BY <2>2, <2>3, <2>4, <2>5
  <2>7. QED
    BY <1>1, <2>2, <2>6 DEF FreshInv, Readable, Below
<1>5. CASE FlushDone
  BY <1>5 DEF FlushDone, FreshInv
<1>6. CASE Commit
  BY <1>3, <1>6 DEF Commit, forwarderVars
<1>7. CASE PollNext \/ Tick \/ TakeNone \/ SinkAccepts \/ SinkFails
  BY <1>2, <1>3, <1>7 DEF PollNext, Tick, CancelNext, TakeNone, NextNone, SinkAccepts,
     SinkFails, nextVars, commitVars, forwarderVars
<1>8. CASE NextPending
  BY <1>2, <1>8 DEF NextPending, NextStep, ReadEof, ReadCorrupt, ReadFails, OpenFails,
     Register, CheckHead, CheckClosed, FinalHead, Woken, CorruptRecord, SkipRecord,
     SkipUnreadable, commitVars, forwarderVars
<1>9. CASE TakeEntry
  BY <1>4, <1>9 DEF TakeEntry, Taken
<1>10. QED
  BY <1>5, <1>6, <1>7, <1>8, <1>9, ReadFrame DEF ForwarderTask

(* What next passes when it moves over a frame, or to the next segment.    *)
LEMMA PassedFrame ==
  ASSUME SystemTypeOK, LogSideInv,
         NEW e \in log, StartsAtCur(e), NEW d \in log, Below(d, OffsetAfter(e))
  PROVE  d = e \/ Below(d, cur)
<1>1. /\ OffsetAfter(e).segment_id = e.segment_id /\ OffsetAfter(e).byte_offset = e.end
      /\ e.segment_id = cur.segment_id /\ e.start = cur.byte_offset
      /\ e \in WalEntry /\ d \in WalEntry
  BY OffsetAfterType, PositionTypes DEF StartsAtCur, Offset
<1>2. CASE d.segment_id < e.segment_id
  BY <1>1, <1>2 DEF Below
<1>3. CASE d.segment_id = e.segment_id /\ d.end <= e.end
  <2>1. d = e \/ d.end <= e.start \/ e.end <= d.start
    BY <1>3 DEF LogSideInv, FramesTile
  <2>2. d.start < d.end
    BY DEF LogSideInv, LogInv
  <2>3. QED
    BY <1>1, <1>3, <2>1, <2>2 DEF Below, WalEntry
<1>4. QED
  BY <1>1, <1>2, <1>3 DEF Below

LEMMA PassedSegment ==
  ASSUME SystemTypeOK, LogSideInv, PlaceInv,
         NEW d \in log, Below(d, Offset(cur.segment_id + 1, 0))
  PROVE  d \in Unread \/ Below(d, cur)
<1>1. /\ d.segment_id \in Nat /\ d.start \in Nat /\ d.end \in Nat /\ d.start < d.end
      /\ cur.segment_id \in Nat /\ cur.byte_offset \in Nat
  BY PositionTypes DEF LogSideInv, LogInv, WalEntry, WalOffset
<1>2. d.segment_id <= cur.segment_id
  BY <1>1 DEF Below, Offset
<1>3. CASE d.segment_id = cur.segment_id /\ d.start < cur.byte_offset
  BY <1>3, NothingStraddles, PositionTypes DEF LogSideInv, PlaceInv, Below
<1>4. QED
  BY <1>1, <1>2, <1>3 DEF Unread, Below

LEMMA ReadKeepsCover ==
  ASSUME SystemTypeOK, LogSideInv, TaskInv, PlaceInv, BatchInv, CoverInv, ReadStep
  PROVE  CoverInv'
<1>1. UNCHANGED <<log, up>> /\ up = "running"
  BY ReadFrame
<1>2. \A e \in log : Below(e, cur) => e.event \in sunk \cup skipped \cup BatchEvents
  BY <1>1 DEF CoverInv
<1>3. batch \in Seq(WalEntry)
  BY DEF SystemTypeOK, ForwarderTypeOK
<1>4. CASE Still
  BY <1>1, <1>2, <1>4 DEF Still, CoverInv, CursorIsCovered, BatchEvents, Below
<1>5. CASE Taken
  <2>1. PICK e \in log : ReadRecord(e) /\ batch' = Append(batch, e)
    BY <1>5 DEF Taken
  <2>2. /\ UNCHANGED <<cursor, skipped, sunk>>
        /\ StartsAtCur(e) /\ cur' = OffsetAfter(e)
    BY <1>5, <2>1 DEF Taken, ReadRecord, commitVars
  <2>3. BatchEvents \subseteq BatchEvents' /\ e.event \in BatchEvents'
    <3>1. /\ \A i \in DOMAIN batch : i \in DOMAIN batch' /\ batch'[i] = batch[i]
          /\ Len(batch') \in DOMAIN batch' /\ batch'[Len(batch')] = e
      BY <1>3, <2>1, PositionTypes
    <3>2. QED
      BY <3>1 DEF BatchEvents
  <2>4. ASSUME NEW d \in log, Below(d, cur')
        PROVE  d.event \in sunk' \cup skipped' \cup BatchEvents'
    BY <1>2, <2>2, <2>3, <2>4, PassedFrame
  <2>5. QED
    BY <1>1, <2>2, <2>4 DEF CoverInv, CursorIsCovered, Below
<1>6. CASE Advanced
  <2>1. /\ cur' = Offset(cur.segment_id + 1, 0)
        /\ skipped' = skipped \cup {e.event : e \in Unread}
        /\ UNCHANGED <<cursor, batch, sunk>>
    BY <1>6 DEF Advanced, Advance
  <2>2. ASSUME NEW d \in log, Below(d, cur')
        PROVE  d.event \in sunk' \cup skipped' \cup BatchEvents
    BY <1>2, <2>1, <2>2, PassedSegment
  <2>3. BatchEvents' = BatchEvents
    BY <2>1 DEF BatchEvents
  <2>4. QED
    BY <1>1, <2>1, <2>2, <2>3 DEF CoverInv, CursorIsCovered, Below
<1>7. CASE PassedBy
  <2>1. PICK e \in log : /\ StartsAtCur(e) /\ cur' = OffsetAfter(e)
                         /\ skipped' = skipped \cup {e.event}
    BY <1>7 DEF PassedBy, SkipRecord
  <2>2. UNCHANGED <<cursor, batch, sunk>>
    BY <1>7 DEF PassedBy, SkipRecord, commitVars
  <2>3. ASSUME NEW d \in log, Below(d, cur')
        PROVE  d.event \in sunk' \cup skipped' \cup BatchEvents
    BY <1>2, <2>1, <2>2, <2>3, PassedFrame
  <2>4. BatchEvents' = BatchEvents
    BY <2>2 DEF BatchEvents
  <2>5. QED
    BY <1>1, <2>1, <2>2, <2>3, <2>4 DEF CoverInv, CursorIsCovered, Below
<1>8. CASE CursorWritten
  <2>1. /\ cursor' = Highest /\ UNCHANGED <<cur, skipped, batch, sunk>>
        /\ batch # <<>> /\ BatchEvents \subseteq sunk
    BY <1>8 DEF CursorWritten, WriteCursor, TaskInv, nextVars
  <2>2. Highest \in WalOffset /\ AtMost(Highest, cur)
    BY <2>1, OffsetAfterType, PositionTypes DEF BatchInv, Highest
  <2>3. ASSUME NEW d \in log, Below(d, cursor')
        PROVE  d.event \in sunk' \cup skipped'
    <3>1. Below(d, cur)
      BY <2>1, <2>2, <2>3, BelowIsMonotonic, PositionTypes
    <3>2. QED
      BY <1>2, <2>1, <3>1
  <2>4. QED
    BY <1>1, <1>2, <2>1, <2>3 DEF CoverInv, CursorIsCovered, BatchEvents, Below
<1>9. CASE Deleted
  BY <1>1, <1>2, <1>9
     DEF Deleted, DeleteSegment, nextVars, CoverInv, CursorIsCovered, BatchEvents, Below
<1>10. CASE FlushDone
  <2>1. BatchEvents \subseteq sunk /\ UNCHANGED <<cur, cursor, skipped, sunk>>
    BY <1>10 DEF FlushDone, TaskInv, nextVars, commitVars
  <2>2. QED
    BY <1>1, <1>2, <2>1 DEF CoverInv, CursorIsCovered, Below
<1>11. QED
  BY <1>4, <1>5, <1>6, <1>7, <1>8, <1>9, <1>10, ReadCases

LEMMA ReadKeepsAcked ==
  ASSUME SystemTypeOK, LogSideInv, TaskInv, PlaceInv, BatchInv, AckedSurvives, ReadStep,
         SystemTypeOK'
  PROVE  AckedSurvives'
<1>1. UNCHANGED <<log, result>>
  BY ReadFrame
<1>2. AtMost(cursor, cursor') /\ cursor' \in WalOffset
  BY ReadMoves, PositionTypes DEF SystemTypeOK, ForwarderTypeOK, SubTypeOK
<1>3. ASSUME NEW e \in log, Readable(e) \/ Below(e, cursor)
      PROVE  Readable(e)' \/ Below(e, cursor')
  <2>1. CASE Below(e, cursor)
    BY <1>2, <2>1, BelowIsMonotonic, PositionTypes
  <2>2. CASE Readable(e) /\ cursor.segment_id <= e.segment_id
    BY <2>2, ReadKeepsReadable
  <2>3. CASE e.segment_id < cursor.segment_id
    BY <2>1, <2>3 DEF Below
  <2>4. QED
    BY <1>3, <2>1, <2>2, <2>3, PositionTypes DEF WalEntry
<1>4. QED
  BY <1>1, <1>3 DEF AckedSurvives, Below

-----------------------------------------------------------------------------
(* A stop. *)
LEMMA StopKeepsTypes ==
  ASSUME SystemTypeOK, Stop
  PROVE  SystemTypeOK'
<1> USE DEF Stop, SystemTypeOK
<1>1. SharedTypeOK'
  BY DEF WriterTypeOK, SharedTypeOK, WaiterState
<1>2. result' \in [Events -> Result]
  BY DEF WriterTypeOK, Result
<1>3. queue' \in Seq(Events) /\ Len(queue') <= QueueCapacity
  BY SizesAssumption
<1>4. senders' \in BOOLEAN /\ dirty' \in BOOLEAN
  OBVIOUS
<1>5. WriterTypeOK'
  BY <1>1, <1>2, <1>3, <1>4 DEF WriterTypeOK, QueueBounded, WriterPC, Phase
<1>6. reader_open' \in BOOLEAN /\ closing' \in BOOLEAN
  BY DEF CloseReader
<1>7. batch' \in Seq(WalEntry) /\ Len(batch') <= BatchSize
  BY BatchSizeAssumption
<1>8. ForwarderTypeOK'
  BY <1>6, <1>7 DEF ForwarderTypeOK, SubTypeOK, RPC, CloseReader
<1>9. up' = "stopped" /\ stops' \in Nat
  BY DEF Stop
<1>10. QED
  BY <1>5, <1>8, <1>9

LEMMA StopKeepsReadable ==
  ASSUME Stop, NEW e \in log, Readable(e)
  PROVE  e \in log' /\ Readable(e)'
BY DEF Stop, Readable

LEMMA StopKeepsLogSide ==
  ASSUME SystemTypeOK, LogSideInv, Stop, SystemTypeOK'
  PROVE  LogSideInv'
<1>1. /\ wpc' = "gone" /\ phase' = "periodic" /\ req' = NoEvent /\ pending_acks' = {}
      /\ log' \subseteq log
      /\ UNCHANGED <<files, head, current_segment_id, current_byte_offset>>
  BY DEF Stop
<1>2. RequestInv' /\ PendingInv' /\ TailInv'
  BY <1>1 DEF RequestInv, HasRequest, AcksResolved, PendingInv, TailInv
<1>3. FileInv' /\ HeadInv'
  BY <1>1 DEF LogSideInv, FileInv, HeadInv
<1>4. LogInv'
  BY <1>1 DEF LogSideInv, LogInv
<1>5. FramesTile'
  <2>1. ASSUME NEW e \in log', e.start # 0
        PROVE  \E d \in log' : OffsetAfter(d) = Offset(e.segment_id, e.start)
    <3>1. e \in log /\ e.start < e.end /\ e \in WalEntry
      BY <1>1, PositionTypes DEF LogSideInv, LogInv
    <3>2. PICK d \in log : OffsetAfter(d) = Offset(e.segment_id, e.start)
      BY <2>1, <3>1 DEF LogSideInv, FramesTile
    <3>3. d.segment_id = e.segment_id /\ d.end = e.start /\ d \in WalEntry
      BY <3>2, OffsetAfterType, PositionTypes DEF Offset
    <3>4. e.segment_id \in DOMAIN files => Readable(e)
      BY <2>1 DEF Stop
    <3>5. d.segment_id \in DOMAIN files => Readable(d)
      BY <3>1, <3>3, <3>4, PositionTypes DEF Readable, WalEntry
    <3>6. QED
      BY <3>2, <3>5 DEF Stop
  <2>2. QED
    BY <1>1, <2>1 DEF LogSideInv, FramesTile
<1>6. QED
  BY <1>2, <1>3, <1>4, <1>5 DEF LogSideInv, SystemTypeOK

LEMMA StopKeepsPlaces ==
  ASSUME PlaceInv, Stop
  PROVE  PlaceInv'
<1>1. /\ log' \subseteq log /\ rpc' = "idle" /\ reader_open' = FALSE /\ gc_todo' = {}
      /\ UNCHANGED <<files, head, cur, cursor>>
  BY DEF Stop, CloseReader
<1>2. ASSUME NEW o, OnFrameBoundary(o)
      PROVE  o.byte_offset = 0 \/ \E e \in log' : OffsetAfter(e) = o /\ Readable(e)'
  BY <1>2, StopKeepsReadable DEF OnFrameBoundary
<1>3. (OnFrameBoundary(cursor) /\ OnFrameBoundary(cur) /\ OnFrameBoundary(head))'
  BY <1>1, <1>2 DEF PlaceInv, OnFrameBoundary
<1>4. QED
  BY <1>1, <1>3 DEF PlaceInv, AtMost

LEMMA StopKeepsTheRest ==
  ASSUME SystemTypeOK, LogSideInv, PlaceInv, CoverInv, AckedSurvives, Stop
  PROVE  TaskInv' /\ BatchInv' /\ FreshInv' /\ CoverInv' /\ AckedSurvives' /\ StopInv'
<1>1. /\ log' \subseteq log /\ UNCHANGED <<files, cursor, skipped, sunk>>
      /\ fpc' = "exit" /\ rpc' = "idle" /\ batch' = <<>> /\ up' = "stopped" /\ wpc' = "gone"
  BY DEF Stop
<1>2. TaskInv' /\ BatchInv' /\ FreshInv'
  BY <1>1 DEF TaskInv, BatchInv, FreshInv
<1>3. CoverInv'
  BY <1>1 DEF CoverInv, CursorIsCovered, Below
<1>4. AckedSurvives'
  <2>1. ASSUME NEW m \in Events, result'[m] = "ok"
        PROVE  result[m] = "ok"
    BY <2>1 DEF Stop
  <2>2. ASSUME NEW e \in log, Readable(e) \/ Below(e, cursor)
        PROVE  e \in log'
    <3>1. e.segment_id \in DOMAIN files => Readable(e)
      BY <2>2, PassedIsReadable, PlaceOrder, PositionTypes
         DEF SystemTypeOK, LogSideInv, PlaceInv
    <3>2. QED
      BY <3>1 DEF Stop
  <2>3. QED
    BY <1>1, <2>1, <2>2 DEF AckedSurvives, Below, Readable
<1>5. StopInv'
  BY <1>1 DEF StopInv, Stop, CloseReader, Readable
<1>6. QED
  BY <1>2, <1>3, <1>4, <1>5

-----------------------------------------------------------------------------
(* The start: least and greatest of the segments, last of the frames.      *)
LEMMA LeastExists ==
  ASSUME NEW S, S \subseteq Nat, S # {}
  PROVE  \E x \in S : \A y \in S : x <= y
<1> DEFINE R == OpToRel(<, Nat)
<1>1. PICK x \in S : \A y \in S : ~(<<y, x>> \in R)
  <2> HIDE DEF R
  <2> QED
    BY NatLessThanWellFounded, WFMin DEF R
<1>2. ASSUME NEW y \in S PROVE x <= y
  <2>1. x \in Nat /\ y \in Nat
    OBVIOUS
  <2>2. ~(y < x)
    BY <1>1, <2>1 DEF OpToRel
  <2>3. QED
    BY <2>1, <2>2
<1>3. QED
  BY <1>2

LEMMA GreatestExists ==
  ASSUME NEW S, S \subseteq Nat, S # {}, NEW n \in Nat, \A x \in S : x <= n
  PROVE  \E x \in S : \A y \in S : x >= y
<1> DEFINE T == {n - x : x \in S}
<1>1. T \subseteq Nat /\ T # {}
  <2>1. \A x \in S : n - x \in Nat
    OBVIOUS
  <2>2. QED
    BY <2>1
<1>2. PICK t \in T : \A u \in T : t <= u
  <2> HIDE DEF T
  <2> QED
    BY <1>1, LeastExists
<1>3. PICK x \in S : t = n - x
  OBVIOUS
<1>4. ASSUME NEW y \in S PROVE x >= y
  <2>1. n - x <= n - y
    BY <1>2, <1>3
  <2>2. x \in Nat /\ y \in Nat
    OBVIOUS
  <2>3. QED
    BY <2>1, <2>2
<1>5. QED
  BY <1>4

LEMMA OpenFacts ==
  ASSUME SystemTypeOK, LogSideInv, PlaceInv, StopInv, up = "stopped"
  PROVE  /\ FirstSegment \in DOMAIN files /\ \A s \in DOMAIN files : FirstSegment <= s
         /\ ActiveSegment \in DOMAIN files /\ \A s \in DOMAIN files : ActiveSegment >= s
         /\ LastValidOffset(ActiveSegment) \in Nat
         /\ LastValidOffset(ActiveSegment) <= files[ActiveSegment]
         /\ OnFrameBoundary(Offset(ActiveSegment, LastValidOffset(ActiveSegment)))
         /\ \A e \in log : e.segment_id = ActiveSegment =>
              e.end <= LastValidOffset(ActiveSegment)
<1>1. DOMAIN files \subseteq Nat /\ DOMAIN files # {}
  BY PositionTypes DEF PlaceInv
<1>2. FirstSegment \in DOMAIN files /\ \A s \in DOMAIN files : FirstSegment <= s
  BY <1>1, LeastExists DEF FirstSegment
<1>3. ActiveSegment \in DOMAIN files /\ \A s \in DOMAIN files : ActiveSegment >= s
  <2>1. \A s \in DOMAIN files : s <= current_segment_id
    BY DEF LogSideInv, FileInv
  <2>2. \E s \in DOMAIN files : \A t \in DOMAIN files : s >= t
    BY <1>1, <2>1, GreatestExists, PositionTypes
  <2>3. QED
    BY <2>2 DEF ActiveSegment
<1> DEFINE a == ActiveSegment
           F == FrameEnds(a)
<1>4. /\ files[a] \in Nat
      /\ \A n \in F : n \in Nat /\ n <= files[a]
      /\ 0 \in F
  BY <1>3, PositionTypes DEF FrameEnds, Readable, WalEntry
<1>5. LastValidOffset(a) \in F /\ \A n \in F : LastValidOffset(a) >= n
  <2>1. \E n \in F : \A k \in F : n >= k
    <3> HIDE DEF F
    <3> QED
      BY <1>4, GreatestExists
  <2>2. QED
    BY <2>1 DEF LastValidOffset
<1>6. LastValidOffset(a) \in Nat /\ LastValidOffset(a) <= files[a]
  BY <1>4, <1>5
<1>7. \A e \in log : e.segment_id = a => e.end \in F
  BY <1>3 DEF StopInv, FrameEnds
<1>8. OnFrameBoundary(Offset(a, LastValidOffset(a)))
  <2>1. CASE LastValidOffset(a) = 0
    BY <2>1 DEF OnFrameBoundary, Offset
  <2>2. CASE LastValidOffset(a) # 0
    <3>1. PICK e \in log : e.segment_id = a /\ Readable(e) /\ e.end = LastValidOffset(a)
      BY <1>5, <2>2 DEF FrameEnds
    <3>2. OffsetAfter(e) = Offset(a, LastValidOffset(a))
      BY <3>1 DEF OffsetAfter
    <3>3. QED
      BY <3>1, <3>2 DEF OnFrameBoundary
  <2>3. QED
    BY <2>1, <2>2
<1>9. \A e \in log : e.segment_id = a => e.end <= LastValidOffset(a)
  BY <1>4, <1>5, <1>7
<1>10. QED
  BY <1>2, <1>3, <1>6, <1>8, <1>9

LEMMA OpenKeepsReadable ==
  ASSUME SystemTypeOK, LogSideInv, PlaceInv, StopInv, Open, NEW e \in log, Readable(e)
  PROVE  Readable(e)'
<1>1. files' = [files EXCEPT ![ActiveSegment] = LastValidOffset(ActiveSegment)]
  BY DEF Open
<1>2. e.segment_id \in DOMAIN files /\ e.end <= files[e.segment_id]
  BY DEF Readable
<1>3. e.segment_id = ActiveSegment => e.end <= LastValidOffset(ActiveSegment)
  BY OpenFacts DEF Open
<1>4. QED
  BY <1>1, <1>2, <1>3, PositionTypes DEF Readable

(* Where the log is read from: inside what is there, and covered.          *)
LEMMA ReadStartFacts ==
  ASSUME SystemTypeOK, LogSideInv, PlaceInv, StopInv, Open
  PROVE  /\ ReadStart \in WalOffset /\ ReadStart.segment_id # 0
         /\ OnFrameBoundary(ReadStart) /\ AtMost(cursor, ReadStart)
         /\ ReadStart.segment_id <= ActiveSegment
         /\ \A e \in log : Below(e, ReadStart) => Below(e, cursor)
<1>1. CASE cursor = NoCursor
  <2>1. /\ FirstSegment \in DOMAIN files /\ \A s \in DOMAIN files : FirstSegment <= s
        /\ ActiveSegment \in DOMAIN files
    BY OpenFacts DEF Open
  <2>2. FirstSegment \in Nat /\ FirstSegment # 0 /\ FirstSegment <= ActiveSegment
    BY <2>1, PositionTypes DEF PlaceInv
  <2>3. /\ ReadStart = Offset(FirstSegment, 0) /\ ReadStart \in WalOffset
        /\ ReadStart.segment_id = FirstSegment /\ ReadStart.byte_offset = 0
    BY <1>1, <2>2 DEF ReadStart, Offset, WalOffset
  <2>4. cursor.segment_id = 0 /\ cursor.byte_offset = 0
    BY <1>1 DEF NoCursor, Offset
  <2>5. ASSUME NEW e \in log, Below(e, ReadStart)
        PROVE  FALSE
    <3>1. /\ e.segment_id \in Nat /\ e.start \in Nat /\ e.end \in Nat /\ e.start < e.end
      BY PositionTypes DEF LogSideInv, LogInv, WalEntry
    <3>2. e.segment_id < FirstSegment
      BY <2>3, <2>5, <3>1 DEF Below
    <3>3. e.segment_id \in DOMAIN files
      BY <2>4, <3>1 DEF PlaceInv
    <3>4. QED
      BY <2>1, <2>2, <3>1, <3>2, <3>3
  <2>6. QED
    BY <2>2, <2>3, <2>4, <2>5 DEF OnFrameBoundary, AtMost
<1>2. CASE cursor # NoCursor
  <2>1. cursor.segment_id \in DOMAIN files /\ \A s \in DOMAIN files : ActiveSegment >= s
    BY <1>2, OpenFacts DEF PlaceInv, Open
  <2>2. cursor.segment_id # 0 /\ cursor.segment_id <= ActiveSegment
    BY <2>1, OpenFacts, PositionTypes DEF PlaceInv, Open
  <2>3. ReadStart = cursor
    BY <1>2 DEF ReadStart
  <2>4. QED
    BY <2>2, <2>3, PositionTypes DEF PlaceInv, AtMost, WalOffset
<1>3. QED
  BY <1>1, <1>2

LEMMA OpenKeepsTypes ==
  ASSUME SystemTypeOK, LogSideInv, PlaceInv, StopInv, Open
  PROVE  SystemTypeOK'
<1>1. /\ ActiveSegment \in Nat /\ LastValidOffset(ActiveSegment) \in Nat
      /\ ActiveSegment \in DOMAIN files
  BY OpenFacts, PositionTypes DEF Open
<1>2. files' \in [DOMAIN files' -> Nat] /\ DOMAIN files' \subseteq Nat
  BY <1>1, PositionTypes DEF Open
<1>3. head' \in WalOffset
  BY <1>1, OffsetType DEF Open
<1>4. SharedTypeOK'
  BY <1>2, <1>3 DEF SystemTypeOK, WriterTypeOK, SharedTypeOK, Open
<1>5. WriterTypeOK'
  BY <1>1, <1>4 DEF SystemTypeOK, WriterTypeOK, QueueBounded, WriterPC, Open
<1>6. ReadStart.segment_id - 1 \in Nat
  BY ReadStartFacts DEF WalOffset
<1>7. ForwarderTypeOK'
  BY <1>6, ReadStartFacts DEF SystemTypeOK, ForwarderTypeOK, SubTypeOK, Open
<1>8. up' \in {"running", "stopped"} /\ stops' \in Nat
  BY DEF SystemTypeOK, Open
<1>9. QED
  BY <1>5, <1>7, <1>8 DEF SystemTypeOK

LEMMA OpenKeepsLogSide ==
  ASSUME SystemTypeOK, LogSideInv, PlaceInv, StopInv, Open, SystemTypeOK'
  PROVE  LogSideInv'
<1> DEFINE a == ActiveSegment
           valid == LastValidOffset(ActiveSegment)
<1>1. /\ wpc' = "idle" /\ UNCHANGED <<log, phase, req, pending_acks>>
      /\ files' = [files EXCEPT ![a] = valid]
      /\ current_segment_id' = a /\ current_byte_offset' = valid
      /\ head' = Offset(a, valid)
      /\ up = "stopped"
  BY DEF Open
<1>2. /\ a \in DOMAIN files /\ \A s \in DOMAIN files : a >= s
      /\ valid \in Nat /\ OnFrameBoundary(Offset(a, valid))
      /\ \A e \in log : e.segment_id = a => e.end <= valid
  BY <1>1, OpenFacts
<1> HIDE DEF a, valid
<1>3. a \in Nat /\ DOMAIN files' = DOMAIN files /\ files'[a] = valid
      /\ \A s \in DOMAIN files : s # a => files'[s] = files[s]
  BY <1>1, <1>2, PositionTypes
<1>4. RequestInv' /\ PendingInv'
  <2>1. req = NoEvent /\ pending_acks = {}
    BY <1>1 DEF StopInv, LogSideInv, RequestInv, HasRequest, AcksResolved
  <2>2. QED
    BY <1>1, <2>1 DEF RequestInv, HasRequest, AcksResolved, PendingInv
<1>5. FileInv'
  BY <1>1, <1>2, <1>3, PositionTypes DEF FileInv
<1>6. HeadInv'
  BY <1>1, <1>2, <1>3 DEF HeadInv, Offset
<1>7. TailInv'
  BY <1>1, <1>2 DEF TailInv, OnFrameBoundary, Offset
<1>8. FramesTile'
  BY <1>1 DEF LogSideInv, FramesTile
<1>9. LogInv'
  <2>1. ASSUME NEW e \in log
        PROVE  /\ e.start < e.end /\ e.segment_id <= a
               /\ e.segment_id \in DOMAIN files' /\ e.segment_id < a =>
                    e.end <= files'[e.segment_id]
    <3>1. e.start < e.end /\ e.segment_id \in Nat
      BY PositionTypes DEF LogSideInv, LogInv, WalEntry
    <3>2. e.segment_id <= a
      <4>1. CASE e.segment_id \in DOMAIN files
        BY <1>2, <1>3, <3>1, <4>1
      <4>2. CASE e.segment_id < cursor.segment_id
        <5>1. cursor.segment_id <= a
          BY ReadStartFacts, <1>2, <1>3, <3>1, <4>2, PositionTypes
             DEF PlaceInv, NoCursor, Offset
        <5>2. QED
          BY <1>3, <3>1, <4>2, <5>1, PositionTypes
      <4>3. QED
        BY <4>1, <4>2 DEF PlaceInv
    <3>3. e.segment_id \in DOMAIN files /\ e.segment_id < a => e.end <= files'[e.segment_id]
      BY <1>1, <1>3 DEF StopInv, Readable
    <3>4. QED
      BY <1>3, <3>1, <3>2, <3>3
  <2>2. QED
    BY <1>1, <1>2, <2>1 DEF LogInv
<1>10. QED
  BY <1>4, <1>5, <1>6, <1>7, <1>8, <1>9 DEF LogSideInv, SystemTypeOK

LEMMA OpenKeepsPlaces ==
  ASSUME SystemTypeOK, LogSideInv, PlaceInv, StopInv, Open
  PROVE  PlaceInv'
<1>1. /\ UNCHANGED <<log, cursor, gc_todo, reader_open, rpc>>
      /\ cur' = ReadStart /\ rpc = "idle"
      /\ head' = Offset(ActiveSegment, LastValidOffset(ActiveSegment))
      /\ DOMAIN files' = DOMAIN files /\ ~reader_open
  BY DEF Open, StopInv
<1>2. ASSUME NEW o, OnFrameBoundary(o)
      PROVE  o.byte_offset = 0 \/ \E e \in log : OffsetAfter(e) = o /\ Readable(e)'
  BY <1>2, OpenKeepsReadable DEF OnFrameBoundary
<1>3. OnFrameBoundary(cursor)' /\ OnFrameBoundary(cur)' /\ OnFrameBoundary(head)'
  <2>1. OnFrameBoundary(cursor) /\ OnFrameBoundary(cur') /\ OnFrameBoundary(head')
    BY <1>1, ReadStartFacts, OpenFacts DEF PlaceInv, Open
  <2>2. QED
    BY <1>1, <1>2, <2>1 DEF OnFrameBoundary
<1>4. /\ AtMost(cursor, cur)' /\ (cur.segment_id <= head.segment_id)'
      /\ (cur.segment_id # 0)' /\ (head.segment_id \in DOMAIN files)'
  BY <1>1, ReadStartFacts, OpenFacts DEF AtMost, Open, Offset
<1>5. ~reader_open'
  BY <1>1
<1>6. QED
  BY <1>1, <1>3, <1>4, <1>5 DEF PlaceInv

LEMMA OpenKeepsTheRest ==
  ASSUME SystemInv, Open
  PROVE  TaskInv' /\ BatchInv' /\ FreshInv' /\ CoverInv' /\ AckedSurvives' /\ StopInv'
<1>1. /\ UNCHANGED <<log, cursor, skipped, sunk, result, batch, rpc>>
      /\ batch = <<>> /\ rpc = "idle" /\ fpc' = "select" /\ up' = "running"
      /\ cur' = ReadStart
  BY DEF Open, SystemInv, StopInv
<1>2. TaskInv' /\ BatchInv' /\ FreshInv' /\ StopInv'
  BY <1>1, BatchSizeAssumption DEF TaskInv, BatchInv, FreshInv, StopInv
<1>3. CoverInv'
  BY <1>1, ReadStartFacts DEF SystemInv, CoverInv, CursorIsCovered, Below
<1>4. AckedSurvives'
  BY <1>1, OpenKeepsReadable DEF SystemInv, AckedSurvives, Below
<1>5. QED
  BY <1>2, <1>3, <1>4

-----------------------------------------------------------------------------
LEMMA InitSystemInv == Init => SystemInv
<1> SUFFICES ASSUME Init PROVE SystemInv
  OBVIOUS
<1>1. WriterInv
  BY InitWriterInv DEF Init
<1>2. /\ log = {} /\ files = [s \in {1} |-> 0] /\ head = Offset(1, 0) /\ cur = Offset(1, 0)
      /\ cursor = NoCursor /\ gc_todo = {} /\ skipped = {} /\ sunk = {}
      /\ rpc = "idle" /\ fpc = "select" /\ batch = <<>> /\ closing = FALSE
      /\ reader_open = FALSE /\ reader_pos = 0 /\ last_gc_segment_id = 0
      /\ up = "running" /\ stops = 0 /\ result = [m \in Events |-> "none"]
  BY DEF Init, WriterInit, SharedInit, SubInit, SubOpenedAt, ForwarderStarts, Offset
<1>3. LogSideInv
  BY <1>1 DEF WriterInv, LogSideInv
<1>4. cur \in WalOffset /\ cursor \in WalOffset
  BY <1>2, OffsetType DEF NoCursor
<1>5. SubTypeOK
  BY <1>2, <1>4 DEF SubTypeOK, RPC
<1>6. batch \in Seq(WalEntry) /\ Len(batch) = 0
  BY <1>2
<1>0. closing \in BOOLEAN
  BY <1>2
<1>7. SystemTypeOK
  BY <1>0, <1>2, <1>3, <1>5, <1>6, BatchSizeAssumption
     DEF SystemTypeOK, ForwarderTypeOK, LogSideInv
<1>8. TaskInv /\ BatchInv /\ FreshInv /\ StopInv
  BY <1>2, <1>6, BatchSizeAssumption DEF TaskInv, BatchInv, FreshInv, StopInv
<1>9. PlaceInv
  BY <1>2 DEF PlaceInv, OnFrameBoundary, NoCursor, Offset, AtMost
<1>10. CoverInv /\ AckedSurvives
  BY <1>2 DEF CoverInv, CursorIsCovered, AckedSurvives
<1>11. QED
  BY <1>3, <1>7, <1>8, <1>9, <1>10 DEF SystemInv

LEMMA StepSystemInv ==
  ASSUME SystemInv, [Next]_vars
  PROVE  SystemInv'
<1> USE DEF SystemInv
<1>1. CASE WriteStep
  <2>1. StopInv'
    BY <1>1, WriteFrame DEF StopInv, WriteStep, RunCallers, RunWriter
  <2>2. QED
    BY <1>1, <2>1, WriteKeepsTypes, WriteKeepsLogSide, WriteKeepsTasks, WriteKeepsPlaces,
       WriteKeepsBatch, WriteKeepsFresh, WriteKeepsCover, WriteKeepsAcked
<1>2. CASE ReadStep
  <2>1. StopInv'
    BY <1>2, ReadFrame DEF StopInv
  <2>2. SystemTypeOK'
    BY <1>2, ReadKeepsTypes
  <2>3. QED
    BY <1>2, <2>1, <2>2, ReadKeepsLogSide, ReadKeepsTasks, ReadKeepsPlaces,
       ReadKeepsBatch, ReadKeepsFresh, ReadKeepsCover, ReadKeepsAcked
<1>3. CASE Stop
  BY <1>3, StopKeepsTypes, StopKeepsLogSide, StopKeepsPlaces, StopKeepsTheRest
<1>4. CASE Open
  BY <1>4, OpenKeepsTypes, OpenKeepsLogSide, OpenKeepsPlaces, OpenKeepsTheRest
<1>5. CASE UNCHANGED vars
  <2> USE <1>5 DEF vars, writerVars, readVars, forwarderVars, threadVars
  <2>1. SystemTypeOK' /\ WriterTypeOK'
    BY DEF SystemTypeOK, WriterTypeOK, SharedTypeOK, QueueBounded, ForwarderTypeOK,
       SubTypeOK
  <2>2. RequestInv' /\ FileInv' /\ LogInv' /\ PendingInv' /\ HeadInv'
    BY DEF LogSideInv, RequestInv, HasRequest, AcksResolved, FileInv, Flushed, ReqEntry,
       LogInv, PendingInv, HeadInv
  <2>3. LogSideInv'
    BY <2>1, <2>2 DEF LogSideInv, TailInv, FramesTile
  <2>4. TaskInv' /\ PlaceInv'
    BY DEF TaskInv, BatchEvents, PlaceInv, OnFrameBoundary, Readable, AtMost, AtActiveTail
  <2>5. BatchInv' /\ FreshInv'
    BY DEF BatchInv, Highest, AtMost, FreshInv, Readable, Below
  <2>6. CoverInv' /\ AckedSurvives' /\ StopInv'
    BY DEF CoverInv, CursorIsCovered, BatchEvents, Below, AckedSurvives, Readable, StopInv
  <2>7. QED
    BY <2>1, <2>3, <2>4, <2>5, <2>6
<1>6. QED
  BY <1>1, <1>2, <1>3, <1>4, <1>5 DEF Next, Stopped, WriteStep, ReadStep

-----------------------------------------------------------------------------
(* What is asked of every behaviour. *)

(* Every variable of writer, subscription, forwarder and process keeps its *)
(* type: the channel, the batch and the positions stay in their bounds.    *)
THEOREM SystemIsTypeCorrect == Spec => []SystemTypeOK
<1>1. SystemInv => SystemTypeOK
  BY DEF SystemInv
<1>2. QED
  BY <1>1, InitSystemInv, StepSystemInv, PTL DEF Spec

(* run_forwarder commits a watermark only over records that the sink has   *)
(* taken or that next has passed by, whatever is cancelled, fails, stops   *)
(* or is reopened.                                                         *)
THEOREM CommittedIsForwarded == Spec => []CursorIsCovered
<1>1. SystemInv => CursorIsCovered
  BY DEF SystemInv, CoverInv
<1>2. QED
  BY <1>1, InitSystemInv, StepSystemInv, PTL DEF Spec

(* What append_durable has answered Ok for is in the segment files until   *)
(* the committed cursor passes it, across stops, truncation and reclaim.   *)
THEOREM AckedIsDurable == Spec => []AckedSurvives
<1>1. SystemInv => AckedSurvives
  BY DEF SystemInv
<1>2. QED
  BY <1>1, InitSystemInv, StepSystemInv, PTL DEF Spec

(* commit deletes no segment with a record still to be committed, nor that *)
(* of the published head, nor the one the subscription has open.           *)
THEOREM ReclaimTakesNothingNeeded == Spec => []ReclaimIsSafe
<1>1. SystemInv => ReclaimIsSafe
  BY DEF SystemInv, PlaceInv, ReclaimIsSafe, Below
<1>2. QED
  BY <1>1, InitSystemInv, StepSystemInv, PTL DEF Spec

(* Wal::open finds a cursor that lies in the directory it opens, whenever  *)
(* the process has stopped.                                                *)
THEOREM OpenNeverRefuses == Spec => []OpenAccepts
<1>1. SystemInv => OpenAccepts
  <2>1. ASSUME SystemInv, cursor # NoCursor
        PROVE  ~CursorOutside
    <3>1. cursor.segment_id \in DOMAIN files /\ cursor.segment_id \in Nat
      BY <2>1, PositionTypes DEF SystemInv, PlaceInv
    <3>2. ~(cursor.segment_id < cursor.segment_id) /\ ~(cursor.segment_id > cursor.segment_id)
      BY <3>1
    <3>3. QED
      BY <3>1, <3>2 DEF CursorOutside
  <2>2. QED
    BY <2>1 DEF OpenAccepts, CursorOutside
<1>2. QED
  BY <1>1, InitSystemInv, StepSystemInv, PTL DEF Spec

(* Cursor and reading position are ends of frames wholly on disk: what     *)
(* Wal::open cuts off lies beyond both.                                    *)
THEOREM PositionsAreBoundaries == Spec => []PositionsOnFrames
<1>1. SystemInv => PositionsOnFrames
  BY DEF SystemInv, PlaceInv, PositionsOnFrames
<1>2. QED
  BY <1>1, InitSystemInv, StepSystemInv, PTL DEF Spec

(* The cursor file never goes back to an earlier position, whichever task  *)
(* runs and however often the process is restarted.                        *)
THEOREM CursorIsMonotonic == Spec => CursorNeverMovesBack
<1>1. SystemInv /\ [Next]_vars => [AtMost(cursor, cursor')]_vars
  <2> SUFFICES ASSUME SystemInv, Next PROVE AtMost(cursor, cursor')
    OBVIOUS
  <2>1. CASE UNCHANGED cursor
    BY <2>1, PositionTypes DEF SystemInv, AtMost, WalOffset
  <2>2. CASE ReadStep
    BY <2>2, ReadMoves DEF SystemInv
  <2>3. QED
    BY <2>1, <2>2, WriteFrame DEF Next, Stop, Open, Stopped, vars, readVars, WriteStep,
       ReadStep
<1>2. QED
  BY <1>1, InitSystemInv, StepSystemInv, PTL DEF Spec, CursorNeverMovesBack

-----------------------------------------------------------------------------
(* What goes to the sink is a run of the log, in its order. *)

(* The batch in order, all of it below the reading position, and nothing   *)
(* between its first record and that position left out.                    *)
RunInv ==
  /\ BatchInOrder
  /\ \A i \in DOMAIN batch : Below(batch[i], cur)
  /\ BatchHasNoGap

LEMMA StartOfType ==
  ASSUME NEW e \in WalEntry
  PROVE  StartOf(e) \in WalOffset
BY DEF StartOf, Offset, WalOffset, WalEntry

(* A write to the log comes after the reading position, and a read keeps   *)
(* the batch or empties it, unless it takes the record that starts there.  *)
LEMMA StillARun ==
  ASSUME SystemTypeOK, SystemTypeOK', RunInv, UNCHANGED batch, AtMost(cur, cur'),
         skipped \subseteq skipped',
         \A d \in log' : Below(d, cur') =>
            d \in log /\ (Below(d, cur) \/ d.event \in skipped')
  PROVE  RunInv'
<1>1. batch \in Seq(WalEntry) /\ cur \in WalOffset /\ cur' \in WalOffset
  BY DEF SystemTypeOK, ForwarderTypeOK, SubTypeOK
<1>2. BatchInOrder'
  BY DEF RunInv, BatchInOrder, Below, StartOf
<1>3. (\A i \in DOMAIN batch : Below(batch[i], cur))'
  <2>1. ASSUME NEW i \in DOMAIN batch PROVE Below(batch[i], cur')
    <3>1. batch[i] \in WalEntry /\ Below(batch[i], cur)
      BY <1>1 DEF RunInv
    <3>2. QED
      BY <1>1, <3>1, BelowIsMonotonic
  <2>2. QED
    BY <2>1 DEF Below
<1>4. BatchEvents' = BatchEvents
  BY DEF BatchEvents
<1>5. BatchHasNoGap'
  <2>1. ASSUME batch # <<>>, NEW d \in log', Below(d, cur')
        PROVE  Below(d, StartOf(batch[1])) \/ d.event \in BatchEvents \cup skipped'
    BY <2>1 DEF RunInv, BatchHasNoGap
  <2>2. QED
    BY <1>4, <2>1 DEF BatchHasNoGap, Below, StartOf
<1>6. QED
  BY <1>2, <1>3, <1>5 DEF RunInv

LEMMA TakenIsNext ==
  ASSUME SystemTypeOK, SystemTypeOK', LogSideInv, RunInv, UNCHANGED log, Taken
  PROVE  RunInv'
<1>1. batch \in Seq(WalEntry) /\ cur \in WalOffset /\ cur' \in WalOffset
      /\ log \subseteq WalEntry
  BY PositionTypes DEF SystemTypeOK, ForwarderTypeOK, SubTypeOK
<1>2. PICK e \in log : ReadRecord(e) /\ batch' = Append(batch, e)
  BY DEF Taken
<1>3. /\ StartsAtCur(e) /\ cur' = OffsetAfter(e) /\ UNCHANGED skipped
      /\ e \in WalEntry /\ StartOf(e) = cur
  BY <1>1, <1>2 DEF ReadRecord, StartsAtCur, StartOf
<1>4. /\ DOMAIN batch' = DOMAIN batch \cup {Len(batch) + 1}
      /\ batch'[Len(batch) + 1] = e
      /\ \A i \in DOMAIN batch : batch'[i] = batch[i] /\ i <= Len(batch) /\ i \in Nat
      /\ Len(batch) \in Nat
  BY <1>1, <1>2, <1>3
<1>5. Below(e, cur') /\ AtMost(cur, cur')
  <2>1. e.start < e.end
    BY <1>2 DEF LogSideInv, LogInv
  <2>2. QED
    BY <1>1, <1>3, <2>1, OffsetAfterType DEF Below, AtMost, WalEntry, StartOf, Offset
<1>6. \A i \in DOMAIN batch : batch[i] \in WalEntry /\ Below(batch[i], cur)
  BY <1>1 DEF RunInv
<1>7. BatchInOrder'
  <2>1. ASSUME NEW i \in DOMAIN batch', NEW j \in DOMAIN batch', i < j
        PROVE  Below(batch'[i], StartOf(batch'[j]))
    <3>1. i \in DOMAIN batch
      BY <1>4, <2>1
    <3>2. CASE j \in DOMAIN batch
      BY <1>4, <2>1, <3>1, <3>2 DEF RunInv, BatchInOrder
    <3>3. CASE j = Len(batch) + 1
      BY <1>3, <1>4, <1>6, <3>1, <3>3
    <3>4. QED
      BY <1>4, <3>2, <3>3
  <2>2. QED
    BY <2>1 DEF BatchInOrder, Below, StartOf
<1>8. (\A i \in DOMAIN batch : Below(batch[i], cur))'
  <2>1. ASSUME NEW i \in DOMAIN batch' PROVE Below(batch'[i], cur')
    <3>1. CASE i \in DOMAIN batch
      BY <1>1, <1>4, <1>5, <1>6, <3>1, BelowIsMonotonic
    <3>2. QED
      BY <1>4, <1>5, <3>1
  <2>2. QED
    BY <2>1 DEF Below
<1>9. BatchHasNoGap'
  <2>1. BatchEvents \subseteq BatchEvents' /\ e.event \in BatchEvents'
    BY <1>4 DEF BatchEvents
  <2>2. CASE batch = <<>>
    <3>1. batch'[1] = e
      BY <1>2, <2>2
    <3>2. ASSUME NEW d \in log, Below(d, cur')
          PROVE  Below(d, StartOf(e)) \/ d.event \in BatchEvents'
      BY <1>3, <2>1, <3>2, PassedFrame
    <3>3. QED
      BY <3>1, <3>2 DEF BatchHasNoGap, Below, StartOf
  <2>3. CASE batch # <<>>
    <3>1. 1 \in DOMAIN batch
      BY <1>1, <2>3
    <3>2. batch'[1] = batch[1]
      BY <1>4, <3>1
    <3>3. ASSUME NEW d \in log, Below(d, cur')
          PROVE  Below(d, StartOf(batch[1])) \/ d.event \in BatchEvents' \cup skipped'
      BY <1>3, <2>1, <2>3, <3>3, PassedFrame DEF RunInv, BatchHasNoGap
    <3>4. QED
      BY <3>2, <3>3 DEF BatchHasNoGap, Below, StartOf
  <2>4. QED
    BY <2>2, <2>3
<1>10. QED
  BY <1>7, <1>8, <1>9 DEF RunInv

LEMMA NoBatchIsARun ==
  ASSUME batch = <<>>
  PROVE  RunInv
BY DEF RunInv, BatchInOrder, BatchHasNoGap

LEMMA NoBatchIsARunNext ==
  ASSUME batch' = <<>>
  PROVE  RunInv'
BY DEF RunInv, BatchInOrder, BatchHasNoGap

LEMMA ReadKeepsRun ==
  ASSUME SystemTypeOK, SystemTypeOK', LogSideInv, TaskInv, PlaceInv, BatchInv, RunInv,
         ReadStep
  PROVE  RunInv'
<1>1. UNCHANGED log /\ AtMost(cur, cur')
  BY ReadFrame, ReadMoves
<1>2. CASE Still
  BY <1>1, <1>2, StillARun DEF Still
<1>3. CASE Taken
  BY <1>1, <1>3, TakenIsNext
<1>4. CASE Advanced
  <2>1. /\ cur' = Offset(cur.segment_id + 1, 0)
        /\ skipped' = skipped \cup {e.event : e \in Unread}
        /\ UNCHANGED batch
    BY <1>4 DEF Advanced, Advance
  <2>2. \A d \in log' : Below(d, cur') =>
          d \in log /\ (Below(d, cur) \/ d.event \in skipped')
    BY <1>1, <2>1, PassedSegment
  <2>3. QED
    BY <1>1, <2>1, <2>2, StillARun
<1>5. CASE PassedBy
  <2>1. PICK e \in log : /\ StartsAtCur(e) /\ cur' = OffsetAfter(e)
                         /\ skipped' = skipped \cup {e.event}
    BY <1>5 DEF PassedBy, SkipRecord
  <2>2. \A d \in log' : Below(d, cur') =>
          d \in log /\ (Below(d, cur) \/ d.event \in skipped')
    BY <1>1, <2>1, PassedFrame
  <2>3. QED
    BY <1>1, <1>5, <2>1, <2>2, StillARun DEF PassedBy
<1>6. CASE CursorWritten \/ Deleted
  <2>1. UNCHANGED <<cur, batch, skipped>>
    BY <1>6 DEF CursorWritten, Deleted, WriteCursor, DeleteSegment, nextVars
  <2>2. QED
    BY <1>1, <2>1, StillARun
<1>7. CASE FlushDone
  BY <1>7, NoBatchIsARunNext DEF FlushDone
<1>8. QED
  BY <1>2, <1>3, <1>4, <1>5, <1>6, <1>7, ReadCases

LEMMA WriteKeepsRun ==
  ASSUME SystemTypeOK, SystemTypeOK', LogSideInv, PlaceInv, RunInv, WriteStep
  PROVE  RunInv'
<1>1. UNCHANGED <<cur, batch, skipped>> /\ (Callers \/ WriterThread)
  BY WriteFrame
<1>2. AtMost(cur, cur')
  BY <1>1, PositionTypes DEF AtMost, WalOffset
<1>3. ASSUME NEW d \in log', Below(d, cur') PROVE d \in log
  <2>1. cur \in WalOffset /\ OnFrameBoundary(cur) /\ cur.segment_id <= current_segment_id
    BY PositionTypes, PlaceOrder DEF PlaceInv
  <2>2. CASE d \notin log
    BY <1>1, <1>3, <2>1, <2>2, LogChange, NewIsBeyond DEF LogSideInv
  <2>3. QED
    BY <2>2
<1>4. QED
  BY <1>1, <1>2, <1>3, StillARun

LEMMA StepRunInv ==
  ASSUME SystemInv, SystemInv', RunInv, [Next]_vars
  PROVE  RunInv'
<1> USE DEF SystemInv
<1>1. CASE WriteStep
  BY <1>1, WriteKeepsRun
<1>2. CASE ReadStep
  BY <1>2, ReadKeepsRun
<1>3. CASE Stop
  BY <1>3, NoBatchIsARunNext DEF Stop
<1>4. CASE Open
  <2>1. batch' = <<>>
    BY <1>4 DEF Open, StopInv
  <2>2. QED
    BY <2>1, NoBatchIsARunNext
<1>5. CASE UNCHANGED vars
  BY <1>5 DEF vars, writerVars, readVars, forwarderVars, threadVars, RunInv, BatchInOrder,
     BatchHasNoGap, BatchEvents, Below, StartOf
<1>6. QED
  BY <1>1, <1>2, <1>3, <1>4, <1>5 DEF Next, Stopped, WriteStep, ReadStep

LEMMA InitRunInv == Init => RunInv
<1>1. Init => batch = <<>>
  BY DEF Init, ForwarderStarts
<1>2. QED
  BY <1>1, NoBatchIsARun

(* What a flush hands to the sink is in the order of the log, no record    *)
(* twice, whatever ticks, failures and rotations came between its takes.   *)
THEOREM BatchesAreInOrder == Spec => []BatchInOrder
<1>1. RunInv => BatchInOrder
  BY DEF RunInv
<1>2. QED
  BY <1>1, InitSystemInv, StepSystemInv, InitRunInv, StepRunInv, PTL DEF Spec

(* And it leaves out no record of the log between its first one and the    *)
(* reading position, except those next has passed by.                      *)
THEOREM BatchesHaveNoGap == Spec => []BatchHasNoGap
<1>1. RunInv => BatchHasNoGap
  BY DEF RunInv
<1>2. QED
  BY <1>1, InitSystemInv, StepSystemInv, InitRunInv, StepRunInv, PTL DEF Spec

(* While the process runs, the reading position never moves back.          *)
THEOREM ReadingIsMonotonic == Spec => ReadingNeverGoesBack
<1>1. SystemInv /\ [Next]_vars =>
        [up = "running" /\ up' = "running" => AtMost(cur, cur')]_vars
  <2> SUFFICES ASSUME SystemInv, Next, up = "running", up' = "running"
               PROVE  AtMost(cur, cur')
    OBVIOUS
  <2>1. CASE UNCHANGED cur
    BY <2>1, PositionTypes DEF SystemInv, AtMost, WalOffset
  <2>2. CASE ReadStep
    BY <2>2, ReadMoves DEF SystemInv
  <2>3. QED
    BY <2>1, <2>2, WriteFrame DEF Next, Stop, Open, Stopped, vars, readVars, WriteStep,
       ReadStep
<1>2. QED
  BY <1>1, InitSystemInv, StepSystemInv, PTL DEF Spec, ReadingNeverGoesBack

-----------------------------------------------------------------------------
(* What next passes by. With whole writes and reads that succeed a segment *)
(* file always ends where a frame does, so that a read that has reached    *)
(* its end leaves the descriptor at the reading position, and a read that  *)
(* does not decode has met a rotten frame.                                 *)
WholeWrites == ~TornWrites /\ "read" \notin Faults

EndsOnFrame(s) ==
  files[s] = 0 \/ \E e \in log : e.segment_id = s /\ e.end = files[s]

WholeInv ==
  /\ \A s \in DOMAIN files : EndsOnFrame(s)
  /\ wpc = "spill" => ReqEntry \in log

ReaderInv ==
  /\ reader_open => reader_pos = cur.byte_offset
  /\ rpc \in {"corrupt", "skip"} =>
       /\ ~reader_open
       /\ \E e \in log : StartsAtCur(e) /\ Readable(e) /\ e.event \in Poison

(* If the file goes on after the reading position, so does the log: the    *)
(* first frame that starts there or later starts there.                    *)
LEMMA FrameAtPosition ==
  ASSUME SystemTypeOK, LogSideInv, PlaceInv, WholeInv,
         cur.segment_id \in DOMAIN files, files[cur.segment_id] > cur.byte_offset
  PROVE  \E e \in log : StartsAtCur(e) /\ Readable(e)
<1> DEFINE S == cur.segment_id
           B == cur.byte_offset
           Starts == {x \in Nat : \E e \in log : /\ e.segment_id = S /\ e.start = x
                                                 /\ B <= x /\ Readable(e)}
<1>1. /\ S \in Nat /\ B \in Nat /\ files[S] \in Nat /\ log \subseteq WalEntry
      /\ cur \in WalOffset
  BY PositionTypes DEF WalOffset
<1>2. ASSUME NEW e \in log, e.segment_id = S, e.start < B PROVE e.end <= B
  BY <1>1, <1>2, NothingStraddles DEF LogSideInv, PlaceInv
<1>3. \A e \in log : /\ e.segment_id \in Nat /\ e.start \in Nat /\ e.end \in Nat
                     /\ e.start < e.end
  BY <1>1 DEF LogSideInv, LogInv, WalEntry
<1>4. PICK e \in log : e.segment_id = S /\ e.end = files[S]
  BY <1>1 DEF WholeInv, EndsOnFrame
<1>5. B <= e.start /\ Readable(e)
  <2>1. ~(e.start < B)
    BY <1>1, <1>2, <1>3, <1>4
  <2>2. QED
    BY <1>1, <1>3, <1>4, <2>1 DEF Readable
<1>6. e.start \in Starts
  BY <1>3, <1>4, <1>5
<1>7. PICK x \in Starts : \A y \in Starts : x <= y
  <2> HIDE DEF Starts
  <2>1. Starts \subseteq Nat
    BY DEF Starts
  <2>2. QED
    BY <1>6, <2>1, LeastExists
<1>8. PICK d \in log : /\ d.segment_id = S /\ d.start = x
                       /\ B <= x /\ Readable(d)
  BY <1>7
<1>9. x = B
  <2> SUFFICES ASSUME x # B PROVE FALSE
    OBVIOUS
  <2>1. B < d.start
    BY <1>1, <1>3, <1>8
  <2>2. PICK p \in log : OffsetAfter(p) = Offset(S, d.start)
    BY <1>1, <1>3, <1>8, <2>1 DEF LogSideInv, FramesTile
  <2>3. p.segment_id = S /\ p.end = d.start
    BY <2>2 DEF OffsetAfter, Offset
  <2>4. B <= p.start
    <3>1. ~(p.start < B)
      BY <1>1, <1>2, <1>3, <2>1, <2>3
    <3>2. QED
      BY <1>1, <1>3, <3>1
  <2>5. Readable(p)
    BY <1>1, <1>3, <1>8, <2>3 DEF Readable
  <2>6. p.start \in Starts
    BY <1>3, <2>3, <2>4, <2>5
  <2>7. p.start < x
    BY <1>3, <1>8, <2>3
  <2>8. QED
    BY <1>3, <1>7, <1>8, <2>6, <2>7
<1>10. StartsAtCur(d)
  <2>1. cur = Offset(S, B)
    BY <1>1 DEF Offset, WalOffset
  <2>2. QED
    BY <1>8, <1>9, <2>1 DEF StartsAtCur
<1>11. QED
  BY <1>8, <1>10

(* The frame that starts at the reading position is the only one.          *)
LEMMA OneFrameAtPosition ==
  ASSUME SystemTypeOK, LogSideInv, NEW d \in log, NEW e \in log,
         StartsAtCur(d), StartsAtCur(e)
  PROVE  d = e
<1>1. /\ d \in WalEntry /\ e \in WalEntry
      /\ d.segment_id = e.segment_id /\ d.start = e.start
  BY PositionTypes DEF StartsAtCur, Offset
<1>2. d.start < d.end /\ e.start < e.end
  BY DEF LogSideInv, LogInv
<1>3. QED
  BY <1>1, <1>2 DEF LogSideInv, FramesTile, WalEntry

-----------------------------------------------------------------------------
LEMMA WriteKeepsWhole ==
  ASSUME WholeWrites, LogSideInv, WholeInv, WriteStep
  PROVE  WholeInv'
<1> USE DEF LogSideInv, WriterTypeOK, SharedTypeOK
<1>0. (Callers \/ WriterThread) /\ [WriterNext]_writerVars
  BY WriteFrame
<1>1. ASSUME NEW s \in DOMAIN files, EndsOnFrame(s), files'[s] = files[s]
      PROVE  EndsOnFrame(s)'
  <2>1. CASE files[s] = 0
    BY <1>1, <2>1 DEF EndsOnFrame
  <2>2. CASE files[s] # 0
    <3>1. PICK e \in log : e.segment_id = s /\ e.end = files[s]
      BY <1>1, <2>2 DEF EndsOnFrame
    <3>2. Readable(e)
      BY <3>1 DEF Readable
    <3>3. e \in log'
      BY <1>0, <3>2, ReadableStays
    <3>4. QED
      BY <1>1, <3>1, <3>3 DEF EndsOnFrame
  <2>3. QED
    BY <2>1, <2>2
<1>2. ASSUME NEW s \in DOMAIN files, s = current_segment_id, wpc # "gone",
             log \subseteq log', files'[s] = current_byte_offset
      PROVE  EndsOnFrame(s)'
  <2>1. CASE current_byte_offset = 0
    BY <1>2, <2>1 DEF EndsOnFrame
  <2>2. CASE current_byte_offset # 0
    <3>1. PICK d \in log :
             OffsetAfter(d) = Offset(current_segment_id, current_byte_offset)
      BY <1>2, <2>2 DEF TailInv
    <3>2. d.segment_id = current_segment_id /\ d.end = current_byte_offset
      BY <3>1 DEF OffsetAfter, Offset
    <3>3. QED
      BY <1>2, <3>2 DEF EndsOnFrame
  <2>3. QED
    BY <2>1, <2>2
<1>3. \A lo \in Nat, hi \in Nat, n \in Nat : n \in Grow(lo, hi) => n = hi
  BY DEF WholeWrites, Grow
<1>4. ASSUME UNCHANGED files PROVE \A s \in DOMAIN files' : EndsOnFrame(s)'
  BY <1>1, <1>4 DEF WholeInv
<1>5. CASE FlushBytes
  <2>1. /\ wpc = "flush" /\ UNCHANGED <<log, threadVars>>
        /\ \E n \in Grow(files[current_segment_id], current_byte_offset) :
             files' = [files EXCEPT ![current_segment_id] = n]
    BY <1>5 DEF FlushBytes
  <2>2. current_segment_id \in DOMAIN files /\ files[current_segment_id] \in Nat
    BY <2>1 DEF FileInv
  <2>3. files' = [files EXCEPT ![current_segment_id] = current_byte_offset]
    BY <2>1, <2>2 DEF WholeWrites, Grow
  <2>4. \A s \in DOMAIN files' : EndsOnFrame(s)'
    BY <1>1, <1>2, <2>1, <2>2, <2>3 DEF WholeInv
  <2>5. QED
    BY <2>1, <2>4 DEF WholeInv, threadVars
<1>6. CASE SpillBytes
  <2>1. /\ wpc = "spill" /\ UNCHANGED <<log, threadVars>>
        /\ \E hi \in {current_byte_offset, ReqEntry.end} :
             \E n \in Grow(files[current_segment_id], hi) :
               files' = [files EXCEPT ![current_segment_id] = n]
    BY <1>6 DEF SpillBytes
  <2>2. /\ current_segment_id \in DOMAIN files /\ files[current_segment_id] \in Nat
        /\ req \in Events
    BY <2>1 DEF FileInv, RequestInv, HasRequest
  <2>3. \/ files' = [files EXCEPT ![current_segment_id] = current_byte_offset]
        \/ files' = [files EXCEPT ![current_segment_id] = ReqEntry.end]
    BY <2>1, <2>2 DEF WholeWrites, Grow
  <2>4. ReqEntry \in log' /\ ReqEntry.segment_id = current_segment_id
    BY <2>1, <2>2, ReqEntryType DEF WholeInv
  <2>5. ASSUME NEW s \in DOMAIN files, s = current_segment_id
        PROVE  EndsOnFrame(s)'
    <3>1. CASE files' = [files EXCEPT ![current_segment_id] = current_byte_offset]
      BY <1>2, <2>1, <2>2, <2>5, <3>1
    <3>2. CASE files' = [files EXCEPT ![current_segment_id] = ReqEntry.end]
      BY <2>1, <2>2, <2>4, <2>5, <3>2 DEF EndsOnFrame
    <3>3. QED
      BY <2>3, <3>1, <3>2
  <2>6. \A s \in DOMAIN files' : EndsOnFrame(s)'
    BY <1>1, <2>2, <2>3, <2>5 DEF WholeInv
  <2>7. QED
    BY <2>1, <2>6 DEF WholeInv, threadVars, ReqEntry
<1>7. CASE OpenNextSegment
  <2>1. /\ UNCHANGED log /\ wpc' = "write"
        /\ files' = [s \in DOMAIN files \cup {current_segment_id + 1} |->
                       IF s = current_segment_id + 1 THEN 0 ELSE files[s]]
    BY <1>7 DEF OpenNextSegment
  <2>2. ASSUME NEW s \in DOMAIN files' PROVE EndsOnFrame(s)'
    <3>1. CASE s = current_segment_id + 1
      BY <2>1, <3>1 DEF EndsOnFrame
    <3>2. CASE s # current_segment_id + 1
      BY <1>1, <2>1, <2>2, <3>2 DEF WholeInv
    <3>3. QED
      BY <3>1, <3>2
  <2>3. QED
    BY <2>1, <2>2 DEF WholeInv
<1>8. CASE DropReceiver
  <2>1. /\ wpc = "dropped" /\ wpc' = "gone" /\ UNCHANGED log
        /\ \/ UNCHANGED files
           \/ /\ current_segment_id \in DOMAIN files
              /\ \E n \in Grow(files[current_segment_id], current_byte_offset) :
                   files' = [files EXCEPT ![current_segment_id] = n]
    BY <1>8 DEF DropReceiver
  <2>2. CASE UNCHANGED files
    BY <1>4, <2>1, <2>2 DEF WholeInv
  <2>3. CASE /\ current_segment_id \in DOMAIN files
             /\ files' = [files EXCEPT ![current_segment_id] = current_byte_offset]
    <3>1. \A s \in DOMAIN files' : EndsOnFrame(s)'
      BY <1>1, <1>2, <2>1, <2>3 DEF WholeInv
    <3>2. QED
      BY <2>1, <3>1 DEF WholeInv
  <2>4. QED
    BY <2>1, <2>2, <2>3 DEF WholeWrites, Grow
<1>9. CASE UNCHANGED files /\ UNCHANGED <<log, current_segment_id, current_byte_offset>>
           /\ (wpc' = "spill" => wpc = "spill" /\ req' = req)
  BY <1>4, <1>9 DEF WholeInv, ReqEntry
<1>10. CASE BeginSpill
  <2>1. UNCHANGED <<files, req, current_segment_id, current_byte_offset>>
        /\ log' = log \cup {ReqEntry}
    BY <1>10 DEF BeginSpill
  <2>2. QED
    BY <1>4, <2>1 DEF WholeInv, ReqEntry
<1>11. CASE WriteBuffered \/ SpillDone \/ WriteAllFails \/ OpenNextSegmentFails
  <2>1. UNCHANGED files /\ wpc' # "spill"
    BY <1>11 DEF WriteBuffered, SpillDone, RecordWritten, WriteAllFails, OpenNextSegmentFails
  <2>2. QED
    BY <1>4, <2>1 DEF WholeInv
<1>12. QED
  <2>1. CASE Callers
    BY <1>9, <2>1 DEF Callers, AppendDurable, TryAppend, Send, DropWal, threadVars
  <2>2. CASE BeginPeriodicFlush \/ Recv \/ RecvDisconnected \/ FlushFails \/ PublishHead
             \/ NotifyReader \/ DropNotify
    BY <1>9, <2>2 DEF BeginPeriodicFlush, Recv, RecvDisconnected, FlushFails, PublishHead,
       NotifyReader, DropNotify
  <2>3. QED
    BY <1>0, <1>5, <1>6, <1>7, <1>8, <1>10, <1>11, <2>1, <2>2 DEF WriterThread

LEMMA WriteKeepsReader ==
  ASSUME LogSideInv, ReaderInv, WriteStep
  PROVE  ReaderInv'
<1>1. UNCHANGED <<rpc, cur, reader_open, reader_pos>> /\ [WriterNext]_writerVars
  BY WriteFrame
<1>2. ASSUME NEW e \in log, StartsAtCur(e), Readable(e), e.event \in Poison
      PROVE  \E d \in log' : StartsAtCur(d)' /\ Readable(d)' /\ d.event \in Poison
  BY <1>1, <1>2, ReadableStays DEF LogSideInv, StartsAtCur
<1>3. QED
  BY <1>1, <1>2 DEF ReaderInv, StartsAtCur, Readable

(* Reads leave the files as they are, but for the segments below the       *)
(* cursor, and the log as it is.                                           *)
LEMMA ReadKeepsWhole ==
  ASSUME SystemTypeOK, PlaceInv, WholeInv, ReadStep
  PROVE  WholeInv'
<1>1. UNCHANGED <<log, wpc, req, current_segment_id, current_byte_offset>>
  BY ReadFrame
<1>2. \A s \in DOMAIN files' : s \in DOMAIN files /\ files'[s] = files[s]
  BY FilesAfterRead
<1>3. QED
  BY <1>1, <1>2 DEF WholeInv, EndsOnFrame, ReqEntry

(* The cases of a read in which next is neither between a bad frame and    *)
(* its skip nor moves the descriptor.                                      *)
LEMMA ReadKeepsReader ==
  ASSUME WholeWrites, SystemTypeOK, LogSideInv, TaskInv, PlaceInv, WholeInv, ReaderInv,
         ReadStep
  PROVE  ReaderInv' /\ (skipped' \subseteq skipped \cup Poison \/ Advanced)
<1> DEFINE Goal == ReaderInv' /\ (skipped' \subseteq skipped \cup Poison \/ Advanced)
<1>0. UNCHANGED log /\ (ForwarderTask \/ Tick)
  BY ReadFrame
<1>1. CASE /\ UNCHANGED <<cur, skipped>>
           /\ reader_open' = FALSE \/ UNCHANGED <<reader_open, reader_pos>>
           /\ rpc' \notin {"corrupt", "skip"}
  BY <1>1 DEF ReaderInv
<1>2. CASE PollNext \/ Tick \/ TakeNone \/ SinkAccepts \/ SinkFails \/ FlushDone
  BY <1>1, <1>2 DEF PollNext, Tick, CancelNext, TakeNone, NextNone, SinkAccepts, SinkFails,
     FlushDone, nextVars, CloseReader, TaskInv
<1>3. CASE Commit
  <2>1. UNCHANGED nextVars /\ rpc' \notin {"corrupt", "skip"}
    BY <1>3 DEF Commit, CommitStep, CommitFails, ListSegments, DeleteSegment, GcDone,
       WriteCursor
  <2>2. QED
    BY <1>1, <2>1 DEF nextVars
<1>4. CASE TakeEntry
  <2>1. PICK e \in log : ReadRecord(e)
    BY <1>4 DEF TakeEntry
  <2>2. /\ cur' = OffsetAfter(e) /\ reader_pos' = e.end /\ rpc' = "idle"
        /\ UNCHANGED skipped
    BY <2>1 DEF ReadRecord
  <2>3. QED
    BY <2>2 DEF ReaderInv, OffsetAfter, Offset
<1>5. CASE NextPending
  <2>1. NextStep /\ UNCHANGED <<fpc, batch, sunk>>
    BY <1>5 DEF NextPending, forwarderVars
  <2>2. CASE ReadEof
    <3>1. /\ rpc = "read" /\ rpc' = "wait" /\ UNCHANGED <<cur, skipped>>
          /\ cur.segment_id \in DOMAIN files
          /\ Aligned => ~\E e \in log : StartsAtCur(e) /\ Readable(e)
          /\ reader_pos' = IF VisibleLen > Pos THEN VisibleLen ELSE Pos
      BY <2>2 DEF ReadEof, SegmentExists
    <3>2. Pos = cur.byte_offset
      BY DEF ReaderInv, Pos
    <3>3. ~(VisibleLen > Pos)
      BY <3>1, <3>2, FrameAtPosition DEF Aligned, VisibleLen
    <3>4. QED
      BY <3>1, <3>2, <3>3 DEF ReaderInv
  <2>3. CASE ReadCorrupt
    <3>1. /\ reader_open' = FALSE /\ rpc' = "corrupt" /\ UNCHANGED <<files, cur, skipped>>
          /\ \/ \E e \in log : StartsAtCur(e) /\ Readable(e) /\ e.event \in Poison
             \/ ~Aligned
      BY <2>3 DEF ReadCorrupt, CloseReader, commitVars
    <3>2. Aligned
      BY DEF ReaderInv, Aligned, Pos
    <3>3. QED
      BY <1>0, <3>1, <3>2 DEF ReaderInv, StartsAtCur, Readable
  <2>4. CASE ReadFails
    BY <2>4 DEF ReadFails, Fault, WholeWrites
  <2>5. CASE CorruptRecord
    BY <1>0, <2>5 DEF CorruptRecord, ReaderInv, nextVars, commitVars, StartsAtCur, Readable
  <2>6. CASE SkipRecord
    <3>1. PICK e \in log : /\ StartsAtCur(e) /\ cur' = OffsetAfter(e)
                           /\ skipped' = skipped \cup {e.event}
      BY <2>6 DEF SkipRecord
    <3>2. rpc = "skip" /\ rpc' = "read" /\ UNCHANGED <<reader_open, reader_pos>>
      BY <2>6 DEF SkipRecord
    <3>3. PICK d \in log : StartsAtCur(d) /\ d.event \in Poison
      BY <3>2 DEF ReaderInv
    <3>4. e.event \in Poison
      BY <3>1, <3>3, OneFrameAtPosition
    <3>5. QED
      BY <3>1, <3>2, <3>4 DEF ReaderInv
  <2>7. CASE OpenFails \/ Register \/ CheckClosed \/ Woken \/ SkipUnreadable
    BY <1>1, <2>7 DEF OpenFails, Register, CheckClosed, Woken, ReadAgain, SkipUnreadable,
       nextVars
  <2>8. CASE CheckHead \/ FinalHead
    <3>1. CASE head.segment_id > cur.segment_id /\ Advance
      <4>1. UNCHANGED <<cursor, files, batch, sunk>>
        BY <2>1, <2>8 DEF CheckHead, FinalHead, commitVars
      <4>2. reader_open' = FALSE /\ rpc' = "read"
        BY <3>1 DEF Advance, CloseReader
      <4>3. QED
        BY <3>1, <4>1, <4>2 DEF Advanced, ReaderInv
    <3>2. CASE UNCHANGED <<cur, skipped, reader_open, reader_pos>> /\ rpc' \in {"read", "count"}
      BY <1>1, <3>2
    <3>3. QED
      BY <2>8, <3>1, <3>2 DEF CheckHead, FinalHead, ReadAgain, nextVars
  <2>9. QED
    BY <2>1, <2>2, <2>3, <2>4, <2>5, <2>6, <2>7, <2>8 DEF NextStep
<1>6. QED
  BY <1>0, <1>2, <1>3, <1>4, <1>5 DEF ForwarderTask

LEMMA StepWholeInv ==
  ASSUME WholeWrites, SystemInv, WholeInv, ReaderInv, [Next]_vars
  PROVE  WholeInv' /\ ReaderInv'
<1> USE DEF SystemInv
<1>1. CASE WriteStep
  BY <1>1, WriteKeepsWhole, WriteKeepsReader
<1>2. CASE ReadStep
  BY <1>2, ReadKeepsWhole, ReadKeepsReader
<1>3. CASE Stop
  <2>1. /\ UNCHANGED files /\ wpc' = "gone" /\ rpc' = "idle" /\ reader_open' = FALSE
        /\ \A e \in log : Readable(e) => e \in log'
    BY <1>3, StopKeepsReadable DEF Stop, CloseReader
  <2>2. ASSUME NEW s \in DOMAIN files PROVE EndsOnFrame(s)'
    <3>1. CASE files[s] = 0
      BY <2>1, <3>1 DEF EndsOnFrame
    <3>2. CASE \E e \in log : e.segment_id = s /\ e.end = files[s]
      <4>1. PICK e \in log : e.segment_id = s /\ e.end = files[s]
        BY <3>2
      <4>2. Readable(e)
        BY <4>1, PositionTypes DEF Readable
      <4>3. QED
        BY <2>1, <4>1, <4>2 DEF EndsOnFrame
    <3>3. QED
      BY <3>1, <3>2 DEF WholeInv, EndsOnFrame
  <2>3. QED
    BY <2>1, <2>2 DEF WholeInv, ReaderInv
<1>4. CASE Open
  <2>1. /\ UNCHANGED <<log, rpc, reader_open>> /\ wpc' = "idle"
        /\ files' = [files EXCEPT ![ActiveSegment] = LastValidOffset(ActiveSegment)]
        /\ rpc = "idle" /\ ~reader_open
    BY <1>4 DEF Open, StopInv
  <2>2. ActiveSegment \in DOMAIN files
        /\ OnFrameBoundary(Offset(ActiveSegment, LastValidOffset(ActiveSegment)))
    BY <1>4, OpenFacts DEF Open
  <2>3. ASSUME NEW s \in DOMAIN files, s = ActiveSegment PROVE EndsOnFrame(s)'
    BY <2>1, <2>2, <2>3 DEF OnFrameBoundary, EndsOnFrame, OffsetAfter, Offset
  <2>4. ASSUME NEW s \in DOMAIN files' PROVE EndsOnFrame(s)'
    <3>1. CASE s # ActiveSegment
      BY <2>1, <2>2, <2>4, <3>1, PositionTypes DEF WholeInv, EndsOnFrame
    <3>2. QED
      BY <2>1, <2>3, <2>4, <3>1
  <2>5. QED
    BY <2>1, <2>4 DEF WholeInv, ReaderInv
<1>5. CASE UNCHANGED vars
  BY <1>5 DEF vars, writerVars, readVars, threadVars, WholeInv, EndsOnFrame, ReqEntry,
     ReaderInv, StartsAtCur, Readable
<1>6. QED
  BY <1>1, <1>2, <1>3, <1>4, <1>5 DEF Next, Stopped, WriteStep, ReadStep

LEMMA InitWholeInv == Init => WholeInv /\ ReaderInv
BY DEF Init, WriterInit, SharedInit, SubInit, SubOpenedAt, WholeInv, EndsOnFrame, ReaderInv

(* Only a forwarder step passes anything by.                               *)
LEMMA LossStep ==
  ASSUME WholeWrites, SystemInv, WholeInv, ReaderInv, [Next]_vars
  PROVE  skipped' \subseteq skipped \cup Poison \/ Advanced
<1>1. CASE UNCHANGED skipped
  BY <1>1
<1>2. CASE ReadStep
  BY <1>2, ReadKeepsReader DEF SystemInv
<1>3. CASE WriteStep
  BY <1>1, <1>3, WriteFrame
<1>4. QED
  BY <1>1, <1>2, <1>3 DEF Next, Stop, Open, Stopped, vars, readVars, WriteStep, ReadStep

(* The head leaves the first segment once and for all, and before next.    *)
LEMMA StepFirstSegment ==
  ASSUME WholeWrites, SystemInv, WholeInv, ReaderInv, FirstSegmentIsWhole, [Next]_vars
  PROVE  FirstSegmentIsWhole'
<1> SUFFICES ASSUME head'.segment_id = 1 PROVE skipped' \subseteq Poison
  BY DEF FirstSegmentIsWhole, NothingSkipped
<1> USE DEF SystemInv
<1>1. head.segment_id \in Nat /\ head.segment_id # 0 /\ head.segment_id \in DOMAIN files
  BY PositionTypes DEF PlaceInv
<1>2. head.segment_id = 1
  <2>1. CASE UNCHANGED head
    BY <2>1
  <2>2. CASE WriteStep
    <3>1. AtMost(head, head') /\ head' \in WalOffset
      BY <2>2, WriteKeepsLogSide DEF LogSideInv, WriterTypeOK, SharedTypeOK
    <3>2. QED
      BY <1>1, <3>1 DEF AtMost, WalOffset
  <2>3. CASE Open
    <3>1. head'.segment_id = ActiveSegment /\ ActiveSegment >= head.segment_id
          /\ ActiveSegment \in Nat
      BY <1>1, <2>3, OpenFacts, PositionTypes DEF Open, Offset
    <3>2. QED
      BY <1>1, <3>1
  <2>4. QED
    BY <2>1, <2>2, <2>3, ReadFrame DEF Next, Stop, Stopped, vars, writerVars, WriteStep,
       ReadStep
<1>3. skipped \subseteq Poison
  BY <1>2 DEF FirstSegmentIsWhole, NothingSkipped
<1>4. ~Advanced
  <2>1. cur.segment_id \in Nat /\ cur.segment_id # 0
    BY PositionTypes DEF PlaceInv
  <2>2. QED
    BY <1>2, <2>1 DEF Advanced
<1>5. QED
  BY <1>3, <1>4, LossStep

(* With whole writes and reads that succeed, the one way in which next     *)
(* passes by a record that decodes is its step to the next segment: a file *)
(* that has grown since it was read to its end is left.                    *)
THEOREM OnlyRotationLoses ==
  ASSUME WholeWrites
  PROVE  Spec => LossOnlyAtRotation
<1>1. SystemInv /\ WholeInv /\ ReaderInv /\ [Next]_vars =>
        [\/ skipped' \subseteq skipped \cup Poison
         \/ /\ cur.segment_id < head.segment_id
            /\ cur' = Offset(cur.segment_id + 1, 0)]_vars
  <2> SUFFICES ASSUME SystemInv, WholeInv, ReaderInv, Next
               PROVE  \/ skipped' \subseteq skipped \cup Poison
                      \/ /\ cur.segment_id < head.segment_id
                         /\ cur' = Offset(cur.segment_id + 1, 0)
    OBVIOUS
  <2>1. cur.segment_id \in Nat /\ head.segment_id \in Nat
    BY PositionTypes DEF SystemInv
  <2>2. QED
    BY <2>1, LossStep DEF Advanced, Advance
<1>2. SystemInv /\ WholeInv /\ ReaderInv /\ [Next]_vars => WholeInv' /\ ReaderInv'
  BY StepWholeInv
<1>3. QED
  BY <1>1, <1>2, InitSystemInv, StepSystemInv, InitWholeInv, PTL DEF Spec, LossOnlyAtRotation

(* Under the same conditions, and as long as the log has one segment, next *)
(* hands out every record that decodes, over cancelled reads and restarts. *)
THEOREM OneSegmentLosesNothing ==
  ASSUME WholeWrites
  PROVE  Spec => []FirstSegmentIsWhole
<1>1. SystemInv /\ WholeInv /\ ReaderInv /\ [Next]_vars => WholeInv' /\ ReaderInv'
  BY StepWholeInv
<1>2. SystemInv /\ WholeInv /\ ReaderInv /\ FirstSegmentIsWhole /\ [Next]_vars =>
        FirstSegmentIsWhole'
  BY StepFirstSegment
<1>3. Init => FirstSegmentIsWhole
  BY DEF Init, SubInit, FirstSegmentIsWhole, NothingSkipped
<1>4. QED
  BY <1>1, <1>2, <1>3, InitSystemInv, StepSystemInv, InitWholeInv, PTL DEF Spec

-----------------------------------------------------------------------------
(* An append leaves one frame at most also over stops and restarts: the    *)
(* queue and the request in hand die with the process, and Wal::open makes *)
(* no record of what it finds.                                             *)
LEMMA StepOnceInvOfSystem ==
  ASSUME SystemInv, OnceInv, [Next]_vars
  PROVE  OnceInv'
<1>0. WriterTypeOK /\ RequestInv
  BY DEF SystemInv, SystemTypeOK, LogSideInv
<1>1. CASE WriteStep
  BY <1>0, <1>1, WriteFrame, StepOnceInv
<1>2. CASE ReadStep
  BY <1>0, <1>2, ReadFrame, OnceKept DEF Accepted
<1>3. CASE Stop
  <2>1. \A m \in Events : Accepted(m) => Accepted(m)'
    BY <1>0, <1>3 DEF Stop, Accepted, WriterTypeOK
  <2>2. QED
    BY <1>0, <1>3, <2>1, OnceKept, FlagsAssumption DEF Stop
<1>4. CASE Open
  <2>1. wpc = "gone"
    BY <1>4 DEF Open, SystemInv, StopInv
  <2>2. QED
    BY <1>0, <1>4, <2>1, OnceKept DEF Open, Accepted
<1>5. CASE UNCHANGED vars
  BY <1>0, <1>5, StepOnceInv DEF vars
<1>6. QED
  BY <1>1, <1>2, <1>3, <1>4, <1>5 DEF Next, Stopped, WriteStep, ReadStep

(* No append is in the log twice, whatever flush is retried, spilled or    *)
(* given up, and whatever a restart truncates and appends after.           *)
THEOREM NoAppendIsDoubled == Spec => []AppendedOnce
<1>1. OnceInv => AppendedOnce
  BY DEF OnceInv
<1>2. QED
  BY <1>1, InitSystemInv, StepSystemInv, InitOnceInv, StepOnceInvOfSystem, PTL
     DEF Spec, Init

(* What try_append or append_durable has refused is never in the log.      *)
THEOREM NoRefusedAppendAppears == Spec => []RefusedIsAbsent
<1>1. OnceInv => RefusedIsAbsent
  BY DEF OnceInv
<1>2. QED
  BY <1>1, InitSystemInv, StepSystemInv, InitOnceInv, StepOnceInvOfSystem, PTL
     DEF Spec, Init

-----------------------------------------------------------------------------
(* Waking and leaving. A reader that has registered and seen nothing newer *)
(* can only be out of date while the writer is about to notify it.         *)
WakeInv ==
  rpc \in {"count", "parked"} /\ waiter = "registered" =>
    NothingNewer \/ wpc = "notify"

(* Once the writer has dropped its notify the head is final. next returns  *)
(* None only then, and at the head; from there on the forwarder flushes    *)
(* what it has and leaves.                                                 *)
EndInv ==
  /\ ~writer_holds_notify => wpc \in {"dropped", "gone"}
  /\ rpc = "final" => ~writer_holds_notify
  /\ closing => /\ up = "running" /\ fpc # "select"
                /\ ~writer_holds_notify /\ AtMost(head, cur)
  /\ up = "running" /\ fpc = "exit" => closing /\ batch = <<>>

(* Acks follow the publication of what they are for.                       *)
PublishedInv ==
  /\ wpc = "notify" /\ phase # "final" =>
       head = Offset(current_segment_id, current_byte_offset)
  /\ \A m \in Events : result[m] = "ok" => \E e \in log : e.event = m /\ Below(e, head)

LEMMA WriteKeepsWake ==
  ASSUME SystemTypeOK, WakeInv, WriteStep
  PROVE  WakeInv'
<1>1. UNCHANGED <<rpc, cur>> /\ (Callers \/ WriterThread)
  BY WriteFrame
<1>2. CASE PublishHead
  BY <1>2 DEF PublishHead, WakeInv
<1>3. CASE NotifyReader
  BY <1>3 DEF NotifyReader, NotifyWaiters, WakeInv
<1>4. CASE UNCHANGED <<head, waiter>> /\ (wpc = "notify" => wpc' = "notify")
  BY <1>1, <1>4 DEF WakeInv, NothingNewer
<1>5. QED
  BY <1>1, <1>2, <1>3, <1>4
     DEF Callers, WriterThread, AppendDurable, TryAppend, Send, DropWal,
     BeginPeriodicFlush, Recv, RecvDisconnected, FlushBytes, FlushFails,
     OpenNextSegment, OpenNextSegmentFails, WriteBuffered, RecordWritten,
     BeginSpill, SpillBytes, SpillDone, WriteAllFails, DropNotify,
     DropReceiver, threadVars

LEMMA ReadKeepsWake ==
  ASSUME WakeInv, ReadStep
  PROVE  WakeInv'
<1>1. UNCHANGED <<head, wpc>> /\ (ForwarderTask \/ Tick)
  BY ReadFrame
<1>2. \/ rpc' \notin {"count", "parked"}
      \/ UNCHANGED <<rpc, cur, waiter>>
      \/ rpc = "check" /\ NothingNewer /\ UNCHANGED cur
      \/ rpc = "count" /\ UNCHANGED <<cur, waiter>>
  BY <1>1 DEF ForwarderTask, PollNext, NextPending, NextStep, TakeEntry, TakeNone,
     SinkAccepts, SinkFails, Commit, FlushDone, Tick, ReadRecord, ReadEof,
     ReadCorrupt, ReadFails, OpenFails, Register, CheckHead, Advance, ReadAgain,
     CheckClosed, FinalHead, NextNone, Woken, CorruptRecord, SkipRecord,
     SkipUnreadable, CancelNext, WriteCursor, CommitStep, CommitFails,
     ListSegments, DeleteSegment, GcDone, nextVars, commitVars
<1>3. QED
  BY <1>1, <1>2 DEF WakeInv, NothingNewer

LEMMA WriteKeepsEnd ==
  ASSUME EndInv, WriteStep
  PROVE  EndInv'
<1>1. UNCHANGED <<rpc, cur, up, fpc, closing, batch>> /\ (Callers \/ WriterThread)
  BY WriteFrame
<1>2. /\ ~writer_holds_notify' => wpc' \in {"dropped", "gone"}
      /\ ~writer_holds_notify => ~writer_holds_notify'
  <2>1. CASE DropNotify
    BY <2>1 DEF DropNotify
  <2>2. CASE /\ UNCHANGED writer_holds_notify
             /\ wpc \in {"dropped", "gone"} => wpc' \in {"dropped", "gone"}
    BY <2>2 DEF EndInv
  <2>3. QED
    BY <1>1, <2>1, <2>2
       DEF Callers, WriterThread, AppendDurable, TryAppend, Send, DropWal,
       BeginPeriodicFlush, Recv, RecvDisconnected, FlushBytes, FlushFails,
       PublishHead, NotifyReader, OpenNextSegment, OpenNextSegmentFails,
       WriteBuffered, RecordWritten, BeginSpill, SpillBytes, SpillDone,
       WriteAllFails, DropReceiver, threadVars
<1>3. ~writer_holds_notify => UNCHANGED head
  BY <1>1, HeadChange DEF EndInv, PublishHead
<1>4. QED
  BY <1>1, <1>2, <1>3 DEF EndInv, AtMost

LEMMA ReadKeepsEnd ==
  ASSUME SystemInv, SystemTypeOK', EndInv, ReadStep
  PROVE  EndInv'
<1>1. /\ UNCHANGED <<head, wpc, writer_holds_notify, up>>
      /\ up = "running" /\ (ForwarderTask \/ Tick)
  BY ReadFrame
<1>2. rpc' = "final" => ~writer_holds_notify
  BY <1>1 DEF EndInv, ForwarderTask, PollNext, NextPending, NextStep, TakeEntry,
     TakeNone, SinkAccepts, SinkFails, Commit, FlushDone, Tick, ReadRecord,
     ReadEof, ReadCorrupt, ReadFails, OpenFails, Register, CheckHead, Advance,
     ReadAgain, CheckClosed, FinalHead, NextNone, Woken, CorruptRecord,
     SkipRecord, SkipUnreadable, CancelNext, WriteCursor, CommitStep,
     CommitFails, ListSegments, DeleteSegment, GcDone
<1>3. CASE TakeNone
  <2>1. rpc = "final" /\ UNCHANGED <<cur, batch>> /\ closing' = TRUE
    BY <1>3 DEF TakeNone, NextNone
  <2>2. AtMost(head, cur)
    BY <1>3, PositionTypes DEF TakeNone, NextNone, SystemInv, PlaceInv, AtMost, WalOffset
  <2>3. QED
    BY <1>1, <1>2, <1>3, <2>1, <2>2 DEF TakeNone, EndInv, AtMost
<1>4. CASE FlushDone
  BY <1>1, <1>2, <1>4 DEF FlushDone, EndInv, nextVars, AtMost
<1>5. CASE ~TakeNone /\ ~FlushDone
  <2>1. UNCHANGED closing /\ (fpc' = "exit" => fpc = "exit")
    BY <1>1, <1>5 DEF ForwarderTask, PollNext, NextPending, TakeEntry, SinkAccepts,
       SinkFails, Commit, Tick, forwarderVars
  <2>2. fpc \notin {"select", "commit"} => UNCHANGED batch
    BY <1>1, <1>5 DEF ForwarderTask, PollNext, NextPending, TakeEntry, SinkAccepts,
       SinkFails, Commit, Tick, forwarderVars
  <2>3. fpc # "select" => fpc' # "select"
    BY <1>1, <1>5 DEF ForwarderTask, PollNext, NextPending, TakeEntry, SinkAccepts,
       SinkFails, Commit, Tick, forwarderVars
  <2>4. AtMost(cur, cur') /\ cur' \in WalOffset
    BY ReadMoves DEF SystemInv, SystemTypeOK, ForwarderTypeOK, SubTypeOK
  <2>5. closing => AtMost(head, cur')
    BY <2>4, AtMostIsTransitive, PositionTypes DEF EndInv, SystemInv
  <2>6. QED
    BY <1>1, <1>2, <2>1, <2>2, <2>3, <2>5 DEF EndInv, AtMost
<1>6. QED
  BY <1>3, <1>4, <1>5

(* Where an append is told Ok, its record has been published.              *)
LEMMA NewlyAckedIsPublished ==
  ASSUME WriterTypeOK, RequestInv, PendingInv, PublishedInv, [WriterNext]_writerVars,
         NEW m \in Events, result'[m] = "ok", result[m] # "ok"
  PROVE  UNCHANGED log /\ \E e \in log : e.event = m /\ Below(e, head')
<1> USE DEF WriterTypeOK, SharedTypeOK
<1>1. /\ m \in pending_acks /\ UNCHANGED log
      /\ head' = Offset(current_segment_id, current_byte_offset)
  <2>1. CASE Callers
    BY <2>1 DEF Callers, AppendDurable, TryAppend, Send, DropWal
  <2>2. CASE Recv
    BY <2>2, ResolvedType DEF Recv, Result
  <2>3. CASE FlushFails \/ OpenNextSegmentFails \/ WriteAllFails
    <3>1. UNCHANGED result \/ result' = Resolved(pending_acks \cup {req}, "failed")
      BY <2>3 DEF FlushFails, OpenNextSegmentFails, WriteAllFails, FailPending
    <3>2. QED
      BY <3>1, ResolvedType DEF Result
  <2>4. CASE PublishHead
    BY <2>4, ResolvedType DEF PublishHead, AckPending, Result
  <2>5. CASE NotifyReader
    BY <2>5, ResolvedType DEF NotifyReader, AckPending, Result, PublishedInv
  <2>6. CASE DropReceiver
    BY <2>6, ResolvedType DEF DropReceiver, Result
  <2>7. CASE UNCHANGED result
    BY <2>7
  <2>8. QED
    BY <2>1, <2>2, <2>3, <2>4, <2>5, <2>6, <2>7
       DEF WriterNext, WriterThread, BeginPeriodicFlush, RecvDisconnected,
       FlushBytes, OpenNextSegment, WriteBuffered, BeginSpill, SpillBytes,
       SpillDone, RecordWritten, DropNotify, WriterStopped, writerVars
<1>2. QED
  BY <1>1 DEF PendingInv, Below, Offset

LEMMA WriteKeepsPublished ==
  ASSUME SystemInv, SystemTypeOK', PublishedInv, WriteStep
  PROVE  PublishedInv'
<1>0. WriterTypeOK /\ RequestInv /\ FileInv /\ LogInv /\ PendingInv /\ HeadInv
  BY DEF SystemInv, SystemTypeOK, LogSideInv
<1>1. [WriterNext]_writerVars /\ (Callers \/ WriterThread)
  BY WriteFrame
<1>2. (wpc = "notify" /\ phase # "final" =>
         head = Offset(current_segment_id, current_byte_offset))'
  BY <1>1
     DEF PublishedInv, Callers, WriterThread, AppendDurable, TryAppend, Send,
     DropWal, BeginPeriodicFlush, Recv, RecvDisconnected, FlushBytes, FlushFails,
     PublishHead, NotifyReader, OpenNextSegment, OpenNextSegmentFails,
     WriteBuffered, RecordWritten, BeginSpill, SpillBytes, SpillDone,
     WriteAllFails, DropNotify, DropReceiver, threadVars
<1>3. head \in WalOffset /\ head' \in WalOffset /\ AtMost(head, head')
  BY <1>0, <1>1, HeadStep, PositionTypes DEF SystemInv, SystemTypeOK, WriterTypeOK, SharedTypeOK
<1>4. /\ OnFrameBoundary(head) /\ head.segment_id <= current_segment_id
      /\ FramesTile
  BY PlaceOrder DEF SystemInv, PlaceInv, LogSideInv
<1>5. ASSUME NEW e \in log, Below(e, head)
      PROVE  e \in log'
  BY <1>0, <1>1, <1>3, <1>4, <1>5, LogChange, NewIsBeyond
<1>6. ASSUME NEW m \in Events, result'[m] = "ok"
      PROVE  \E e \in log' : e.event = m /\ Below(e, head')
  <2>1. CASE result[m] = "ok"
    <3>1. PICK e \in log : e.event = m /\ Below(e, head)
      BY <2>1 DEF PublishedInv
    <3>2. e \in WalEntry
      BY <1>0 DEF WriterTypeOK, SharedTypeOK
    <3>3. QED
      BY <1>3, <1>5, <3>1, <3>2, BelowIsMonotonic
  <2>2. CASE result[m] # "ok"
    BY <1>0, <1>1, <1>6, <2>2, NewlyAckedIsPublished
  <2>3. QED
    BY <2>1, <2>2
<1>7. QED
  BY <1>2, <1>6 DEF PublishedInv, Below

LEMMA ReadKeepsPublished ==
  ASSUME PublishedInv, ReadStep
  PROVE  PublishedInv'
BY ReadFrame DEF PublishedInv, Below

(* A stop takes nothing from below the head, and tells nobody Ok.          *)
LEMMA StopKeepsPublished ==
  ASSUME SystemInv, PublishedInv, Stop
  PROVE  PublishedInv'
<1>1. ASSUME NEW m \in Events, result'[m] = "ok" PROVE result[m] = "ok"
  BY <1>1 DEF Stop
<1>2. ASSUME NEW e \in log, Below(e, head) PROVE e \in log'
  <2>1. e.segment_id \in DOMAIN files => Readable(e)
    BY <1>2, PassedIsReadable, PositionTypes
       DEF SystemInv, LogSideInv, PlaceInv, HeadInv
  <2>2. QED
    BY <2>1 DEF Stop
<1>3. wpc' = "gone" /\ UNCHANGED head
  BY DEF Stop
<1>4. QED
  BY <1>1, <1>2, <1>3 DEF PublishedInv, Below

(* Wal::open publishes all that the last process has published.            *)
LEMMA OpenKeepsPublished ==
  ASSUME SystemInv, PublishedInv, Open
  PROVE  PublishedInv'
<1>1. /\ wpc' = "idle" /\ UNCHANGED <<log, result>>
      /\ head' = Offset(ActiveSegment, LastValidOffset(ActiveSegment))
      /\ up = "stopped"
  BY DEF Open
<1>2. ASSUME NEW e \in log, Below(e, head) PROVE Below(e, head')
  <2>1. /\ head.segment_id \in DOMAIN files
        /\ ActiveSegment \in DOMAIN files
        /\ \A s \in DOMAIN files : ActiveSegment >= s
        /\ e.segment_id = ActiveSegment => e.end <= LastValidOffset(ActiveSegment)
    BY <1>1, OpenFacts DEF SystemInv, PlaceInv
  <2>2. /\ head.segment_id \in Nat /\ ActiveSegment \in Nat /\ e.segment_id \in Nat
        /\ e.segment_id <= head.segment_id /\ head.segment_id <= ActiveSegment
    BY <1>2, <2>1, PositionTypes DEF SystemInv, Below, WalEntry
  <2>3. QED
    BY <1>1, <2>1, <2>2 DEF Below, Offset
<1>3. QED
  BY <1>1, <1>2 DEF PublishedInv, Below

LEMMA StepWakeInv ==
  ASSUME SystemInv, WakeInv, [Next]_vars
  PROVE  WakeInv'
<1>1. CASE WriteStep
  BY <1>1, WriteKeepsWake DEF SystemInv
<1>2. CASE ReadStep
  BY <1>2, ReadKeepsWake
<1>3. CASE Stop
  BY <1>3 DEF Stop, WakeInv
<1>4. CASE Open
  BY <1>4 DEF Open, SystemInv, StopInv, WakeInv
<1>5. CASE UNCHANGED vars
  BY <1>5 DEF vars, writerVars, threadVars, readVars, WakeInv, NothingNewer
<1>6. QED
  BY <1>1, <1>2, <1>3, <1>4, <1>5 DEF Next, Stopped, WriteStep, ReadStep

LEMMA StepEndInv ==
  ASSUME SystemInv, SystemInv', EndInv, [Next]_vars
  PROVE  EndInv'
<1>1. CASE WriteStep
  BY <1>1, WriteKeepsEnd
<1>2. CASE ReadStep
  BY <1>2, ReadKeepsEnd DEF SystemInv
<1>3. CASE Stop
  BY <1>3 DEF Stop, EndInv
<1>4. CASE Open
  BY <1>4 DEF Open, SystemInv, StopInv, EndInv
<1>5. CASE UNCHANGED vars
  BY <1>5 DEF vars, writerVars, threadVars, readVars, forwarderVars, EndInv, AtMost
<1>6. QED
  BY <1>1, <1>2, <1>3, <1>4, <1>5 DEF Next, Stopped, WriteStep, ReadStep

LEMMA StepPublishedInv ==
  ASSUME SystemInv, SystemInv', PublishedInv, [Next]_vars
  PROVE  PublishedInv'
<1>1. CASE WriteStep
  BY <1>1, WriteKeepsPublished DEF SystemInv
<1>2. CASE ReadStep
  BY <1>2, ReadKeepsPublished
<1>3. CASE Stop
  BY <1>3, StopKeepsPublished
<1>4. CASE Open
  BY <1>4, OpenKeepsPublished
<1>5. CASE UNCHANGED vars
  BY <1>5 DEF vars, writerVars, threadVars, PublishedInv, Below
<1>6. QED
  BY <1>1, <1>2, <1>3, <1>4, <1>5 DEF Next, Stopped, WriteStep, ReadStep

LEMMA InitLeaving == Init => WakeInv /\ EndInv /\ PublishedInv
BY DEF Init, WriterInit, SharedInit, SubInit, SubOpenedAt, ForwarderStarts, WakeInv,
   EndInv, PublishedInv

LEMMA WhatIsPassedIsDone ==
  ASSUME SystemInv, EndInv, PublishedInv
  PROVE  ExitIsComplete
<1> SUFFICES ASSUME up = "running", fpc = "exit" PROVE
      /\ \A e \in log : Below(e, head) => e.event \in sunk \cup skipped
      /\ \A m \in Events : result[m] = "ok" => m \in sunk \cup skipped
  BY DEF ExitIsComplete
<1>1. AtMost(head, cur) /\ batch = <<>>
  BY DEF EndInv
<1>2. BatchEvents = {}
  BY <1>1 DEF BatchEvents
<1>3. ASSUME NEW e \in log, Below(e, head) PROVE e.event \in sunk \cup skipped
  <2>1. Below(e, cur)
    BY <1>1, <1>3, BelowIsMonotonic, PositionTypes DEF SystemInv
  <2>2. QED
    BY <1>2, <2>1 DEF SystemInv, CoverInv
<1>4. QED
  BY <1>3 DEF PublishedInv

(* No wake-up is lost: wherever the writer publishes between the steps of  *)
(* wait_or_advance, next does not park on a stale head unless the notify   *)
(* that wakes it is still to come; across every cancellation and restart.  *)
THEOREM NoWakeupLost == Spec => []NoWakeupIsLost
<1>1. WakeInv => NoWakeupIsLost
  BY DEF WakeInv, NoWakeupIsLost
<1>2. QED
  BY <1>1, InitSystemInv, StepSystemInv, InitLeaving, StepWakeInv, PTL DEF Spec

(* The forwarder that has left after a graceful shutdown has nothing left  *)
(* to do: whatever was published, and whatever was told Ok in this process *)
(* or an earlier one, is with the sink or was passed by.                   *)
THEOREM GracefulExitIsComplete == Spec => []ExitIsComplete
<1>1. SystemInv /\ EndInv /\ PublishedInv => ExitIsComplete
  BY WhatIsPassedIsDone
<1>2. SystemInv /\ SystemInv' /\ EndInv /\ [Next]_vars => EndInv'
  BY StepEndInv
<1>3. SystemInv /\ SystemInv' /\ PublishedInv /\ [Next]_vars => PublishedInv'
  BY StepPublishedInv
<1>4. QED
  BY <1>1, <1>2, <1>3, InitSystemInv, StepSystemInv, InitLeaving, PTL DEF Spec

-----------------------------------------------------------------------------
(* The log it promises: each step is a step of AtLeastOnceLog. *)
LogStepOrStutter == [Log!Next]_(Log!vars)

LEMMA IsStore ==
  ASSUME StoredEvents \subseteq StoredEvents', StoredEvents' \subseteq Events,
         UNCHANGED <<sunk, skipped>>
  PROVE  LogStepOrStutter
BY DEF LogStepOrStutter, Log!Next, Log!Store, Log!vars

LEMMA IsForward ==
  ASSUME StoredEvents \subseteq Events, NEW E, E \subseteq StoredEvents,
         sunk' = sunk \cup E, UNCHANGED <<StoredEvents, skipped>>
  PROVE  LogStepOrStutter
BY DEF LogStepOrStutter, Log!Next, Log!Forward, Log!vars

LEMMA IsLoss ==
  ASSUME StoredEvents \subseteq Events, NEW E, E \subseteq StoredEvents,
         skipped' = skipped \cup E, UNCHANGED <<StoredEvents, sunk>>
  PROVE  LogStepOrStutter
BY DEF LogStepOrStutter, Log!Next, Log!Lose, Log!vars

LEMMA IsRelease ==
  ASSUME StoredEvents \subseteq Events, StoredEvents' \subseteq StoredEvents,
         StoredEvents \ StoredEvents' \subseteq sunk \cup skipped,
         UNCHANGED <<sunk, skipped>>
  PROVE  LogStepOrStutter
<1> DEFINE E == StoredEvents \ StoredEvents'
<1>1. E \in SUBSET Events /\ Log!Release(E)
  BY DEF Log!Release
<1>2. QED
  BY <1>1 DEF LogStepOrStutter, Log!Next

LEMMA StoredType ==
  ASSUME SystemTypeOK
  PROVE  StoredEvents \subseteq Events
BY PositionTypes DEF StoredEvents, WalEntry

LEMMA WriteIsStore ==
  ASSUME SystemTypeOK, LogSideInv, WriteStep
  PROVE  LogStepOrStutter
<1>1. UNCHANGED <<cursor, sunk, skipped>> /\ [WriterNext]_writerVars
  BY WriteFrame
<1>2. StoredEvents' \subseteq Events
  BY WriteKeepsTypes DEF StoredEvents, WalEntry, SystemTypeOK, WriterTypeOK, SharedTypeOK
<1>3. ASSUME NEW e \in log, Readable(e)
      PROVE  e \in log' /\ Readable(e)'
  BY <1>1, <1>3, ReadableStays DEF LogSideInv
<1>4. StoredEvents \subseteq StoredEvents'
  BY <1>1, <1>3 DEF StoredEvents, Below
<1>5. QED
  BY <1>1, <1>2, <1>4, IsStore

(* A deletion takes nothing that is stored. *)
LEMMA ReadKeepsStored ==
  ASSUME SystemTypeOK, LogSideInv, PlaceInv, ReadStep, UNCHANGED cursor
  PROVE  UNCHANGED StoredEvents
<1>1. UNCHANGED log
  BY ReadFrame
<1>2. ASSUME NEW e \in log, ~Below(e, cursor)
      PROVE  Readable(e) <=> Readable(e)'
  <2>1. cursor.segment_id <= e.segment_id
    BY <1>2, PositionTypes DEF Below, WalEntry
  <2>2. Readable(e)' => Readable(e)
    BY FilesAfterRead DEF Readable
  <2>3. QED
    BY <2>1, <2>2, ReadKeepsReadable
<1>3. QED
  BY <1>1, <1>2 DEF StoredEvents, Below

(* next passes by only what could be read. *)
LEMMA PassedIsStored ==
  ASSUME SystemTypeOK, LogSideInv, PlaceInv, NEW e \in Unread,
         \/ cur.segment_id < head.segment_id
         \/ ~AtActiveTail /\ StartsAtCur(e)
  PROVE  e \in log /\ e.event \in StoredEvents
<1>1. /\ e \in log /\ e.segment_id = cur.segment_id /\ e.start >= cur.byte_offset
      /\ e.segment_id \in DOMAIN files
  BY PlaceOrder, PositionTypes DEF Unread, PlaceInv
<1>2. ~Below(e, cursor)
  BY <1>1, AheadIsFresh
<1>3. Readable(e)
  <2>1. CASE cur.segment_id < head.segment_id
    <3>1. e.segment_id < current_segment_id
      BY <1>1, <2>1, PlaceOrder, PositionTypes
    <3>2. QED
      BY <1>1, <3>1 DEF LogSideInv, LogInv, Readable
  <2>2. CASE cur.segment_id = head.segment_id /\ ~AtActiveTail /\ StartsAtCur(e)
    <3>1. e.segment_id = head.segment_id /\ e.start < head.byte_offset
      BY <1>1, <2>2, PositionTypes DEF AtActiveTail, StartsAtCur, Offset, WalOffset
    <3>2. QED
      BY <1>1, <3>1, NothingStraddles, PositionTypes DEF LogSideInv, PlaceInv
  <2>3. QED
    BY <2>1, <2>2, PlaceOrder, PositionTypes
<1>4. QED
  BY <1>1, <1>2, <1>3 DEF StoredEvents

(* Only the sink's own step adds to what it holds. *)
LEMMA SunkChange ==
  ASSUME ReadStep
  PROVE  \/ UNCHANGED sunk
         \/ fpc = "sink" /\ sunk' = sunk \cup BatchEvents /\ UNCHANGED <<cursor, skipped>>
<1>1. CASE SinkAccepts \/ SinkFails
  BY <1>1 DEF SinkAccepts, SinkFails, WriteOk, WriteErr, nextVars, commitVars
<1>2. QED
  BY <1>1, ReadFrame DEF ForwarderTask, PollNext, NextPending, TakeEntry, TakeNone, Commit,
     FlushDone, Tick, forwarderVars

LEMMA ReadIsLogStep ==
  ASSUME SystemInv, ReadStep, SystemInv'
  PROVE  LogStepOrStutter
<1> USE DEF SystemInv
<1>1. StoredEvents \subseteq Events
  BY StoredType
<1>2. UNCHANGED cursor => UNCHANGED StoredEvents
  BY ReadKeepsStored
<1>3. CASE ~UNCHANGED sunk
  <2>1. /\ fpc = "sink" /\ sunk' = sunk \cup BatchEvents
        /\ UNCHANGED <<cursor, skipped>>
    BY <1>3, SunkChange
  <2>2. BatchEvents \subseteq StoredEvents
    BY <2>1 DEF FreshInv, BatchEvents, StoredEvents
  <2>3. QED
    BY <1>1, <1>2, <2>1, <2>2, IsForward
<1>4. CASE UNCHANGED <<cursor, sunk, skipped>>
  BY <1>1, <1>2, <1>4, IsStore
<1>5. CASE Advanced
  <2>1. /\ skipped' = skipped \cup {e.event : e \in Unread} /\ UNCHANGED <<cursor, sunk>>
        /\ cur.segment_id < head.segment_id
    BY <1>5, PositionTypes DEF Advanced, Advance
  <2>2. {e.event : e \in Unread} \subseteq StoredEvents
    BY <2>1, PassedIsStored
  <2>3. QED
    BY <1>1, <1>2, <2>1, <2>2, IsLoss
<1>6. CASE PassedBy
  <2>1. PICK e \in log : StartsAtCur(e) /\ skipped' = skipped \cup {e.event}
    BY <1>6 DEF PassedBy, SkipRecord
  <2>2. UNCHANGED <<cursor, sunk>> /\ ~AtActiveTail
    BY <1>6 DEF PassedBy, SkipRecord, commitVars, PlaceInv
  <2>3. e \in Unread
    <3>1. e.segment_id = cur.segment_id /\ e.start = cur.byte_offset
      BY <2>1 DEF StartsAtCur, Offset
    <3>2. QED
      BY <3>1, PositionTypes DEF Unread, WalOffset
  <2>4. {e.event} \subseteq StoredEvents
    BY <2>1, <2>2, <2>3, PassedIsStored
  <2>5. QED
    BY <1>1, <1>2, <2>1, <2>2, <2>4, IsLoss
<1>7. CASE CursorWritten
  <2>1. UNCHANGED <<log, files, sunk, skipped>>
    BY <1>7, ReadFrame DEF CursorWritten, WriteCursor, nextVars
  <2>2. AtMost(cursor, cursor') /\ cursor' \in WalOffset
    BY ReadMoves, PositionTypes DEF SystemTypeOK, ForwarderTypeOK, SubTypeOK
  <2>3. StoredEvents' \subseteq StoredEvents
    <3>1. \A e \in log : Below(e, cursor) => Below(e, cursor')
      BY <2>2, BelowIsMonotonic, PositionTypes
    <3>2. QED
      BY <2>1, <3>1 DEF StoredEvents, Readable, Below
  <2>4. StoredEvents \ StoredEvents' \subseteq sunk \cup skipped
    <3>1. \A e \in log : Below(e, cursor') => e.event \in sunk \cup skipped
      BY <2>1 DEF CoverInv, CursorIsCovered, Below
    <3>2. QED
      BY <2>1, <3>1 DEF StoredEvents, Readable, Below
  <2>5. QED
    BY <1>1, <2>1, <2>3, <2>4, IsRelease
<1>8. CASE Still \/ Taken \/ Deleted \/ FlushDone
  BY <1>3, <1>4, <1>8 DEF Still, Taken, ReadRecord, Deleted, DeleteSegment, FlushDone,
     nextVars, commitVars
<1>9. QED
  BY <1>5, <1>6, <1>7, <1>8, ReadCases

LEMMA StopKeepsStored ==
  ASSUME Stop
  PROVE  UNCHANGED StoredEvents
BY DEF Stop, StoredEvents, Readable, Below

LEMMA OpenKeepsStored ==
  ASSUME SystemTypeOK, LogSideInv, PlaceInv, StopInv, Open
  PROVE  UNCHANGED StoredEvents
<1>1. UNCHANGED <<log, cursor>>
  BY DEF Open
<1>2. \A e \in log : e.segment_id \in DOMAIN files => Readable(e)
  BY DEF Open, StopInv
<1>3. \A e \in log : Readable(e)' => Readable(e)
  BY <1>2 DEF Open, Readable
<1>4. \A e \in log : Readable(e) => Readable(e)'
  BY OpenKeepsReadable
<1>5. QED
  BY <1>1, <1>3, <1>4 DEF StoredEvents, Below

(* The log of the service implements AtLeastOnceLog: from the moment its   *)
(* frame is in the file, a record is stored until the cursor passes it,    *)
(* and it leaves only through the sink or where next passes it by.         *)
THEOREM SystemImplementsLog == Spec => ImplementsAtLeastOnce
<1>1. Init => Log!Init
  BY DEF Init, WriterInit, SharedInit, SubInit, SubOpenedAt, StoredEvents, Log!Init
<1>2. SystemInv /\ SystemInv' /\ [Next]_vars => [Log!Next]_(Log!vars)
  <2> SUFFICES ASSUME SystemInv, SystemInv', [Next]_vars PROVE LogStepOrStutter
    BY DEF LogStepOrStutter
  <2> USE DEF SystemInv
  <2>1. CASE WriteStep
    BY <2>1, WriteIsStore
  <2>2. CASE ReadStep
    BY <2>2, ReadIsLogStep
  <2>3. CASE UNCHANGED <<StoredEvents, sunk, skipped>>
    BY <2>3 DEF LogStepOrStutter, Log!vars
  <2>4. CASE Stop
    BY <2>3, <2>4, StopKeepsStored DEF Stop
  <2>5. CASE Open
    BY <2>3, <2>5, OpenKeepsStored DEF Open
  <2>6. CASE UNCHANGED vars
    BY <2>3, <2>6 DEF vars, writerVars, readVars, forwarderVars, StoredEvents, Readable, Below
  <2>7. QED
    BY <2>1, <2>2, <2>4, <2>5, <2>6 DEF Next, Stopped, WriteStep, ReadStep
<1>3. QED
  BY <1>1, <1>2, InitSystemInv, StepSystemInv, PTL DEF Spec, ImplementsAtLeastOnce, Log!Spec
=============================================================================
