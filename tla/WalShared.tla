------------------------------ MODULE WalShared ------------------------------
(***************************************************************************)
(* What the parts of the write-ahead log share: positions in the log, the  *)
(* records in it, the segment files, and the in-memory cells through which *)
(* the writer thread and the subscription communicate.                     *)
(*                                                                         *)
(* A byte is a unit: the first unit of a record is its length prefix, the  *)
(* others its payload, so a record of two units can be torn.               *)
(***************************************************************************)
EXTENDS Naturals, Sequences, FiniteSets

CONSTANTS
  Events,         \* the events appended; each one is appended at most once
  RecordLen,      \* RecordLen[m]: width on disk of the frame that holds m
  SegmentBytes,   \* WalOptions.segment_bytes
  QueueCapacity,  \* WalOptions.queue_capacity
  NoEvent,        \* stands for no request
  Oversized,      \* events the codec refuses to encode (above u32::MAX)
  Poison,         \* events whose frame on disk no longer decodes (bit rot)
  TornWrites,     \* TRUE when a write(2) may be seen half done by a reader
  Faults,         \* the kinds of I/O error that may happen
  MaxFaults       \* bound on the number of I/O errors in a behaviour

ASSUME RecordLenAssumption == RecordLen \in [Events -> Nat \ {0}]
ASSUME SizesAssumption == SegmentBytes \in Nat /\ QueueCapacity \in Nat \ {0}
ASSUME FlagsAssumption ==
  /\ NoEvent \notin Events
  /\ Oversized \subseteq Events /\ Poison \subseteq Events
  /\ TornWrites \in BOOLEAN
  /\ MaxFaults \in Nat

(* types.rs: the position of a byte in the log, ordered lexicographically. *)
WalOffset == [segment_id : Nat, byte_offset : Nat]

Offset(s, b) == [segment_id |-> s, byte_offset |-> b]

(* A record of the log, with the segment that holds it, the byte where it  *)
(* starts and the one after its last (WalEntry.offset and offset_after).   *)
WalEntry == [event : Events, segment_id : Nat, start : Nat, end : Nat]

Entry(m, s, b) ==
  [event |-> m, segment_id |-> s, start |-> b, end |-> b + RecordLen[m]]

OffsetAfter(e) == Offset(e.segment_id, e.end)

(* Entry e lies wholly below offset o. *)
Below(e, o) ==
  \/ e.segment_id < o.segment_id
  \/ e.segment_id = o.segment_id /\ e.end <= o.byte_offset

-----------------------------------------------------------------------------
VARIABLES
  log,      \* the records handed to the BufWriter, flushed or not
  files,    \* files[s]: visible length of segment file s, for each existing s
  head,     \* AtomicWalOffset: the offset the writer has published
  waiter,   \* the subscription's Notified future: none, registered, notified
  writer_holds_notify,  \* the writer thread still owns its Arc<Notify>
  faults    \* number of I/O errors so far (a bound, not program state)

(* Wait state of the one reader: registered by enable(), notified by the   *)
(* writer's notify_waiters, which stores no permit.                        *)
WaiterState == {"none", "registered", "notified"}

SharedInit ==
  /\ log = {}
  /\ files = [s \in {1} |-> 0]
  /\ head = Offset(1, 0)
  /\ waiter = "none"
  /\ writer_holds_notify = TRUE
  /\ faults = 0

SharedTypeOK ==
  /\ log \subseteq WalEntry
  /\ DOMAIN files \subseteq Nat /\ files \in [DOMAIN files -> Nat]
  /\ head \in WalOffset
  /\ waiter \in WaiterState
  /\ writer_holds_notify \in BOOLEAN
  /\ faults \in Nat

(* The whole frame of e can be read back from its segment file. *)
Readable(e) ==
  e.segment_id \in DOMAIN files /\ e.end <= files[e.segment_id]

(* The operating system refuses one operation of kind f. *)
Fault(f) ==
  /\ f \in Faults
  /\ faults < MaxFaults
  /\ faults' = faults + 1

(* Notify::notify_waiters wakes whoever is registered at that instant. *)
NotifyWaiters ==
  waiter' = IF waiter = "registered" THEN "notified" ELSE waiter
=============================================================================
