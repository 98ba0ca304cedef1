--------------------------- MODULE AtomicWalOffset ---------------------------
(***************************************************************************)
(* The cell that carries the head from the writer thread to the reader: a  *)
(* seqlock over two separate atomics. One writer stores; any number of     *)
(* readers load. Every access to an atomic is a step of its own, and the   *)
(* accesses of a load or a store take effect in any order that the memory  *)
(* orderings in the code allow, as an aarch64 processor may have it:       *)
(*                                                                         *)
(*   load   the Relaxed loads of the fields follow the Acquire load of the *)
(*          start version; nothing orders them with each other or with the *)
(*          Acquire load of the end version.                               *)
(*   store  AcqRel keeps the stores of the fields behind what the first    *)
(*          increment reads, not behind what it writes; the second one     *)
(*          (Release) follows both.                                        *)
(***************************************************************************)
EXTENDS Naturals

CONSTANTS Readers, Offsets, InitialOffset,
          Positions   \* where a subscription can be that looks at the head

ASSUME AtomicWalOffsetAssumption ==
  /\ Offsets \subseteq [segment_id : Nat, byte_offset : Nat]
  /\ InitialOffset \in Offsets
  /\ Positions \subseteq [segment_id : Nat, byte_offset : Nat]

VARIABLES
  version, segment_id, byte_offset,   \* the three atomics
  spc, storing, written,              \* the store in progress
  lpc, start, seen, loaded,           \* the load of each reader
  published,  \* history: version and offset stored
  held,       \* history: the offsets stored or being stored since start
  late        \* history: the fields that the version check does not cover

storeVars == <<version, segment_id, byte_offset, spc, storing, written, published>>
vars == <<storeVars, lpc, start, seen, loaded, held, late>>

Snapshot(v, s, b) == [version |-> v, segment_id |-> s, byte_offset |-> b]

Pair(p) == [segment_id |-> p.segment_id, byte_offset |-> p.byte_offset]

Field == {"segment_id", "byte_offset"}

(* What a reader holds of the three loads after the first. *)
Seen == [segment_id : Nat, byte_offset : Nat, end : Nat]
NothingSeen == [segment_id |-> 0, byte_offset |-> 0, end |-> 0]

TypeOK ==
  /\ version \in Nat /\ segment_id \in Nat /\ byte_offset \in Nat
  /\ spc \in {"ready", "storing"}
  /\ storing \in Offsets
  /\ written \subseteq Field \cup {"version"}
  /\ lpc \in [Readers -> {"idle", "loading", "done"}]
  /\ start \in [Readers -> Nat]
  /\ seen \in [Readers -> Seen]
  /\ loaded \in [Readers -> SUBSET (Field \cup {"end"})]
  /\ published \subseteq [version : Nat, segment_id : Nat, byte_offset : Nat]
  /\ held \in [Readers -> SUBSET Offsets]
  /\ late \in [Readers -> SUBSET Field]

Init ==
  /\ version = 0
  /\ segment_id = InitialOffset.segment_id
  /\ byte_offset = InitialOffset.byte_offset
  /\ spc = "ready" /\ storing = InitialOffset /\ written = {}
  /\ lpc = [r \in Readers |-> "idle"]
  /\ start = [r \in Readers |-> 0]
  /\ seen = [r \in Readers |-> NothingSeen]
  /\ loaded = [r \in Readers |-> {}]
  /\ published = {Snapshot(0, segment_id, byte_offset)}
  /\ held = [r \in Readers |-> {InitialOffset}]
  /\ late = [r \in Readers |-> {}]

-----------------------------------------------------------------------------
(* store: fetch_add, two Relaxed stores, fetch_add. *)
StoreBegin ==
  /\ spc = "ready"
  /\ \E o \in Offsets :
       /\ storing' = o
       /\ held' = [r \in Readers |->
                    IF lpc[r] # "done" THEN held[r] \cup {o} ELSE held[r]]
  /\ spc' = "storing" /\ written' = {}
  /\ UNCHANGED <<version, segment_id, byte_offset, published, lpc, start, seen, loaded, late>>

(* Access a of the store takes effect. *)
Writes(a) ==
  /\ spc = "storing" /\ a \notin written
  /\ written' = written \cup {a}
  /\ UNCHANGED <<spc, storing, published, lpc, start, seen, loaded, held, late>>

StoreVersion ==
  /\ Writes("version")
  /\ version' = version + 1
  /\ UNCHANGED <<segment_id, byte_offset>>

StoreSegment ==
  /\ Writes("segment_id")
  /\ segment_id' = storing.segment_id
  /\ UNCHANGED <<version, byte_offset>>

(* Mutant of StoreByte: fetch_max, as if the head never went back. *)
StoreByteMax ==
  /\ Writes("byte_offset")
  /\ byte_offset' = IF storing.byte_offset > byte_offset THEN storing.byte_offset
                                                         ELSE byte_offset
  /\ UNCHANGED <<version, segment_id>>

StoreByte ==
  /\ Writes("byte_offset")
  /\ byte_offset' = storing.byte_offset
  /\ UNCHANGED <<version, segment_id>>

StoreEnd ==
  /\ spc = "storing" /\ written = Field \cup {"version"}
  /\ version' = version + 1
  /\ spc' = "ready" /\ written' = {}
  /\ published' = published \cup
       {Snapshot(version', storing.segment_id, storing.byte_offset)}
  /\ UNCHANGED <<segment_id, byte_offset, storing, lpc, start, seen, loaded, held, late>>

-----------------------------------------------------------------------------
(* A store takes effect as a whole at its second increment. *)
LatestVersion == IF "version" \in written THEN version - 1 ELSE version

PublishedAt(v) == CHOOSE p \in published : p.version = v

Latest == Pair(PublishedAt(LatestVersion))

Coming == IF spc = "storing" THEN {storing} ELSE {}

(* load: read an even version (spin while odd), the fields, the version.   *)
Even(n) == n % 2 = 0

LoadStart(r) ==
  /\ lpc[r] # "loading"
  /\ Even(version)
  /\ lpc' = [lpc EXCEPT ![r] = "loading"]
  /\ start' = [start EXCEPT ![r] = version]
  /\ loaded' = [loaded EXCEPT ![r] = {}]
  /\ held' = [held EXCEPT ![r] = {Latest} \cup Coming]
  /\ seen' = [seen EXCEPT ![r] = NothingSeen]
  /\ late' = [late EXCEPT ![r] = {}]
  /\ UNCHANGED storeVars

(* The version check cannot tell that the field is of a later store: it is *)
(* read after the check, or was written ahead of the odd version.          *)
Late(r, f) ==
  \/ "end" \in loaded[r] /\ version # start[r]
  \/ f \in written /\ "version" \notin written

Loads(r, f) ==
  /\ lpc[r] = "loading" /\ f \notin loaded[r]
  /\ loaded' = [loaded EXCEPT ![r] = @ \cup {f}]
  /\ UNCHANGED <<storeVars, lpc, start, held>>

LoadsField(r, f) ==
  /\ Loads(r, f)
  /\ late' = IF Late(r, f) THEN [late EXCEPT ![r] = @ \cup {f}] ELSE late

LoadSegment(r) ==
  /\ LoadsField(r, "segment_id")
  /\ seen' = [seen EXCEPT ![r].segment_id = segment_id]

LoadByte(r) ==
  /\ LoadsField(r, "byte_offset")
  /\ seen' = [seen EXCEPT ![r].byte_offset = byte_offset]

LoadVersion(r) ==
  /\ Loads(r, "end")
  /\ seen' = [seen EXCEPT ![r].end = version]
  /\ UNCHANGED late

LoadedAll(r) == lpc[r] = "loading" /\ loaded[r] = Field \cup {"end"}

(* Mutant of LoadReturn: the version is not compared. *)
LoadReturnUnchecked(r) ==
  /\ LoadedAll(r)
  /\ lpc' = [lpc EXCEPT ![r] = "done"]
  /\ UNCHANGED <<storeVars, start, seen, loaded, held, late>>

(* start == end: return the pair. *)
LoadReturn(r) ==
  /\ LoadedAll(r)
  /\ start[r] = seen[r].end
  /\ lpc' = [lpc EXCEPT ![r] = "done"]
  /\ UNCHANGED <<storeVars, start, seen, loaded, held, late>>

(* The version moved: spin and start over. *)
LoadRetry(r) ==
  /\ LoadedAll(r)
  /\ start[r] # seen[r].end
  /\ lpc' = [lpc EXCEPT ![r] = "idle"]
  /\ UNCHANGED <<storeVars, start, seen, loaded, held, late>>

-----------------------------------------------------------------------------
Store == StoreBegin \/ StoreVersion \/ StoreSegment \/ StoreByte \/ StoreEnd

Load(r) == \/ LoadStart(r) \/ LoadSegment(r) \/ LoadByte(r) \/ LoadVersion(r)
           \/ LoadReturn(r) \/ LoadRetry(r)

Next == Store \/ \E r \in Readers : Load(r)

Spec == Init /\ [][Next]_vars

-----------------------------------------------------------------------------
(* A load that has read both fields before its version check, and neither  *)
(* of a store that ran ahead of its version, returns the pair published    *)
(* under the version it saw: "readers observe a coherent offset snapshot"  *)
(* (writer.rs) is true of it, however stores and loads interleave.         *)
CoherentUnlessLate ==
  \A r \in Readers : lpc[r] = "done" /\ late[r] = {} =>
    Snapshot(start[r], seen[r].segment_id, seen[r].byte_offset) \in published

(* Two atomics and a version implement a cell that is read at one instant  *)
(* but for late fields: a store takes effect at its second increment, a    *)
(* load at its first read of the version it ends up with.                  *)
Cell == INSTANCE HeadCell WITH
  cell <- Latest,
  coming <- Coming,
  view <- [r \in Readers |-> Pair(PublishedAt(start[r]))],
  answer <- [r \in Readers |-> IF lpc[r] = "done" THEN {Pair(seen[r])} ELSE {}]

ImplementsCell == Cell!Spec

-----------------------------------------------------------------------------
(* What the subscription at position p makes of a head h: wait_or_advance, *)
(* and the at_active_tail of a record that does not decode.                *)
Decision(h, p) ==
  CASE h.segment_id > p.segment_id -> "advance"
    [] h.segment_id = p.segment_id /\ h.byte_offset > p.byte_offset -> "read"
    [] OTHER -> "wait"

AtTail(h, p) == h.segment_id = p.segment_id /\ p.byte_offset >= h.byte_offset

(* A load may return a head that never was, half of one store and half of  *)
(* another. The subscription does nothing on it that it would not do on a  *)
(* head that was there, or about to be, during the load: it leaves its     *)
(* segment, reads on, or skips a record only if it would for one of them;  *)
(* and it waits only if it would for the head it looked at, or if another  *)
(* store was not complete then, whose notification is still to come. True  *)
(* of a position in no later segment than any of these heads.              *)
LookIsSound ==
  \A r \in Readers, p \in Positions :
    lpc[r] = "done" /\ (\A h \in held[r] : p.segment_id <= h.segment_id) =>
      LET t == Pair(seen[r])
          view == Pair(PublishedAt(start[r]))
      IN
      /\ Decision(t, p) = "advance" => \E h \in held[r] : Decision(h, p) = "advance"
      /\ Decision(t, p) = "read" => \E h \in held[r] : Decision(h, p) # "wait"
      /\ Decision(t, p) = "wait" => Decision(view, p) = "wait" \/ held[r] # {view}
      /\ ~AtTail(t, p) => \E h \in held[r] : ~AtTail(h, p)
=============================================================================
