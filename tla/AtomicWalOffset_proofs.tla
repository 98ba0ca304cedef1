----------------------- MODULE AtomicWalOffset_proofs -----------------------
(***************************************************************************)
(* What the seqlock guarantees in every order that the memory orderings    *)
(* allow, whatever the offsets and however many readers there are.         *)
(***************************************************************************)
EXTENDS AtomicWalOffset, TLAPS

(* What the head was when the load of r began. *)
View(r) == Pair(PublishedAt(start[r]))

(* One pair for each even version up to the latest. *)
PublishedInv ==
  /\ \A p, q \in published : p.version = q.version => p = q
  /\ \A p \in published : p.version <= LatestVersion
  /\ \E p \in published : p.version = LatestVersion

(* The version is odd once the first increment of a store is written, and  *)
(* each field holds the latest pair until the store writes it.             *)
StoreInv ==
  /\ spc = "ready" => written = {}
  /\ "version" \in written <=> ~Even(version)
  /\ Latest \in Offsets
  /\ segment_id = IF "segment_id" \in written THEN storing.segment_id
                                              ELSE Latest.segment_id
  /\ byte_offset = IF "byte_offset" \in written THEN storing.byte_offset
                                                ELSE Latest.byte_offset

(* The check of the load has passed, or would if it were made now. *)
Unmoved(r) ==
  IF "end" \in loaded[r] THEN seen[r].end = start[r] ELSE version = start[r]

(* A field that was read is one of an offset held since; and one that is   *)
(* not late is that of the first look, if the version has not moved.       *)
SegmentInv(r) ==
  "segment_id" \in loaded[r] =>
    /\ \E h \in held[r] : seen[r].segment_id = h.segment_id
    /\ "segment_id" \notin late[r] /\ Unmoved(r) =>
         seen[r].segment_id = View(r).segment_id

ByteInv(r) ==
  "byte_offset" \in loaded[r] =>
    /\ \E h \in held[r] : seen[r].byte_offset = h.byte_offset
    /\ "byte_offset" \notin late[r] /\ Unmoved(r) =>
         seen[r].byte_offset = View(r).byte_offset

LookInv(r) ==
  /\ \E p \in published : p.version = start[r]
  /\ View(r) \in held[r]
  /\ lpc[r] # "done" => {Latest} \cup Coming \subseteq held[r]
  /\ lpc[r] = "done" => loaded[r] = Field \cup {"end"} /\ seen[r].end = start[r]

LoadInv(r) == LookInv(r) /\ SegmentInv(r) /\ ByteInv(r)

IInv == TypeOK /\ PublishedInv /\ StoreInv /\ \A r \in Readers : LoadInv(r)

-----------------------------------------------------------------------------
(* Adding one flips the parity. *)
LEMMA EvenStep ==
  ASSUME NEW n \in Nat
  PROVE  Even(n + 1) <=> ~Even(n)
BY DEF Even

LEMMA LatestType ==
  ASSUME TypeOK, StoreInv
  PROVE  /\ LatestVersion \in Nat /\ LatestVersion <= version
         /\ "version" \notin written => LatestVersion = version
         /\ "version" \in written => LatestVersion + 1 = version
<1>1. version \in Nat /\ ("version" \in written => version # 0)
  BY DEF TypeOK, StoreInv, Even
<1>2. QED
  BY <1>1 DEF LatestVersion

LEMMA OnePublished ==
  ASSUME PublishedInv, NEW p \in published
  PROVE  PublishedAt(p.version) = p
BY DEF PublishedInv, PublishedAt

LEMMA OnePublishedNext ==
  ASSUME PublishedInv', NEW p \in published'
  PROVE  PublishedAt(p.version)' = p
BY DEF PublishedInv, PublishedAt

(* What is published under a version stays. *)
LEMMA ViewStays ==
  ASSUME PublishedInv, PublishedInv', published \subseteq published',
         NEW r \in Readers, start'[r] = start[r],
         \E p \in published : p.version = start[r]
  PROVE  View(r)' = View(r)
<1>1. PICK p \in published : p.version = start[r]
  OBVIOUS
<1>2. PublishedAt(start[r]) = p
  BY <1>1, OnePublished
<1>3. p \in published' /\ start'[r] = p.version
  BY <1>1
<1>4. PublishedAt(start[r])' = p
  BY <1>3, OnePublishedNext
<1>5. QED
  BY <1>2, <1>4 DEF View, Pair

LEMMA LatestStays ==
  ASSUME UNCHANGED <<published, LatestVersion>>
  PROVE  UNCHANGED Latest
BY DEF Latest, PublishedAt, Pair

LEMMA InitIInv == Init => IInv
<1> SUFFICES ASSUME Init PROVE IInv
  OBVIOUS
<1> DEFINE first == Snapshot(0, segment_id, byte_offset)
<1>1. /\ published = {first} /\ first.version = 0 /\ LatestVersion = 0
      /\ \A r \in Readers : start[r] = 0
  BY DEF Init, Snapshot, LatestVersion
<1>2. PublishedInv
  BY <1>1 DEF PublishedInv
<1>3. PublishedAt(0) = first
  BY <1>1, <1>2, OnePublished
<1>4. Latest = InitialOffset /\ \A r \in Readers : View(r) = InitialOffset
  BY <1>1, <1>3, AtomicWalOffsetAssumption DEF Init, Latest, View, Pair, Snapshot
<1>5. TypeOK
  BY AtomicWalOffsetAssumption DEF Init, TypeOK, Seen, NothingSeen, Snapshot
<1>6. StoreInv
  BY <1>4, AtomicWalOffsetAssumption DEF Init, StoreInv, Even
<1>7. \A r \in Readers : LoadInv(r)
  BY <1>1, <1>4 DEF Init, LoadInv, LookInv, SegmentInv, ByteInv, Coming
<1>8. QED
  BY <1>2, <1>5, <1>6, <1>7 DEF IInv

-----------------------------------------------------------------------------
LEMMA TypeStep ==
  ASSUME TypeOK, StoreInv, [Next]_vars
  PROVE  TypeOK'
<1> USE AtomicWalOffsetAssumption DEF TypeOK, storeVars, Field
<1>1. CASE StoreBegin
  BY <1>1 DEF StoreBegin
<1>2. CASE StoreVersion \/ StoreSegment \/ StoreByte
  <2>1. CASE StoreVersion
    BY <2>1 DEF StoreVersion, Writes
  <2>2. CASE StoreSegment
    BY <2>2 DEF StoreSegment, Writes
  <2>3. CASE StoreByte
    BY <2>3 DEF StoreByte, Writes
  <2>4. QED
    BY <1>2, <2>1, <2>2, <2>3
<1>3. CASE StoreEnd
  BY <1>3 DEF StoreEnd, Snapshot
<1>4. ASSUME NEW r \in Readers, Load(r) PROVE TypeOK'
  <2>1. CASE LoadStart(r)
    BY <2>1 DEF LoadStart, StoreInv, Coming, Seen, NothingSeen
  <2>2. CASE LoadSegment(r)
    BY <2>2 DEF LoadSegment, LoadsField, Loads, Seen
  <2>3. CASE LoadByte(r)
    BY <2>3 DEF LoadByte, LoadsField, Loads, Seen
  <2>4. CASE LoadVersion(r)
    BY <2>4 DEF LoadVersion, Loads, Seen
  <2>5. CASE LoadReturn(r) \/ LoadRetry(r)
    BY <2>5 DEF LoadReturn, LoadRetry
  <2>6. QED
    BY <1>4, <2>1, <2>2, <2>3, <2>4, <2>5 DEF Load
<1>5. CASE UNCHANGED vars
  BY <1>5 DEF vars
<1>6. QED
  BY <1>1, <1>2, <1>3, <1>4, <1>5 DEF Next, Store

(* A step of the store up to its second increment publishes nothing. *)
LEMMA StoreKeeps ==
  ASSUME IInv, StoreBegin \/ StoreVersion \/ StoreSegment \/ StoreByte
  PROVE  /\ UNCHANGED <<published, LatestVersion, Latest, lpc, start, seen, loaded, late>>
         /\ PublishedInv'
         /\ \A r \in Readers : View(r)' = View(r)
<1>1. UNCHANGED <<published, lpc, start, seen, loaded, late>>
  BY DEF StoreBegin, StoreVersion, StoreSegment, StoreByte, Writes
<1>2. UNCHANGED LatestVersion
  <2>1. CASE StoreBegin
    <3>1. "version" \notin written /\ "version" \notin written'
      BY <2>1 DEF StoreBegin, IInv, StoreInv
    <3>2. QED
      BY <2>1, <3>1 DEF StoreBegin, LatestVersion
  <2>2. CASE StoreVersion
    <3>1. version \in Nat /\ "version" \notin written /\ "version" \in written'
          /\ version' = version + 1
      BY <2>2 DEF StoreVersion, Writes, IInv, TypeOK
    <3>2. QED
      BY <3>1 DEF LatestVersion
  <2>3. CASE StoreSegment \/ StoreByte
    BY <2>3 DEF StoreSegment, StoreByte, Writes, LatestVersion
  <2>4. QED
    BY <2>1, <2>2, <2>3
<1>3. UNCHANGED Latest
  BY <1>1, <1>2, LatestStays
<1>4. PublishedInv'
  BY <1>1, <1>2 DEF IInv, PublishedInv
<1>5. \A r \in Readers : View(r)' = View(r)
  BY <1>1 DEF View, PublishedAt, Pair
<1>6. QED
  BY <1>1, <1>2, <1>3, <1>4, <1>5

LEMMA StoreStep ==
  ASSUME IInv, StoreBegin \/ StoreVersion \/ StoreSegment \/ StoreByte
  PROVE  PublishedInv' /\ StoreInv' /\ \A r \in Readers : LoadInv(r)'
<1> USE StoreKeeps
<1>1. StoreInv'
  <2>1. CASE StoreBegin
    BY <2>1 DEF StoreBegin, IInv, StoreInv
  <2>2. CASE StoreVersion
    BY <2>2, EvenStep DEF StoreVersion, Writes, IInv, TypeOK, StoreInv
  <2>3. CASE StoreSegment
    BY <2>3 DEF StoreSegment, Writes, IInv, StoreInv
  <2>4. CASE StoreByte
    BY <2>4 DEF StoreByte, Writes, IInv, StoreInv
  <2>5. QED
    BY <2>1, <2>2, <2>3, <2>4
<1>2. ASSUME NEW r \in Readers PROVE LoadInv(r)'
  <2>1. held[r] \subseteq held'[r]
    BY DEF StoreBegin, StoreVersion, StoreSegment, StoreByte, Writes
  <2>2. lpc[r] # "done" => Coming' \subseteq held'[r]
    BY DEF StoreBegin, StoreVersion, StoreSegment, StoreByte, Writes, Coming,
           IInv, LoadInv, LookInv
  <2>3. LookInv(r)'
    BY <2>1, <2>2 DEF IInv, LoadInv, LookInv
  <2>4. Unmoved(r)' => Unmoved(r)
    <3>1. version' = version \/ version' = version + 1
      BY DEF StoreBegin, StoreVersion, StoreSegment, StoreByte, Writes
    <3>2. start[r] \in Nat /\ version \in Nat /\ start[r] <= version
      BY LatestType DEF IInv, TypeOK, LoadInv, LookInv, PublishedInv
    <3>3. QED
      BY <3>1, <3>2 DEF Unmoved
  <2>5. SegmentInv(r)'
    BY <2>1, <2>4 DEF IInv, LoadInv, SegmentInv
  <2>6. ByteInv(r)'
    BY <2>1, <2>4 DEF IInv, LoadInv, ByteInv
  <2>7. QED
    BY <2>3, <2>5, <2>6 DEF LoadInv
<1>3. QED
  BY <1>1, <1>2

(* The second increment publishes what the store has written, in both      *)
(* fields, whatever the order in which it wrote them.                      *)
LEMMA EndPublishes ==
  ASSUME IInv, StoreEnd
  PROVE  /\ LatestVersion' = version + 1 /\ LatestVersion + 1 = version
         /\ published' = published \cup
              {[version |-> version + 1, segment_id |-> storing.segment_id,
                byte_offset |-> storing.byte_offset]}
         /\ PublishedInv' /\ Latest' = storing /\ storing \in Offsets
         /\ UNCHANGED <<lpc, start, seen, loaded, held, late>>
<1> DEFINE new == [version |-> version + 1, segment_id |-> storing.segment_id,
                   byte_offset |-> storing.byte_offset]
<1>1. /\ LatestVersion' = version + 1 /\ LatestVersion + 1 = version
      /\ version \in Nat /\ LatestVersion \in Nat
  BY LatestType DEF StoreEnd, LatestVersion, Field, IInv, TypeOK
<1>2. published' = published \cup {new}
  BY DEF StoreEnd, Snapshot, Field, IInv, StoreInv
<1>3. \A p \in published : p.version \in Nat /\ p.version < version + 1
  BY <1>1 DEF IInv, PublishedInv, TypeOK
<1>4. new.version = version + 1 /\ new \in published'
  BY <1>2
<1>5. Pair(new) = storing
  BY AtomicWalOffsetAssumption DEF Pair, IInv, TypeOK
<1> HIDE DEF new
<1>6. \A p, q \in published' : p.version = q.version => p = q
  BY <1>2, <1>3, <1>4 DEF IInv, PublishedInv
<1>7. \A p \in published' : p.version <= LatestVersion'
  BY <1>1, <1>2, <1>3, <1>4
<1>8. PublishedInv'
  BY <1>1, <1>4, <1>6, <1>7 DEF PublishedInv
<1>9. PublishedAt(LatestVersion)' = new
  BY <1>1, <1>4, <1>8, OnePublishedNext
<1>10. Latest' = storing
  BY <1>5, <1>9 DEF Latest, Pair
<1>11. QED
  BY <1>1, <1>2, <1>8, <1>10 DEF StoreEnd, IInv, TypeOK, new

LEMMA EndStep ==
  ASSUME IInv, StoreEnd
  PROVE  PublishedInv' /\ StoreInv' /\ \A r \in Readers : LoadInv(r)'
<1> USE EndPublishes
<1>1. StoreInv'
  <2>1. ~Even(version) /\ Even(version')
    BY EvenStep DEF StoreEnd, Field, IInv, TypeOK, StoreInv
  <2>2. QED
    BY <2>1 DEF StoreEnd, Field, IInv, StoreInv
<1>2. ASSUME NEW r \in Readers PROVE LoadInv(r)'
  <2>1. \E p \in published : p.version = start[r]
    BY DEF IInv, LoadInv, LookInv
  <2>2. View(r)' = View(r)
    BY <2>1, ViewStays DEF IInv
  <2>3. Coming = {storing} /\ Coming' = {}
    BY DEF StoreEnd, Coming
  <2>4. LookInv(r)'
    BY <2>1, <2>2, <2>3 DEF IInv, LoadInv, LookInv
  <2>5. Unmoved(r)' => Unmoved(r)
    <3>1. start[r] \in Nat /\ version \in Nat /\ start[r] <= version
      BY LatestType DEF IInv, TypeOK, LoadInv, LookInv, PublishedInv
    <3>2. version' = version + 1
      BY DEF StoreEnd
    <3>3. QED
      BY <3>1, <3>2 DEF Unmoved
  <2>6. SegmentInv(r)'
    BY <2>2, <2>5 DEF IInv, LoadInv, SegmentInv
  <2>7. ByteInv(r)'
    BY <2>2, <2>5 DEF IInv, LoadInv, ByteInv
  <2>8. QED
    BY <2>4, <2>6, <2>7 DEF LoadInv
<1>3. QED
  BY <1>1, <1>2

-----------------------------------------------------------------------------
(* What a load does to its own reader it does not do to another. *)
LEMMA OtherLoads ==
  ASSUME IInv, UNCHANGED storeVars, NEW r \in Readers,
         lpc'[r] = lpc[r], start'[r] = start[r], seen'[r] = seen[r],
         loaded'[r] = loaded[r], held'[r] = held[r], late'[r] = late[r]
  PROVE  LoadInv(r)'
<1>1. UNCHANGED <<Latest, Coming>> /\ View(r)' = View(r) /\ Unmoved(r)' = Unmoved(r)
  BY DEF storeVars, Latest, Coming, View, Unmoved, Pair, PublishedAt, LatestVersion
<1>2. QED
  BY <1>1 DEF storeVars, IInv, LoadInv, LookInv, SegmentInv, ByteInv

(* A field of the latest pair or of the store in progress is a field of an  *)
(* offset held; and one that is not late, read under the version the load   *)
(* started from, is the latest, which is what the load looked at.           *)
LEMMA FieldsRead ==
  ASSUME IInv, NEW r \in Readers, lpc[r] = "loading"
  PROVE  /\ \E h \in held[r] : segment_id = h.segment_id
         /\ \E h \in held[r] : byte_offset = h.byte_offset
         /\ version = start[r] =>
              /\ "version" \notin written
              /\ "segment_id" \notin written => segment_id = View(r).segment_id
              /\ "byte_offset" \notin written => byte_offset = View(r).byte_offset
<1>1. Latest \in held[r] /\ (written # {} => storing \in held[r])
  BY DEF IInv, TypeOK, StoreInv, LoadInv, LookInv, Coming
<1>2. ASSUME version = start[r] PROVE "version" \notin written /\ Latest = View(r)
  <2>1. PICK p \in published : p.version = version
    BY <1>2 DEF IInv, LoadInv, LookInv
  <2>2. version <= LatestVersion
    BY <2>1 DEF IInv, PublishedInv
  <2>3. "version" \notin written /\ LatestVersion = version
    BY <2>2, LatestType DEF IInv
  <2>4. QED
    BY <1>2, <2>3 DEF Latest, View
<1>3. QED
  BY <1>1, <1>2 DEF IInv, StoreInv

LEMMA LoadStartStep ==
  ASSUME IInv, NEW q \in Readers, LoadStart(q)
  PROVE  /\ UNCHANGED <<storeVars, Latest, Coming, LatestVersion>>
         /\ View(q)' = Latest /\ LoadInv(q)'
<1>1. "version" \notin written /\ LatestVersion = version
  BY LatestType DEF LoadStart, IInv, StoreInv
<1>2. UNCHANGED <<storeVars, Latest, Coming, LatestVersion>>
  BY DEF LoadStart, storeVars, Latest, Coming, Pair, PublishedAt, LatestVersion
<1>3. /\ start'[q] = version /\ lpc'[q] = "loading" /\ loaded'[q] = {}
      /\ held'[q] = {Latest} \cup Coming
  BY DEF LoadStart, IInv, TypeOK
<1>4. View(q)' = Latest
  BY <1>1, <1>2, <1>3 DEF storeVars, View, Latest, Pair, PublishedAt
<1>5. LookInv(q)'
  <2>1. \E p \in published : p.version = version
    BY <1>1 DEF IInv, PublishedInv
  <2>2. QED
    BY <1>2, <1>3, <1>4, <2>1 DEF storeVars, LookInv
<1>6. SegmentInv(q)' /\ ByteInv(q)'
  BY <1>3 DEF SegmentInv, ByteInv
<1>7. QED
  BY <1>2, <1>4, <1>5, <1>6 DEF LoadInv

(* A load that is on its way does not move what it looked at. *)
LEMMA LookStays ==
  ASSUME IInv, NEW q \in Readers, UNCHANGED <<storeVars, start, held>>,
         lpc[q] # "done", lpc'[q] # "done"
  PROVE  /\ UNCHANGED <<Latest, Coming>> /\ View(q)' = View(q) /\ LookInv(q)'
<1>1. UNCHANGED <<Latest, Coming>> /\ View(q)' = View(q)
  BY DEF storeVars, Latest, Coming, View, Pair, PublishedAt, LatestVersion
<1>2. QED
  BY <1>1 DEF storeVars, IInv, LoadInv, LookInv

(* A field that is not late was read under the version the load began with,*)
(* if the check passes.                                                    *)
LEMMA FieldInTime ==
  ASSUME IInv, NEW q \in Readers, NEW f \in Field, LoadsField(q, f), f \notin late'[q],
         seen'[q].end = seen[q].end
  PROVE  /\ Unmoved(q)' => version = start[q]
         /\ version = start[q] => f \notin written
<1>1. ~Late(q, f)
  BY DEF LoadsField, IInv, TypeOK
<1>2. "end" \in loaded[q] => version = start[q]
  BY <1>1 DEF Late
<1>3. f \in written => "version" \in written
  BY <1>1 DEF Late
<1>4. loaded'[q] = loaded[q] \cup {f} /\ f # "end" /\ UNCHANGED <<version, start>>
  BY DEF LoadsField, Loads, Field, IInv, TypeOK, storeVars
<1>5. Unmoved(q)' => version = start[q]
  BY <1>2, <1>4 DEF Unmoved
<1>6. version = start[q] => f \notin written
  BY <1>3, FieldsRead DEF LoadsField, Loads
<1>7. QED
  BY <1>5, <1>6

LEMMA LoadSegmentStep ==
  ASSUME IInv, NEW q \in Readers, LoadSegment(q)
  PROVE  LoadInv(q)'
<1>1. /\ lpc[q] = "loading" /\ UNCHANGED <<storeVars, lpc, start, held>>
      /\ loaded'[q] = loaded[q] \cup {"segment_id"}
      /\ seen'[q].segment_id = segment_id /\ seen'[q].byte_offset = seen[q].byte_offset
      /\ seen'[q].end = seen[q].end
  BY DEF LoadSegment, LoadsField, Loads, IInv, TypeOK, Seen
<1>2. LookInv(q)' /\ View(q)' = View(q)
  BY <1>1, LookStays
<1>3. SegmentInv(q)'
  <2>1. \E h \in held[q] : segment_id = h.segment_id
    BY <1>1, FieldsRead
  <2>2. ASSUME "segment_id" \notin late'[q], Unmoved(q)'
        PROVE  segment_id = View(q).segment_id
    <3>1. version = start[q] /\ "segment_id" \notin written
      BY <1>1, <2>2, FieldInTime DEF LoadSegment, Field
    <3>2. QED
      BY <1>1, <3>1, FieldsRead
  <2>3. QED
    BY <1>1, <1>2, <2>1, <2>2 DEF SegmentInv
<1>4. ByteInv(q)'
  <2>1. "byte_offset" \in late'[q] <=> "byte_offset" \in late[q]
    BY DEF LoadSegment, LoadsField, IInv, TypeOK
  <2>2. Unmoved(q)' <=> Unmoved(q)
    BY <1>1 DEF Unmoved, storeVars
  <2>3. "byte_offset" \in loaded'[q] <=> "byte_offset" \in loaded[q]
    BY <1>1
  <2>4. QED
    BY <1>1, <1>2, <2>1, <2>2, <2>3 DEF IInv, LoadInv, ByteInv
<1>5. QED
  BY <1>2, <1>3, <1>4 DEF LoadInv

LEMMA LoadByteStep ==
  ASSUME IInv, NEW q \in Readers, LoadByte(q)
  PROVE  LoadInv(q)'
<1>1. /\ lpc[q] = "loading" /\ UNCHANGED <<storeVars, lpc, start, held>>
      /\ loaded'[q] = loaded[q] \cup {"byte_offset"}
      /\ seen'[q].byte_offset = byte_offset /\ seen'[q].segment_id = seen[q].segment_id
      /\ seen'[q].end = seen[q].end
  BY DEF LoadByte, LoadsField, Loads, IInv, TypeOK, Seen
<1>2. LookInv(q)' /\ View(q)' = View(q)
  BY <1>1, LookStays
<1>3. ByteInv(q)'
  <2>1. \E h \in held[q] : byte_offset = h.byte_offset
    BY <1>1, FieldsRead
  <2>2. ASSUME "byte_offset" \notin late'[q], Unmoved(q)'
        PROVE  byte_offset = View(q).byte_offset
    <3>1. version = start[q] /\ "byte_offset" \notin written
      BY <1>1, <2>2, FieldInTime DEF LoadByte, Field
    <3>2. QED
      BY <1>1, <3>1, FieldsRead
  <2>3. QED
    BY <1>1, <1>2, <2>1, <2>2 DEF ByteInv
<1>4. SegmentInv(q)'
  <2>1. "segment_id" \in late'[q] <=> "segment_id" \in late[q]
    BY DEF LoadByte, LoadsField, IInv, TypeOK
  <2>2. Unmoved(q)' <=> Unmoved(q)
    BY <1>1 DEF Unmoved, storeVars
  <2>3. "segment_id" \in loaded'[q] <=> "segment_id" \in loaded[q]
    BY <1>1
  <2>4. QED
    BY <1>1, <1>2, <2>1, <2>2, <2>3 DEF IInv, LoadInv, SegmentInv
<1>5. QED
  BY <1>2, <1>3, <1>4 DEF LoadInv

LEMMA LoadVersionStep ==
  ASSUME IInv, NEW q \in Readers, LoadVersion(q)
  PROVE  LoadInv(q)'
<1>1. /\ lpc[q] = "loading" /\ UNCHANGED <<storeVars, lpc, start, held, late>>
      /\ "end" \notin loaded[q] /\ loaded'[q] = loaded[q] \cup {"end"}
      /\ seen'[q].segment_id = seen[q].segment_id
      /\ seen'[q].byte_offset = seen[q].byte_offset /\ seen'[q].end = version
  BY DEF LoadVersion, Loads, IInv, TypeOK, Seen
<1>2. LookInv(q)' /\ View(q)' = View(q)
  BY <1>1, LookStays
<1>3. Unmoved(q)' => Unmoved(q)
  BY <1>1 DEF Unmoved
<1>4. SegmentInv(q)' /\ ByteInv(q)'
  BY <1>1, <1>2, <1>3 DEF IInv, LoadInv, SegmentInv, ByteInv
<1>5. QED
  BY <1>2, <1>4 DEF LoadInv

LEMMA LoadEndStep ==
  ASSUME IInv, NEW q \in Readers, LoadReturn(q) \/ LoadRetry(q)
  PROVE  LoadInv(q)'
<1>1. /\ UNCHANGED <<storeVars, start, held, late, loaded, seen>> /\ lpc[q] # "done"
      /\ LoadReturn(q) =>
           loaded[q] = Field \cup {"end"} /\ seen[q].end = start[q]
      /\ LoadRetry(q) => lpc'[q] = "idle"
  BY DEF LoadReturn, LoadRetry, LoadedAll, IInv, TypeOK
<1>2. UNCHANGED <<Latest, Coming>> /\ View(q)' = View(q) /\ Unmoved(q)' = Unmoved(q)
  BY <1>1 DEF storeVars, Latest, Coming, View, Unmoved, Pair, PublishedAt, LatestVersion
<1>3. LookInv(q)'
  BY <1>1, <1>2 DEF storeVars, IInv, LoadInv, LookInv
<1>4. QED
  BY <1>1, <1>2, <1>3 DEF IInv, LoadInv, SegmentInv, ByteInv

LEMMA LoadStep ==
  ASSUME IInv, NEW q \in Readers, Load(q)
  PROVE  PublishedInv' /\ StoreInv' /\ \A r \in Readers : LoadInv(r)'
<1>1. UNCHANGED storeVars
  BY DEF Load, LoadStart, LoadSegment, LoadByte, LoadsField, LoadVersion, Loads,
         LoadReturn, LoadRetry
<1>2. PublishedInv' /\ StoreInv'
  BY <1>1 DEF storeVars, IInv, PublishedInv, StoreInv, Latest, Pair, PublishedAt,
              LatestVersion
<1>3. LoadInv(q)'
  BY LoadStartStep, LoadSegmentStep, LoadByteStep, LoadVersionStep, LoadEndStep DEF Load
<1>4. ASSUME NEW r \in Readers, r # q PROVE LoadInv(r)'
  <2>1. /\ lpc'[r] = lpc[r] /\ start'[r] = start[r] /\ seen'[r] = seen[r]
        /\ loaded'[r] = loaded[r] /\ held'[r] = held[r] /\ late'[r] = late[r]
    BY <1>4 DEF Load, LoadStart, LoadSegment, LoadByte, LoadsField, LoadVersion, Loads,
                LoadReturn, LoadRetry, IInv, TypeOK
  <2>2. QED
    BY <1>1, <2>1, OtherLoads
<1>5. QED
  BY <1>2, <1>3, <1>4

LEMMA StepIInv ==
  ASSUME IInv, [Next]_vars
  PROVE  IInv'
<1>1. TypeOK'
  BY TypeStep DEF IInv
<1>2. PublishedInv' /\ StoreInv' /\ \A r \in Readers : LoadInv(r)'
  <2>1. CASE Store
    BY <2>1, StoreStep, EndStep DEF Store
  <2>2. CASE \E q \in Readers : Load(q)
    BY <2>2, LoadStep
  <2>3. CASE UNCHANGED vars
    <3>1. UNCHANGED <<storeVars, lpc, start, seen, loaded, held, late>>
      BY <2>3 DEF vars
    <3>2. PublishedInv' /\ StoreInv'
      BY <3>1 DEF storeVars, IInv, PublishedInv, StoreInv, Latest, Pair, PublishedAt,
                  LatestVersion
    <3>3. QED
      BY <3>1, <3>2, OtherLoads
  <2>4. QED
    BY <2>1, <2>2, <2>3 DEF Next
<1>3. QED
  BY <1>1, <1>2 DEF IInv

(* A load whose fields the version check covers never returns half of one   *)
(* store and half of another, in any order that the memory orderings leave  *)
(* its accesses and those of the store: AtomicWalOffset::load then hands    *)
(* out exactly what the store of the version it saw wrote.                  *)
THEOREM SeqlockIsCoherent == Spec => []CoherentUnlessLate
<1>1. IInv => CoherentUnlessLate
  <2> SUFFICES ASSUME IInv, NEW r \in Readers, lpc[r] = "done", late[r] = {}
               PROVE  Snapshot(start[r], seen[r].segment_id, seen[r].byte_offset)
                        \in published
    BY DEF CoherentUnlessLate
  <2>1. PICK p \in published : p.version = start[r]
    BY DEF IInv, LoadInv, LookInv
  <2>2. View(r) = Pair(p)
    BY <2>1, OnePublished DEF View, IInv
  <2>3. seen[r].segment_id = View(r).segment_id /\ seen[r].byte_offset = View(r).byte_offset
    BY DEF IInv, LoadInv, LookInv, SegmentInv, ByteInv, Unmoved, Field
  <2>4. p = Snapshot(start[r], seen[r].segment_id, seen[r].byte_offset)
    BY <2>1, <2>2, <2>3 DEF Pair, Snapshot, IInv, TypeOK
  <2>5. QED
    BY <2>4
<1>2. IInv /\ [Next]_vars => IInv'
  BY StepIInv
<1>3. QED
  BY <1>1, <1>2, InitIInv, PTL DEF Spec

(* A head that AtomicWalOffset::load puts together from two stores makes    *)
(* WalSubscription do nothing that it would not do on a head that was there *)
(* during the load, and wait only for a store that it was still to be woken *)
(* by: whatever the offsets are and wherever the subscription stands, as    *)
(* long as that is in no segment after those heads.                         *)
THEOREM LooksAreSound == Spec => []LookIsSound
<1>1. IInv => LookIsSound
  <2> SUFFICES ASSUME IInv, NEW r \in Readers, NEW p \in Positions, lpc[r] = "done",
                      \A h \in held[r] : p.segment_id <= h.segment_id,
                      NEW t, t = Pair(seen[r]), NEW view, view = View(r)
               PROVE  /\ Decision(t, p) = "advance" =>
                           \E h \in held[r] : Decision(h, p) = "advance"
                      /\ Decision(t, p) = "read" => \E h \in held[r] : Decision(h, p) # "wait"
                      /\ Decision(t, p) = "wait" =>
                           Decision(view, p) = "wait" \/ held[r] # {view}
                      /\ ~AtTail(t, p) => \E h \in held[r] : ~AtTail(h, p)
    BY DEF LookIsSound, View
  <2>1. PICK hs \in held[r] : t.segment_id = hs.segment_id
    BY DEF IInv, LoadInv, LookInv, SegmentInv, Field, Pair
  <2>2. PICK hb \in held[r] : t.byte_offset = hb.byte_offset
    BY DEF IInv, LoadInv, LookInv, ByteInv, Field, Pair
  <2>3. /\ \A h \in held[r] : h.segment_id \in Nat /\ h.byte_offset \in Nat
        /\ p.segment_id \in Nat /\ p.byte_offset \in Nat
    BY AtomicWalOffsetAssumption DEF IInv, TypeOK
  <2>4. CASE t.segment_id > p.segment_id
    BY <2>1, <2>3, <2>4 DEF Decision, AtTail
  <2>5. CASE t.segment_id = p.segment_id /\ t.byte_offset > p.byte_offset
    BY <2>1, <2>2, <2>3, <2>5 DEF Decision, AtTail
  <2>6. CASE t.segment_id = p.segment_id /\ t.byte_offset <= p.byte_offset
    <3>1. Decision(t, p) = "wait" /\ AtTail(t, p)
      BY <2>2, <2>3, <2>6 DEF Decision, AtTail
    <3>2. ASSUME held[r] = {view} PROVE Decision(view, p) = "wait"
      <4>1. hs = view /\ hb = view
        BY <3>2
      <4>2. view.segment_id = p.segment_id /\ view.byte_offset <= p.byte_offset
        BY <2>1, <2>2, <2>6, <4>1
      <4>3. QED
        BY <2>3, <4>1, <4>2 DEF Decision
    <3>3. QED
      BY <3>1, <3>2
  <2>7. QED
    BY <2>1, <2>2, <2>3, <2>4, <2>5, <2>6
<1>2. IInv /\ [Next]_vars => IInv'
  BY StepIInv
<1>3. QED
  BY <1>1, <1>2, InitIInv, PTL DEF Spec

-----------------------------------------------------------------------------
CellStep == [Cell!Next]_(Cell!vars)

ViewNow == [r \in Readers |-> View(r)]
AnswerNow == [r \in Readers |-> IF lpc[r] = "done" THEN {Pair(seen[r])} ELSE {}]

LEMMA IsCellStutter ==
  ASSUME UNCHANGED <<Latest, Coming, ViewNow, held, late, AnswerNow>>
  PROVE  CellStep
BY DEF CellStep, Cell!vars, ViewNow, View, AnswerNow

LEMMA IsBegin ==
  ASSUME NEW o \in Offsets, Coming = {}, Coming' = {o},
         held' = [r \in Readers |-> IF AnswerNow[r] = {} THEN held[r] \cup {o} ELSE held[r]],
         UNCHANGED <<Latest, ViewNow, late, AnswerNow>>
  PROVE  CellStep
BY DEF CellStep, Cell!Next, Cell!Begin, ViewNow, View, AnswerNow

LEMMA IsCellStore ==
  ASSUME Coming = {Latest'}, Coming' = {}, UNCHANGED <<ViewNow, held, late, AnswerNow>>
  PROVE  CellStep
BY DEF CellStep, Cell!Next, Cell!Store, ViewNow, View, AnswerNow

LEMMA IsLook ==
  ASSUME NEW q \in Readers, UNCHANGED <<Latest, Coming>>,
         ViewNow' = [ViewNow EXCEPT ![q] = Latest],
         held' = [held EXCEPT ![q] = {Latest} \cup Coming],
         late' = [late EXCEPT ![q] = {}],
         AnswerNow' = [AnswerNow EXCEPT ![q] = {}]
  PROVE  CellStep
BY DEF CellStep, Cell!Next, Cell!Look, ViewNow, View, AnswerNow

LEMMA IsMiss ==
  ASSUME NEW q \in Readers, NEW f \in Field, AnswerNow[q] = {},
         late' = [late EXCEPT ![q] = @ \cup {f}],
         UNCHANGED <<Latest, Coming, ViewNow, held, AnswerNow>>
  PROVE  CellStep
BY DEF CellStep, Cell!Next, Cell!Miss, ViewNow, View, AnswerNow, Field

LEMMA IsReturn ==
  ASSUME NEW q \in Readers, AnswerNow[q] = {}, NEW s, NEW b,
         s \in (IF "segment_id" \in late[q] THEN held[q] ELSE {ViewNow[q]}),
         b \in (IF "byte_offset" \in late[q] THEN held[q] ELSE {ViewNow[q]}),
         AnswerNow' = [AnswerNow EXCEPT ![q] =
                        {[segment_id |-> s.segment_id, byte_offset |-> b.byte_offset]}],
         UNCHANGED <<Latest, Coming, ViewNow, held, late>>
  PROVE  CellStep
BY DEF CellStep, Cell!Next, Cell!Return, Cell!Source, ViewNow, View, AnswerNow

(* What a load does while it is on its way shows in late at most. *)
LEMMA LoadFieldIsCellStep ==
  ASSUME IInv, NEW q \in Readers, NEW f \in Field, LoadsField(q, f),
         \A r \in Readers : r # q => seen'[r] = seen[r]
  PROVE  CellStep
<1>1. UNCHANGED <<Latest, Coming, ViewNow, held>> /\ lpc[q] = "loading" /\ UNCHANGED lpc
  BY DEF LoadsField, Loads, storeVars, Latest, Coming, ViewNow, View, Pair, PublishedAt,
         LatestVersion
<1>2. UNCHANGED AnswerNow /\ AnswerNow[q] = {}
  BY <1>1 DEF AnswerNow, Pair
<1>3. UNCHANGED late \/ late' = [late EXCEPT ![q] = @ \cup {f}]
  BY DEF LoadsField
<1>4. QED
  BY <1>1, <1>2, <1>3, IsCellStutter, IsMiss

LEMMA LoadReturnIsCellStep ==
  ASSUME IInv, NEW q \in Readers, LoadReturn(q)
  PROVE  CellStep
<1>1. /\ UNCHANGED <<storeVars, start, held, late, loaded, seen>> /\ lpc[q] = "loading"
      /\ lpc' = [lpc EXCEPT ![q] = "done"]
      /\ loaded[q] = Field \cup {"end"} /\ seen[q].end = start[q]
  BY DEF LoadReturn, LoadedAll
<1>2. UNCHANGED <<Latest, Coming, ViewNow>>
  BY <1>1 DEF storeVars, Latest, Coming, ViewNow, View, Pair, PublishedAt, LatestVersion
<1>3. PICK s : /\ s \in (IF "segment_id" \in late[q] THEN held[q] ELSE {ViewNow[q]})
               /\ seen[q].segment_id = s.segment_id
  <2>1. LoadInv(q) /\ "segment_id" \in loaded[q] /\ Unmoved(q) /\ ViewNow[q] = View(q)
    BY <1>1 DEF IInv, Unmoved, Field, ViewNow
  <2>2. CASE "segment_id" \in late[q]
    BY <2>1, <2>2 DEF LoadInv, SegmentInv
  <2>3. CASE "segment_id" \notin late[q]
    BY <2>1, <2>3 DEF LoadInv, SegmentInv
  <2>4. QED
    BY <2>2, <2>3
<1>4. PICK b : /\ b \in (IF "byte_offset" \in late[q] THEN held[q] ELSE {ViewNow[q]})
               /\ seen[q].byte_offset = b.byte_offset
  <2>1. LoadInv(q) /\ "byte_offset" \in loaded[q] /\ Unmoved(q) /\ ViewNow[q] = View(q)
    BY <1>1 DEF IInv, Unmoved, Field, ViewNow
  <2>2. CASE "byte_offset" \in late[q]
    BY <2>1, <2>2 DEF LoadInv, ByteInv
  <2>3. CASE "byte_offset" \notin late[q]
    BY <2>1, <2>3 DEF LoadInv, ByteInv
  <2>4. QED
    BY <2>2, <2>3
<1>5. AnswerNow[q] = {}
  BY <1>1 DEF AnswerNow
<1>6. AnswerNow' = [AnswerNow EXCEPT ![q] = {Pair(seen[q])}]
  BY <1>1 DEF AnswerNow, Pair, IInv, TypeOK
<1>7. Pair(seen[q]) = [segment_id |-> s.segment_id, byte_offset |-> b.byte_offset]
  BY <1>3, <1>4 DEF Pair
<1>8. QED
  BY <1>1, <1>2, <1>3, <1>4, <1>5, <1>6, <1>7, IsReturn

LEMMA StoreIsCellStep ==
  ASSUME IInv, Store
  PROVE  CellStep
<1>1. CASE StoreBegin
  <2>1. UNCHANGED <<Latest, ViewNow, late, AnswerNow>>
    BY <1>1, StoreKeeps DEF ViewNow, AnswerNow, Pair
  <2>2. PICK o \in Offsets :
          /\ Coming = {} /\ Coming' = {o}
          /\ held' = [r \in Readers |->
                       IF lpc[r] # "done" THEN held[r] \cup {o} ELSE held[r]]
    BY <1>1 DEF StoreBegin, Coming
  <2>3. \A r \in Readers : AnswerNow[r] = {} <=> lpc[r] # "done"
    BY DEF AnswerNow
  <2>4. held' = [r \in Readers |-> IF AnswerNow[r] = {} THEN held[r] \cup {o} ELSE held[r]]
    BY <2>2, <2>3
  <2>5. QED
    BY <2>1, <2>2, <2>4, IsBegin
<1>2. CASE StoreVersion \/ StoreSegment \/ StoreByte
  <2>1. UNCHANGED <<Latest, ViewNow, late, AnswerNow>>
    BY <1>2, StoreKeeps DEF ViewNow, AnswerNow, Pair
  <2>2. UNCHANGED <<Coming, held>>
    BY <1>2 DEF StoreVersion, StoreSegment, StoreByte, Writes, Coming
  <2>3. QED
    BY <2>1, <2>2, IsCellStutter
<1>3. CASE StoreEnd
  <2>1. Coming = {storing} /\ Coming' = {} /\ Latest' = storing
    BY <1>3, EndPublishes DEF StoreEnd, Coming
  <2>2. UNCHANGED <<held, late, AnswerNow>>
    BY <1>3, EndPublishes DEF AnswerNow, Pair
  <2>3. UNCHANGED ViewNow
    <3>1. ASSUME NEW r \in Readers PROVE View(r)' = View(r)
      BY <1>3, EndPublishes, ViewStays DEF IInv, LoadInv, LookInv
    <3>2. QED
      BY <3>1 DEF ViewNow
  <2>4. QED
    BY <2>1, <2>2, <2>3, IsCellStore
<1>4. QED
  BY <1>1, <1>2, <1>3 DEF Store

LEMMA StepIsCellStep ==
  ASSUME IInv, [Next]_vars
  PROVE  CellStep
<1>1. ASSUME NEW q \in Readers, LoadStart(q) PROVE CellStep
  <2>1. /\ UNCHANGED <<storeVars, Latest, Coming>> /\ View(q)' = Latest
        /\ lpc' = [lpc EXCEPT ![q] = "loading"] /\ start' = [start EXCEPT ![q] = version]
        /\ held' = [held EXCEPT ![q] = {Latest} \cup Coming]
        /\ late' = [late EXCEPT ![q] = {}]
        /\ seen' = [seen EXCEPT ![q] = NothingSeen]
    BY <1>1, LoadStartStep DEF LoadStart
  <2>2. ASSUME NEW r \in Readers, r # q PROVE View(r)' = View(r)
    BY <2>1, <2>2 DEF storeVars, View, Pair, PublishedAt, IInv, TypeOK
  <2>3. ViewNow' = [ViewNow EXCEPT ![q] = Latest]
    BY <2>1, <2>2 DEF ViewNow
  <2>4. AnswerNow' = [AnswerNow EXCEPT ![q] = {}]
    BY <2>1 DEF AnswerNow, Pair, IInv, TypeOK
  <2>5. QED
    BY <2>1, <2>3, <2>4, IsLook
<1>2. ASSUME NEW q \in Readers, LoadSegment(q) \/ LoadByte(q) PROVE CellStep
  <2>1. PICK f \in Field : LoadsField(q, f)
    BY <1>2 DEF LoadSegment, LoadByte, Field
  <2>2. \A r \in Readers : r # q => seen'[r] = seen[r]
    BY <1>2 DEF LoadSegment, LoadByte, IInv, TypeOK
  <2>3. QED
    BY <2>1, <2>2, LoadFieldIsCellStep
<1>3. ASSUME NEW q \in Readers, LoadVersion(q) \/ LoadRetry(q) PROVE CellStep
  <2>1. /\ UNCHANGED <<storeVars, start, held, late>> /\ lpc[q] = "loading"
        /\ \A r \in Readers : r # q => seen'[r] = seen[r] /\ lpc'[r] = lpc[r]
        /\ lpc'[q] # "done"
    BY <1>3 DEF LoadVersion, Loads, LoadRetry, LoadedAll, IInv, TypeOK
  <2>2. UNCHANGED AnswerNow
    BY <2>1 DEF AnswerNow, Pair
  <2>3. UNCHANGED <<Latest, Coming, ViewNow>>
    BY <2>1 DEF storeVars, Latest, Coming, ViewNow, View, Pair, PublishedAt, LatestVersion
  <2>4. QED
    BY <2>1, <2>2, <2>3, IsCellStutter
<1>4. CASE UNCHANGED vars
  <2>1. UNCHANGED <<Latest, Coming, ViewNow, held, late, AnswerNow>>
    BY <1>4 DEF vars, storeVars, Latest, Coming, ViewNow, View, AnswerNow, Pair,
                PublishedAt, LatestVersion
  <2>2. QED
    BY <2>1, IsCellStutter
<1>5. QED
  BY <1>1, <1>2, <1>3, <1>4, StoreIsCellStep, LoadReturnIsCellStep DEF Next, Load

LEMMA InitIsCellInit == Init => Cell!Init
<1> SUFFICES ASSUME Init PROVE Cell!Init
  OBVIOUS
<1>1. /\ Snapshot(0, segment_id, byte_offset) \in published
      /\ Snapshot(0, segment_id, byte_offset).version = 0
      /\ LatestVersion = 0 /\ \A r \in Readers : start[r] = 0 /\ lpc[r] = "idle"
  BY DEF Init, Snapshot, LatestVersion
<1>2. PublishedAt(0) = Snapshot(0, segment_id, byte_offset)
  BY <1>1, InitIInv, OnePublished DEF IInv
<1>3. Pair(PublishedAt(0)) = InitialOffset
  BY <1>2, AtomicWalOffsetAssumption DEF Init, Pair, Snapshot
<1>4. Latest = InitialOffset /\ Coming = {}
  BY <1>1, <1>3 DEF Latest, Init, Coming
<1>5. QED
  BY <1>1, <1>3, <1>4 DEF Init, Cell!Init

(* AtomicWalOffset implements HeadCell in every order that the memory       *)
(* orderings allow: a store takes effect at one instant, and a load gives   *)
(* what the head was when it looked, up to the fields it was late with.     *)
THEOREM SeqlockIsACell == Spec => ImplementsCell
<1>1. IInv /\ [Next]_vars => IInv'
  BY StepIInv
<1>2. IInv /\ [Next]_vars => [Cell!Next]_(Cell!vars)
  BY StepIsCellStep DEF CellStep
<1>3. QED
  BY <1>1, <1>2, InitIInv, InitIsCellInit, PTL DEF Spec, ImplementsCell, Cell!Spec
=============================================================================
