----------------------------- MODULE LineProtocol -----------------------------
(***************************************************************************)
(* Line protocol: PersistStage renders a canonical message as one line,    *)
(* the forwarder joins the lines of a batch into the body of a write, and  *)
(* the database reads the body back. A text is a sequence of characters,   *)
(* each a string: those that the protocol gives a meaning, and ordinary    *)
(* ones, of which a key or a number is a single one.                       *)
(***************************************************************************)
EXTENDS Naturals, Sequences, SequencesExt, FiniteSetsExt, TLC

CONSTANTS
  Messages,   \* decoded messages that the raw schemas accept
  BatchSize

Backslash == "\\"
Quote == "\""
NewLine == "\n"

(* What a number is written as: one token, and no other than a number's.   *)
IsNumber(n) ==
  ToString(n) \in STRING
    \ {Backslash, Quote, NewLine, ",", "=", " ", "i", "u", "true", "false"}

DataKeys == {"temp_c", "rel_hum_perc", "pressure_hpa", "gas_ohm", "dew_point_c",
             "heat_index_c"}
CountKeys == {"boot_id", "seq", "uptime", "free_mem", "rssi", "queued", "dropped_total",
              "samples_failed_total", "sensor_read_failures_total", "mqtt_connects_total"}

IsMessage(msg) ==
  /\ {"type", "texts", "counts", "time_valid", "time_ms"} \subseteq DOMAIN msg
  /\ msg.type \in {"SENSOR", "STATUS"}
  /\ {"device_id", "device_class", "fw_version"} \subseteq DOMAIN msg.texts
  /\ \A k \in DOMAIN msg.texts : msg.texts[k] \in Seq(STRING)
  /\ DOMAIN msg.counts \subseteq CountKeys
  /\ \A k \in DOMAIN msg.counts : IsNumber(msg.counts[k])
  /\ msg.time_valid \in BOOLEAN /\ IsNumber(msg.time_ms)
  /\ msg.type = "STATUS" => {"ip", "ssid"} \subseteq DOMAIN msg.texts
  /\ msg.type = "SENSOR" =>
       /\ {"data", "iaq_score", "iaq_text", "warmed_up", "replayed"} \subseteq DOMAIN msg
       /\ DOMAIN msg.data \subseteq DataKeys
       /\ \A k \in DOMAIN msg.data : IsNumber(msg.data[k])
       /\ IsNumber(msg.iaq_score) /\ msg.iaq_text \in Seq(STRING)
       /\ msg.warmed_up \subseteq BOOLEAN /\ msg.replayed \in BOOLEAN

ASSUME LineAssumption == \A msg \in Messages : IsMessage(msg)

VARIABLES
  handled,  \* the canonical messages of the batch
  batch,    \* their payloads in the log
  unread,   \* what the database has still to read of the body
  reader    \* where it is in the body, and the points up to there

vars == <<handled, batch, unread, reader>>

-----------------------------------------------------------------------------
(* TransformStage trims the texts; the business schemas then ask that none *)
(* of those that become tags is empty.                                     *)
Trim(text) ==
  LET ink == {i \in DOMAIN text : text[i] \notin {" ", NewLine}} IN
  IF ink = {} THEN <<>> ELSE SubSeq(text, Min(ink), Max(ink))

Canonical(msg) ==
  [msg EXCEPT !.texts =
     [k \in DOMAIN @ |-> IF k = "reset_reason" THEN @[k] ELSE Trim(@[k])]]

Accepted(msg) ==
  \A k \in DOMAIN msg.texts \ {"ssid", "reset_reason"} : msg.texts[k] # <<>>

-----------------------------------------------------------------------------
(* Points: tags and fields by their keys. *)
None == [k \in {} |-> <<>>]
Only(key, value) == [k \in {key} |-> value]
f ++ g ==
  [k \in DOMAIN f \cup DOMAIN g |-> IF k \in DOMAIN f THEN f[k] ELSE g[k]]

Str(text) == [kind |-> "Str", text |-> text]
Number(kind, n) == [kind |-> kind, text |-> <<ToString(n)>>]
Bool(b) == [kind |-> "Bool", text |-> <<IF b THEN "true" ELSE "false">>]

Numbers(kind, ns) == [k \in DOMAIN ns |-> Number(kind, ns[k])]

TagsOf(msg) ==
  [k \in DOMAIN msg.texts \cap {"device_id", "device_class", "room"} |-> msg.texts[k]]

TimestampOf(msg) ==
  IF msg.time_valid /\ msg.time_ms > 0 THEN <<ToString(msg.time_ms)>> ELSE <<>>

(* The score is kept out until the sensor has warmed up. *)
SensorToPoint(msg) ==
  [measurement |-> <<"bme680">>,
   tags |-> TagsOf(msg),
   fields |->
     Only("firmware_version", Str(msg.texts.fw_version))
     ++ Only("time_valid", Bool(msg.time_valid))
     ++ Numbers("Float", msg.data)
     ++ (IF msg.warmed_up = {FALSE} THEN None
          ELSE Only("iaq_score", Number("Float", msg.iaq_score))
               ++ Only("iaq_text", Str(msg.iaq_text)))
     ++ Numbers("UInt", msg.counts)
     ++ (IF msg.warmed_up = {} THEN None ELSE Only("warmed_up", Bool(TRUE \in msg.warmed_up)))
     ++ (IF msg.replayed THEN Only("replayed", Bool(TRUE)) ELSE None),
   timestamp |-> TimestampOf(msg)]

StatusToPoint(msg) ==
  [measurement |-> <<"device_status">>,
   tags |-> TagsOf(msg),
   fields |->
     Only("firmware_version", Str(msg.texts.fw_version))
     ++ Only("ip_address", Str(msg.texts.ip))
     ++ Only("time_valid", Bool(msg.time_valid))
     ++ Only("ssid", Str(msg.texts.ssid))
     ++ Numbers("Int", msg.counts)
     ++ (IF "reset_reason" \in DOMAIN msg.texts
          THEN Only("reset_reason", Str(msg.texts.reset_reason)) ELSE None),
   timestamp |-> TimestampOf(msg)]

Point(msg) == IF msg.type = "SENSOR" THEN SensorToPoint(msg) ELSE StatusToPoint(msg)

-----------------------------------------------------------------------------
(* Rendering. *)

(* str::replace of one character by itself after a backslash. *)
Replace(text, c) ==
  FlattenSeq([i \in DOMAIN text |->
                IF text[i] = c THEN <<Backslash, c>> ELSE <<text[i]>>])

EscMeasurement(text) == Replace(Replace(Replace(text, Backslash), ","), " ")

(* Mutant of EscTagKey: the backslashes are escaped last. *)
EscTagKeyBackwards(text) ==
  Replace(Replace(Replace(Replace(text, ","), "="), " "), Backslash)

EscTagKey(text) ==
  Replace(Replace(Replace(Replace(text, Backslash), ","), "="), " ")

EscTagValue(text) == EscTagKey(text)

EscFieldKey(text) == EscTagKey(text)

EscStringField(text) == Replace(Replace(text, Backslash), Quote)

FormatFieldValue(v) ==
  CASE v.kind = "Int" -> v.text \o <<"i">>
    [] v.kind = "UInt" -> v.text \o <<"u">>
    [] v.kind = "Str" -> <<Quote>> \o EscStringField(v.text) \o <<Quote>>
    [] OTHER -> v.text

(* build() sorts tags and fields by their keys: these are in that order. *)
TagOrder == <<"device_class", "device_id", "room">>
FieldOrder ==
  <<"boot_id", "dew_point_c", "dropped_total", "firmware_version", "free_mem",
    "gas_ohm", "heat_index_c", "iaq_score", "iaq_text", "ip_address",
    "mqtt_connects_total", "pressure_hpa", "queued", "rel_hum_perc", "replayed",
    "reset_reason", "rssi", "samples_failed_total", "sensor_read_failures_total",
    "seq", "ssid", "temp_c", "time_valid", "uptime", "warmed_up">>

Pair(key, value) == EscTagKey(<<key>>) \o <<"=">> \o value

TagParts(p) ==
  [i \in DOMAIN TagOrder |->
     LET k == TagOrder[i] IN
     IF k \notin DOMAIN p.tags THEN <<>> ELSE <<",">> \o Pair(k, EscTagValue(p.tags[k]))]

(* The blank comes before the first field, a comma before each other; the  *)
(* mapping gives every point a field.                                      *)
FieldParts(p) ==
  [i \in DOMAIN FieldOrder |->
     LET k == FieldOrder[i]
         first == \A j \in 1..(i - 1) : FieldOrder[j] \notin DOMAIN p.fields IN
     IF k \notin DOMAIN p.fields THEN <<>>
     ELSE <<IF first THEN " " ELSE ",">> \o Pair(k, FormatFieldValue(p.fields[k]))]

WriteLineProtocol(p) ==
  EscMeasurement(p.measurement) \o FlattenSeq(TagParts(p)) \o FlattenSeq(FieldParts(p))
  \o (IF p.timestamp = <<>> THEN <<>> ELSE <<" ">> \o p.timestamp)

BuildBody(lines) ==
  LET body[n \in 0..Len(lines)] ==
        IF n = 0 THEN <<>>
        ELSE (IF body[n - 1] = <<>> THEN <<>> ELSE Append(body[n - 1], NewLine)) \o lines[n]
  IN body[Len(lines)]

-----------------------------------------------------------------------------
(* The database reads a body character by character. A backslash takes the *)
(* meaning from the next one where it has any; a line that is not of the   *)
(* form of the protocol is malformed.                                      *)
NoPoint == [measurement |-> <<>>, tags |-> None, fields |-> None, timestamp |-> <<>>]

Beginning == [at |-> "measurement", escape |-> FALSE, key |-> <<>>, text |-> <<>>,
              point |-> NoPoint, points |-> <<>>]

MeaningAt(at) ==
  CASE at = "measurement" -> {",", " ", Backslash}
    [] at \in {"tag_key", "tag_value", "field_key"} -> {",", "=", " ", Backslash}
    [] at = "string" -> {Quote, Backslash}
    [] at \in {"field_value", "string_end"} -> {",", " "}
    [] OTHER -> {}

(* A value without quotes is what its last character says. *)
Unquoted(text) ==
  CASE text \in {<<"true">>, <<"false">>} -> [kind |-> "Bool", text |-> text]
    [] Last(text) = "i" -> [kind |-> "Int", text |-> Front(text)]
    [] Last(text) = "u" -> [kind |-> "UInt", text |-> Front(text)]
    [] OTHER -> [kind |-> "Float", text |-> text]

(* The part of the point that ends here; a part must not be empty.         *)
Closed(r) ==
  CASE r.at = "measurement" -> [r.point EXCEPT !.measurement = r.text]
    [] r.at = "tag_value" -> [r.point EXCEPT !.tags = Only(r.key[1], r.text) ++ @]
    [] r.at = "field_value" -> [r.point EXCEPT !.fields = Only(r.key[1], Unquoted(r.text)) ++ @]
    [] r.at = "string" -> [r.point EXCEPT !.fields = Only(r.key[1], Str(r.text)) ++ @]
    [] r.at = "timestamp" -> [r.point EXCEPT !.timestamp = r.text]
    [] OTHER -> r.point

(* Where a delimiter leads: none of these is a place for it. *)
After(at, c) ==
  CASE at \in {"measurement", "tag_value"} /\ c = "," -> "tag_key"
    [] at \in {"measurement", "tag_value"} /\ c = " " -> "field_key"
    [] at = "tag_key" /\ c = "=" -> "tag_value"
    [] at = "field_key" /\ c = "=" -> "field_value"
    [] at = "string" /\ c = Quote -> "string_end"
    [] at \in {"field_value", "string_end"} /\ c = "," -> "field_key"
    [] at \in {"field_value", "string_end"} /\ c = " " -> "timestamp"
    [] OTHER -> "malformed"

EndOfLine(r) ==
  [Beginning EXCEPT !.points =
     Append(r.points, IF r.at \in {"field_value", "string_end", "timestamp"}
                      THEN Closed(r) ELSE NoPoint)]

Leave(r, c) ==
  IF r.text = <<>> /\ r.at \notin {"string", "string_end"}
  THEN [r EXCEPT !.at = "malformed"]
  ELSE [r EXCEPT !.at = After(r.at, c), !.point = Closed(r), !.text = <<>>,
                 !.key = IF c = "=" THEN r.text ELSE @]

ReadChar(r, c) ==
  IF r.escape
  THEN [r EXCEPT !.escape = FALSE,
                 !.text = @ \o (IF c \in MeaningAt(r.at) THEN <<c>> ELSE <<Backslash, c>>)]
  ELSE CASE c = NewLine /\ r.at # "string" -> EndOfLine(r)
         [] c = Backslash /\ Backslash \in MeaningAt(r.at) -> [r EXCEPT !.escape = TRUE]
         [] c = Quote /\ r.at = "field_value" /\ r.text = <<>> -> [r EXCEPT !.at = "string"]
         [] c # Backslash /\ c \in MeaningAt(r.at) -> Leave(r, c)
         [] OTHER -> [r EXCEPT !.text = Append(@, c)]

-----------------------------------------------------------------------------
Posted == unread # <<>> \/ reader # Beginning

Init == handled = <<>> /\ batch = <<>> /\ unread = <<>> /\ reader = Beginning

(* PersistStage renders what has passed the stages before it. *)
Persist(msg) ==
  /\ ~Posted /\ Len(batch) < BatchSize
  /\ Accepted(Canonical(msg))
  /\ handled' = Append(handled, Canonical(msg))
  /\ batch' = Append(batch, WriteLineProtocol(Point(Canonical(msg))))
  /\ UNCHANGED <<unread, reader>>

(* Mutant of Write: the lines follow one another. *)
WriteJoined ==
  /\ ~Posted /\ batch # <<>>
  /\ unread' = Append(FlattenSeq(batch), NewLine)
  /\ UNCHANGED <<handled, batch, reader>>

(* InfluxSink::write, on a full batch or a tick; the end of the body ends  *)
(* its last line.                                                          *)
Write ==
  /\ ~Posted /\ batch # <<>>
  /\ unread' = Append(BuildBody(batch), NewLine)
  /\ UNCHANGED <<handled, batch, reader>>

(* The database reads the next character. *)
Read ==
  /\ unread # <<>>
  /\ reader' = ReadChar(reader, Head(unread))
  /\ unread' = Tail(unread)
  /\ UNCHANGED <<handled, batch>>

Next == (\E msg \in Messages : Persist(msg)) \/ Write \/ Read

Spec == Init /\ [][Next]_vars

-----------------------------------------------------------------------------
(* Whatever its texts contain, each message of a batch comes out of the    *)
(* database's reading of the body as the point of the documented mapping,  *)
(* and as nothing else: no text ends a tag, a field or a line, and         *)
(* a number keeps its type.                                                *)
BodyReadsBack ==
  Posted /\ unread = <<>> =>
    reader.points = [i \in DOMAIN handled |-> Point(handled[i])]

(* Tag values are escaped: what a message has in its tags is what the      *)
(* database reads there, and one message is one point.                     *)
TagsAreEscaped ==
  Posted /\ unread = <<>> =>
    /\ Len(reader.points) = Len(handled)
    /\ \A i \in DOMAIN handled : reader.points[i].tags = TagsOf(handled[i])
=============================================================================
