---------------------------- MODULE MCLineProtocol ----------------------------
(* Small instances of LineProtocol for TLC.                                  *)
EXTENDS LineProtocol

Special == {"x", ",", "=", " ", Backslash, Quote}

Plain == <<"x">>

(* All texts of one or two characters, and a blank in the middle of one.     *)
Texts == {<<c>> : c \in Special} \cup {<<c, d>> : c, d \in Special}
         \cup {<<Backslash, " ", "x">>}

(* Those that could end or prolong a quoted string.                          *)
QuotedTexts == {<<c>> : c \in Special}
               \cup {<<c, d>> : c, d \in {Backslash, Quote, ","}}

Sensor(room, fw, warmed, counts, replayed, ms) ==
  [type |-> "SENSOR",
   texts |-> [device_id |-> Plain, device_class |-> Plain, room |-> room, fw_version |-> fw],
   data |-> [temp_c |-> 20, rel_hum_perc |-> 40, pressure_hpa |-> 1000, gas_ohm |-> 5000,
             dew_point_c |-> 6, heat_index_c |-> 20],
   iaq_score |-> 75, iaq_text |-> <<"good">>,
   warmed_up |-> warmed, replayed |-> replayed, counts |-> counts,
   time_valid |-> TRUE, time_ms |-> ms]

Status(id, reason) ==
  [type |-> "STATUS",
   texts |-> [device_id |-> id, device_class |-> Plain, fw_version |-> Plain,
              ip |-> Plain, ssid |-> <<>>, reset_reason |-> reason],
   counts |-> [uptime |-> 1, free_mem |-> 2, rssi |-> 3, queued |-> 4],
   time_valid |-> FALSE, time_ms |-> 5]

Counts == [boot_id |-> 1, seq |-> 7]

MCMessages ==
       {Sensor(t, Plain, {FALSE}, Counts, TRUE, 5) : t \in Texts}
  \cup {Sensor(Plain, t, {}, <<>>, FALSE, 0) : t \in QuotedTexts}
  \cup {Sensor(Plain, Plain, {TRUE}, Counts, FALSE, 5)}
  \cup {Status(Plain, t) : t \in QuotedTexts}

(* A line break within a tag.                                                *)
MCLineBreak ==
       {Sensor(<<c, NewLine, d>>, Plain, {}, <<>>, FALSE, 5) : c, d \in Special}
  \cup {Sensor(t, Plain, {}, Counts, FALSE, 5) : t \in QuotedTexts}
=============================================================================
