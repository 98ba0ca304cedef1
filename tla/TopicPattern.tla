----------------------------- MODULE TopicPattern -----------------------------
(***************************************************************************)
(* TopicPattern::new, matches and device_id_from_topic, and the rule by    *)
(* which an MQTT broker matches a topic with a filter.                     *)
(*                                                                         *)
(* A filter or a topic is the sequence of its levels, as split('/') gives  *)
(* them; the empty string is an empty level. None begins or ends with a    *)
(* blank, so that str::trim has nothing to do.                             *)
(***************************************************************************)
EXTENDS Integers, Sequences, FiniteSets

NoDevice == "no device id"

LeastOf(S) == CHOOSE i \in S : \A j \in S : i <= j
GreatestOf(S) == CHOOSE i \in S : \A j \in S : i >= j

(* trim_matches('/'): empty levels at both ends go; of nothing but empty   *)
(* levels, one is left.                                                    *)
Stripped(levels) ==
  LET named == {i \in DOMAIN levels : levels[i] # ""} IN
  IF named = {} THEN <<"">>
  ELSE SubSeq(levels, LeastOf(named), GreatestOf(named))

(* What TopicPattern::new accepts. *)
IsPattern(raw) ==
  LET parts == Stripped(raw) IN
  \A i \in DOMAIN parts : parts[i] # "" /\ (parts[i] = "#" => i = Len(parts))

(* The first +, else the second level under "smarthome", else 0 (None). *)
DeviceIdIndex(parts) ==
  LET plus == {i \in DOMAIN parts : parts[i] = "+"} IN
  CASE plus # {} -> LeastOf(plus)
    [] plus = {} /\ Len(parts) >= 2 /\ parts[1] = "smarthome" -> 2
    [] OTHER -> 0

Pattern(raw) == [segments |-> Stripped(raw),
                 device_id_index |-> DeviceIdIndex(Stripped(raw))]

(* Mutant of Matches: it does not look whether the topic goes on. *)
MatchesPrefix(pattern, topic) ==
  LET segments == pattern.segments
      t == Stripped(topic)
      multi == segments[Len(segments)] = "#"
      fixed == IF multi THEN Len(segments) - 1 ELSE Len(segments)
  IN
  /\ Len(t) >= fixed
  /\ \A i \in 1..fixed : IF segments[i] = "+" THEN t[i] # "" ELSE t[i] = segments[i]

(* TopicPattern::matches. A + does not match an empty level.               *)
Matches(pattern, topic) ==
  LET segments == pattern.segments
      t == Stripped(topic)
      multi == segments[Len(segments)] = "#"
      fixed == IF multi THEN Len(segments) - 1 ELSE Len(segments)
  IN
  /\ IF multi THEN Len(t) >= fixed ELSE Len(t) = fixed
  /\ \A i \in 1..fixed : IF segments[i] = "+" THEN t[i] # "" ELSE t[i] = segments[i]

DeviceIdFromTopic(pattern, topic) ==
  LET t == Stripped(topic) IN
  IF pattern.device_id_index \in DOMAIN t THEN t[pattern.device_id_index] ELSE NoDevice

(* The broker's rule (MQTT 3.1.1, 4.7), level by level: + stands for any   *)
(* one level, an empty one included, # for the rest, the parent included.  *)
MqttMatches(filter, topic) ==
  LET from[i \in 1..Len(filter) + 1] ==
        IF i = Len(filter) + 1 THEN i = Len(topic) + 1
        ELSE IF filter[i] = "#" THEN i <= Len(topic) + 1
        ELSE i <= Len(topic) /\ filter[i] \in {"+", topic[i]} /\ from[i + 1]
  IN from[1]
=============================================================================
