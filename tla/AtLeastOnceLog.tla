---------------------------- MODULE AtLeastOnceLog ----------------------------
(***************************************************************************)
(* What the write-ahead log promises the pipeline: an event it has stored  *)
(* stays stored, whatever stops and restarts, until the sink has taken it. *)
(* The one other way out is an explicit loss.                              *)
(***************************************************************************)
CONSTANTS Messages

VARIABLES
  stored,     \* events that a restart would find and forward
  forwarded,  \* events the sink has taken
  lost        \* events given up

vars == <<stored, forwarded, lost>>

Init == stored = {} /\ forwarded = {} /\ lost = {}

Store(E) == stored' = stored \cup E /\ UNCHANGED <<forwarded, lost>>

(* At least once: E may hold events forwarded before. *)
Forward(E) ==
  /\ E \subseteq stored
  /\ forwarded' = forwarded \cup E
  /\ UNCHANGED <<stored, lost>>

Lose(E) ==
  /\ E \subseteq stored
  /\ lost' = lost \cup E
  /\ UNCHANGED <<stored, forwarded>>

(* The event need not be kept any more. *)
Release(E) ==
  /\ E \subseteq forwarded \cup lost
  /\ stored' = stored \ E
  /\ UNCHANGED <<forwarded, lost>>

Next == \E E \in SUBSET Messages : Store(E) \/ Forward(E) \/ Lose(E) \/ Release(E)

Spec == Init /\ [][Next]_vars
=============================================================================
