----------------------------- MODULE MCIngestion -----------------------------
(* Small instances of Ingestion for TLC.                                     *)
EXTENDS Ingestion

CONSTANTS a, b, c

MCMessages == {a, b, c}
(* The first two messages end in the DLQ, enough to fill its channel. *)
MCRefusedBy ==
  [m \in Messages |-> CASE m = a -> "decode" [] m = b -> "transform" [] OTHER -> "none"]
=============================================================================
