----------------------------- MODULE MCWalWriter -----------------------------
(* A small instance of WalWriter for TLC: frames of two units, so that every *)
(* frame can be torn, segments of two frames, one event that is longer than  *)
(* a segment and one that the codec refuses.                                 *)
EXTENDS WalWriter

CONSTANTS a, b, c, d

MCEvents == {a, b, c, d}
MCRecordLen == [m \in MCEvents |-> IF m = c THEN 6 ELSE 2]
MCNone == {}
MCOversized == {d}
MCWriterFaults == {"flush", "open_next", "write_all"}
=============================================================================
