---------------------------- MODULE MCWalDelivery ----------------------------
(* Small instances of WalDelivery for TLC.                                   *)
EXTENDS WalDelivery, TLC

CONSTANTS a, b

MCTwo == {a, b}
MCRecordLen == [m \in Events |-> 2]
MCNone == {}
MCWriterFaults == {"flush", "open_next", "write_all"}
=============================================================================
