----------------------------- MODULE MCWalSystem -----------------------------
(* Small instances of WalSystem for TLC.                                     *)
EXTENDS WalSystem, TLC

CONSTANTS a, b, c

MCEvents == {a, b, c}
MCTwo == {a, b}
MCRecordLen == [m \in Events |-> 2]
MCNone == {}
MCPoison == {b}
MCAllFaults == {"flush", "open_next", "write_all", "read", "open",
                "cursor", "list", "delete", "sink"}
MCNoReadFaults == MCAllFaults \ {"read"}
MCLiveFaults == {"flush", "write_all", "read", "cursor"}
MCSymmetry == Permutations(Events)
=============================================================================
