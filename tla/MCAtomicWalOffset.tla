-------------------------- MODULE MCAtomicWalOffset --------------------------
(* Three offsets that differ in each field, every position beside them, one *)
(* reader (readers write nothing that another reads), a bounded number of   *)
(* stores.                                                                  *)
EXTENDS AtomicWalOffset

CONSTANTS r1, MaxStores

MCReaders == {r1}
MCOffset(s, b) == [segment_id |-> s, byte_offset |-> b]
MCOffsets == {MCOffset(1, 0), MCOffset(1, 4), MCOffset(2, 2)}
MCInitialOffset == MCOffset(1, 0)
MCPositions == {MCOffset(s, b) : s \in {1, 2}, b \in {0, 2, 4}}

(* The version is unbounded in the code (u64). *)
StoreBound == version <= 2 * MaxStores
=============================================================================
