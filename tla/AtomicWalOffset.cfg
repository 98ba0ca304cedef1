CONSTANTS
  r1 = r1
  Readers <- MCReaders
  Offsets <- MCOffsets
  InitialOffset <- MCInitialOffset
  Positions <- MCPositions
  MaxStores = 3
CONSTRAINT StoreBound
SPECIFICATION Spec
INVARIANT LookIsSound
PROPERTIES ImplementsCell
