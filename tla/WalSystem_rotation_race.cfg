CONSTANTS
  a = a
  b = b
  c = c
  NoEvent = NoEvent
  Events <- MCEvents
  RecordLen <- MCRecordLen
  SegmentBytes = 2
  QueueCapacity = 1
  Oversized <- MCNone
  Poison <- MCNone
  TornWrites = FALSE
  Faults <- MCNone
  MaxFaults = 0
  BatchSize = 2
  MaxStops = 0
SYMMETRY MCSymmetry
SPECIFICATION Spec
INVARIANTS NothingSkipped
