CONSTANTS
  a = a
  b = b
  c = c
  NoEvent = NoEvent
  Events <- MCEvents
  RecordLen <- MCRecordLen
  SegmentBytes = 4
  QueueCapacity = 1
  Oversized <- MCNone
  Poison <- MCNone
  TornWrites = TRUE
  Faults <- MCAllFaults
  MaxFaults = 1
  BatchSize = 2
  MaxStops = 1
SYMMETRY MCSymmetry
SPECIFICATION Spec
INVARIANTS BatchInOrder BatchHasNoGap AppendedOnce RefusedIsAbsent NoWakeupIsLost
PROPERTIES ReadingNeverGoesBack
