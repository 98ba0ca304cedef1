CONSTANTS
  a = a
  b = b
  c = c
  NoEvent = NoEvent
  Events <- MCEvents
  RecordLen <- MCRecordLen
  SegmentBytes = 4
  QueueCapacity = 1
  Oversized <- MCNone
  Poison <- MCPoison
  TornWrites = FALSE
  Faults <- MCNoReadFaults
  MaxFaults = 1
  BatchSize = 2
  MaxStops = 1
SPECIFICATION Spec
INVARIANTS FirstSegmentIsWhole
PROPERTIES LossOnlyAtRotation
