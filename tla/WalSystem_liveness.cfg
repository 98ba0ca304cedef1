CONSTANTS
  a = a
  b = b
  c = c
  NoEvent = NoEvent
  Events <- MCTwo
  RecordLen <- MCRecordLen
  SegmentBytes = 2
  QueueCapacity = 1
  Oversized <- MCNone
  Poison <- MCPoison
  TornWrites = TRUE
  Faults <- MCLiveFaults
  MaxFaults = 1
  BatchSize = 2
  MaxStops = 1
SPECIFICATION FairSpec
PROPERTIES ShutdownDrains AckedIsForwarded
