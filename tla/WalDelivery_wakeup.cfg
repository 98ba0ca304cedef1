CONSTANTS
  a = a
  b = b
  NoEvent = NoEvent
  Events <- MCTwo
  RecordLen <- MCRecordLen
  SegmentBytes = 2
  QueueCapacity = 1
  Oversized <- MCNone
  Poison <- MCNone
  TornWrites = FALSE
  Faults <- MCWriterFaults
  MaxFaults = 1
SPECIFICATION Spec
PROPERTIES PublishedIsReturned
