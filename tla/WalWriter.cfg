CONSTANTS
  a = a
  b = b
  c = c
  d = d
  NoEvent = NoEvent
  Events <- MCEvents
  RecordLen <- MCRecordLen
  SegmentBytes = 4
  QueueCapacity = 2
  Oversized <- MCOversized
  Poison <- MCNone
  TornWrites = TRUE
  Faults <- MCWriterFaults
  MaxFaults = 2
SPECIFICATION WriterFairSpec
INVARIANTS AckedIsReadable HeadIsReadable WaiterIsOwed
PROPERTIES AppendsReturn
