CONSTANTS
  Last = 4
  BatchSize = 2
  FlushIntervalMs = 1500
  Unacceptable = {2}
  MaxFailures = 4
  MaxStops = 2
SPECIFICATION FairSpec
INVARIANTS SinkTypeOK
PROPERTIES ImplementsDelivery RepairDelivers
CHECK_DEADLOCK FALSE
