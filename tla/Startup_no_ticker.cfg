CONSTANTS
  Environments <- MCNoTicker
  Usable = {"a", "b"}
  WorkerCounts = {2, 4}
  Messages = {m1, m2}
  MaxStarts = 1
  MaxTime = 1
SPECIFICATION FairSpec
PROPERTY ForwarderIsWatched
CHECK_DEADLOCK FALSE
