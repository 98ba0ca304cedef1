CONSTANTS
  Environments <- MCEnvironments
  Usable = {"a", "b"}
  WorkerCounts = {2, 4}
  Messages = {m1, m2}
  MaxStarts = 2
  MaxTime = 1
SPECIFICATION Spec
INVARIANT EmptyIsUnset
CHECK_DEADLOCK FALSE
