CONSTANTS
  Messages <- MCMessages
  BatchSize = 2
SPECIFICATION Spec
INVARIANTS BodyReadsBack
CHECK_DEADLOCK FALSE
