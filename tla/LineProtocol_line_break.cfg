CONSTANTS
  Messages <- MCLineBreak
  BatchSize = 2
SPECIFICATION Spec
INVARIANTS TagsAreEscaped
CHECK_DEADLOCK FALSE
