SPECIFICATION Spec
CONSTANTS
  MaxFiles = 2
  MaxBlocks = 1
  MaxSessions = 1
  Faults = {"short"}
INVARIANT NothingLeaked
CHECK_DEADLOCK FALSE
