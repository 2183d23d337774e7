SPECIFICATION Spec
CONSTANTS
  MaxFiles = 2
  MaxBlocks = 1
  MaxSessions = 1
  Faults = {"gap"}
INVARIANT NothingLeaked
CHECK_DEADLOCK FALSE
