SPECIFICATION Spec
CONSTANTS
  MaxFiles = 2
  MaxBlocks = 1
  MaxSessions = 1
  Faults = {"open"}
INVARIANT MapAlive
CHECK_DEADLOCK FALSE
