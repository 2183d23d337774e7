SPECIFICATION Spec
CONSTANTS
  MaxFiles = 2
  MaxBlocks = 1
  MaxSessions = 1
  Faults = {}
INVARIANT RightHalf
CHECK_DEADLOCK FALSE
