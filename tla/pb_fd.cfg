SPECIFICATION Spec
CONSTANTS
  MaxFiles = 2
  MaxBlocks = 1
  MaxSessions = 1
  Faults = {"others"}
PROPERTY OwnDescriptor
CHECK_DEADLOCK FALSE
