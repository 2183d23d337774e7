SPECIFICATION Spec
CONSTANTS
  MaxFiles = 2
  MaxBlocks = 1
  MaxSessions = 1
  Faults = {"busy", "read"}
PROPERTY UnplugEnds
CHECK_DEADLOCK FALSE
