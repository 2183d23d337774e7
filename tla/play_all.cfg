SPECIFICATION Spec
CONSTANTS
  MaxFiles = 3
  MaxBlocks = 2
  MaxSessions = 2
  Faults = {"short", "gap", "open", "read", "fpga", "busy", "others"}
INVARIANT TypeOK
PROPERTIES InOrder Ends
CHECK_DEADLOCK FALSE
