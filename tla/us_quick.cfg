SPECIFICATION Spec
CONSTANTS
  AutoRec = TRUE
  Faults = {"quick"}
PROPERTY AutoKept
