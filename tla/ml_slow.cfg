SPECIFICATION Spec
CONSTANTS
  Inputs <- MCInputs
  HdmiCode = {0}
  Setting <- MCSlow
  Saves <- MCSaves
  MaxEvents = 2
  MaxSaves = 2
  MaxLost = 1
INVARIANT MuxCovers

CHECK_DEADLOCK FALSE
