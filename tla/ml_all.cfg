SPECIFICATION Spec
CONSTANTS
  Inputs <- MCInputs
  HdmiCode = {0}
  Setting <- MCSetting
  Saves <- MCSaves
  MaxEvents = 2
  MaxSaves = 2
  MaxLost = 1
PROPERTY Settles
INVARIANTS TypeOK Synced OneProgrammer LossContained MuxCovers

CHECK_DEADLOCK FALSE
