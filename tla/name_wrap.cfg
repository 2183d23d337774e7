SPECIFICATION Spec
CONSTANTS
  Base = 10
  Limit = 12
  MaxOrder = 6
  Sessions = 1
  Modes = {"LOOP"}
  AnyOld = FALSE
PROPERTY WrapsToStart
