SPECIFICATION Spec
CONSTANTS
  Base = 2
  Limit = 5
  MaxOrder = 7
  Sessions = 3
  Modes = {"SIG", "SEG", "LOOP"}
  AnyOld = TRUE
INVARIANTS TypeOK NamesFit
PROPERTIES NoClobber LoopKeepsOthers
