SPECIFICATION FairSpec
CONSTANTS
  AutoRec = TRUE
  Faults = {}
INVARIANTS TypeOK StopIsMine PayloadMatches
PROPERTIES EscEnds AutoStarts
