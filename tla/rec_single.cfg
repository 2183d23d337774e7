SPECIFICATION FairSpec
CONSTANTS
  Seg = 3
  Burst = 3
  Lag = 2
  FileMax = 1
  Buf = {b1, b2, b3}
  None = None
  Modes = {"SIG"}
  Faults = {}
  b1 = b1
  b2 = b2
  b3 = b3
PROPERTIES SingleEnds
