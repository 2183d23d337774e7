SPECIFICATION LiveSpec
CONSTANTS
  Seg = 3
  Burst = 3
  Lag = 2
  FileMax = 1
  Buf = {1, 2, 3}
  None = None
  Modes = {"SIG", "SEG", "LOOP"}
  Faults = {"unplug", "silent"}
PROPERTIES StopEnds Drained UnplugEnds
