SPECIFICATION Spec
CONSTANTS
  Seg = 2
  Burst = 2
  Lag = 1
  FileMax = 1
  Buf = {b1, b2}
  None = None
  Modes = {"SEG"}
  Faults = {"overlap", "nomem", "silent", "werr", "full"}
  b1 = b1
  b2 = b2
SYMMETRY BufferSymmetry
INVARIANT ProducerInsideSession
INVARIANT MemorySafe
INVARIANT NeverOverdrawn
CHECK_DEADLOCK FALSE
