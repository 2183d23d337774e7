SPECIFICATION Spec
CONSTANTS
  Seg = 3
  Burst = 3
  Lag = 2
  FileMax = 2
  Buf = {b1, b2, b3, b4, b5}
  None = None
  Modes = {"SIG", "SEG", "LOOP"}
  Faults = {}
  b1 = b1
  b2 = b2
  b3 = b3
  b4 = b4
  b5 = b5
SYMMETRY BufferSymmetry
INVARIANT TypeOK
INVARIANT Conservation
INVARIANT Isolation
INVARIANT LeakFree
INVARIANT WaitsEnd
PROPERTY InOrder
