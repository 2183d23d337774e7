SPECIFICATION Spec
CONSTANTS
  NParts = 2
  Removes = 1
  QueueMax = 12
  Plugs = 1
  Faults = {}
INVARIANT NoWipe
