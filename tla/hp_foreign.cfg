SPECIFICATION Spec
CONSTANTS
  NParts = 1
  Removes = 1
  QueueMax = 12
  Plugs = 1
  Faults = {"foreign"}
INVARIANT OnlineDespiteOthers
