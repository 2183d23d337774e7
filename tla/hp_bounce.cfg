SPECIFICATION Spec
CONSTANTS
  NParts = 1
  Removes = 1
  QueueMax = 5
  Plugs = 2
  Faults = {"bounce"}
INVARIANT OnlineDespiteOthers
