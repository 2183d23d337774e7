SPECIFICATION Spec
CONSTANTS
  NParts = 1
  Removes = 1
  QueueMax = 12
  Plugs = 2
  Faults = {"scsi"}
INVARIANT OnlineIsPresent
