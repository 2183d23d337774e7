SPECIFICATION FairSpec
CONSTANTS
  NParts = 1
  Removes = 1
  QueueMax = 5
  Plugs = 3
  Faults = {"foreign", "badfs"}
INVARIANTS TypeOK OnlineIsPresent PresentIsOnline NoWipe
PROPERTY RemovalSeen
