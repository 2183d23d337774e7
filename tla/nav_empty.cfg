SPECIFICATION Spec
CONSTANTS
  Opened = {"sysStatus", "UsbDevCfg", "RecordTsCfg", "AdvancedCfg", "PlayTsCfg", "PlayMode", "FileBrowse"}
  Faults = {"empty"}
  Plugs = 1
CHECK_DEADLOCK FALSE
INVARIANT DepthMatches
