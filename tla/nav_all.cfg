SPECIFICATION Spec
CONSTANTS
  Opened = {"sysStatus", "UsbDevCfg", "RecordTsCfg", "AdvancedCfg", "PlayTsCfg", "PlayMode", "FileBrowse"}
  Faults = {"lock", "hotplug", "auto", "cancel"}
  Plugs = 1
INVARIANTS TypeOK DepthMatches OwnSelection PagesReset
PROPERTY EscReturns
CHECK_DEADLOCK FALSE
