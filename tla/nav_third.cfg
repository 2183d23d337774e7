SPECIFICATION Spec
CONSTANTS
  Opened = {"sysStatus", "UsbDevCfg", "RecordTsCfg", "AdvancedCfg", "PlayTsCfg", "PlayMode", "FileBrowse"}
  Faults = {"cancel"}
  Plugs = 1
CHECK_DEADLOCK FALSE
INVARIANT ThirdPressSaves
