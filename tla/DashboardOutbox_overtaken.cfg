CONSTANTS
  Tabs = {t1}
  Records = {r1}
  MaxId = 2
  MaxRetries = 2
  MaxFaults = 1
  MaxReloads = 0
  MaxTaps = 0
  NoTab = NoTab
  NoRecord = NoRecord
CHECK_DEADLOCK FALSE
SPECIFICATION Spec
PROPERTIES NothingOvertakes
