CONSTANTS
  Tabs = {t1}
  Records = {r1}
  Timed = {}
  MaxId = 2
  MaxRetries = 1
  CircuitBreak = 2
  MaxFaults = 2
  MaxCrashes = 0
  MaxTaps = 2
  NoTab = NoTab
  NoRecord = NoRecord
SPECIFICATION Spec
PROPERTIES ReplaysInOrder
CHECK_DEADLOCK FALSE
