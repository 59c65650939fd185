CONSTANTS
  Tabs = {t1}
  Records = {r1}
  Timed = {}
  MaxId = 2
  MaxRetries = 1
  CircuitBreak = 2
  MaxFaults = 1
  MaxCrashes = 1
  MaxTaps = 1
  NoTab = NoTab
  NoRecord = NoRecord
SPECIFICATION Spec
PROPERTIES ReplaysInOrder
CHECK_DEADLOCK FALSE
