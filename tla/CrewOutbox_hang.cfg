CONSTANTS
  Tabs = {t1}
  Records = {r1, r2}
  Timed = {r1}
  MaxId = 2
  MaxRetries = 2
  CircuitBreak = 2
  MaxFaults = 0
  MaxCrashes = 0
  MaxTaps = 0
  NoTab = NoTab
  NoRecord = NoRecord
SPECIFICATION ClientSpec
PROPERTIES PushesEnd
CHECK_DEADLOCK FALSE
