CONSTANTS
  Tabs = {t1, t2}
  Records = {r1}
  Timed = {r1}
  MaxId = 2
  MaxRetries = 2
  CircuitBreak = 1
  MaxFaults = 1
  MaxCrashes = 0
  MaxTaps = 1
  NoTab = NoTab
  NoRecord = NoRecord
SPECIFICATION FairSpec
INVARIANTS DeadLettersWereRefused
PROPERTIES SendsOnlyLiveRows SignedOutIsInert LiveRowsLeave
CHECK_DEADLOCK FALSE
