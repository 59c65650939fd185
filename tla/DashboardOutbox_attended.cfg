CONSTANTS
  Tabs = {t1, t2}
  Records = {r1}
  MaxId = 2
  MaxRetries = 2
  MaxFaults = 2
  MaxReloads = 1
  MaxTaps = 2
  NoTab = NoTab
  NoRecord = NoRecord
CHECK_DEADLOCK FALSE
SPECIFICATION FairSpec
INVARIANTS RowsAreAttended
PROPERTIES KeepsOrder AttendedRowsLeave
