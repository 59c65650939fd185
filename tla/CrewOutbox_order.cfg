CONSTANTS
  Tabs = {t1}
  Records = {r1, r2}
  Timed = {}
  MaxId = 3
  MaxRetries = 1
  CircuitBreak = 2
  MaxFaults = 2
  MaxCrashes = 1
  MaxTaps = 1
  NoTab = NoTab
  NoRecord = NoRecord
SYMMETRY TabsAndRecords
SPECIFICATION Spec
INVARIANTS TypeOK FrozenBehindDeadLetter
PROPERTIES KeepsOrder OrderedUntilTap
CHECK_DEADLOCK FALSE
