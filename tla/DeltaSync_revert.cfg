SPECIFICATION Spec
CONSTANTS
  Rows = {r1, r2}
  Pulls = {p1}
  Overlap = 1
  MaxWrites = 1
  MaxClock = 1
  MaxFaults = 0
  MaxDrops = 0
  NoCursor = NoCursor
  NoPush = NoPush
INVARIANTS ShowsOwnWork
CHECK_DEADLOCK FALSE
