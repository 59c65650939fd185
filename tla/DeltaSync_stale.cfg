SPECIFICATION Spec
CONSTANTS
  Rows = {r1, r2}
  Pulls = {p1, p2}
  Overlap = 1
  MaxWrites = 2
  MaxClock = 2
  MaxFaults = 0
  MaxDrops = 0
  NoCursor = NoCursor
  NoPush = NoPush
INVARIANTS NothingPinned
CHECK_DEADLOCK FALSE
