SPECIFICATION Spec
CONSTANTS
  Rows = {r1, r2}
  Pulls = {p1}
  Overlap = 1
  MaxWrites = 2
  MaxClock = 2
  MaxFaults = 1
  MaxDrops = 1
  NoCursor = NoCursor
  NoPush = NoPush
INVARIANTS NothingPinned
CHECK_DEADLOCK FALSE
