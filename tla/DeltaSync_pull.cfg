SPECIFICATION FairSpec
CONSTANTS
  Rows = {r1, r2}
  Pulls = {p1}
  Overlap = 2
  MaxWrites = 2
  MaxClock = 2
  MaxFaults = 1
  MaxDrops = 1
  NoCursor = NoCursor
  NoPush = NoPush
PROPERTIES Converges
INVARIANTS NothingElsePinned
CHECK_DEADLOCK FALSE
