SPECIFICATION Spec
CONSTANTS
  Turnovers = {x, y}
  Starts = {{x}}
  ScopePulls = {resync}
  ListPulls = {}
  MaxClock = 1
  MaxUpsets = 1
CHECK_DEADLOCK FALSE
INVARIANTS
  RowsOutlastWork
