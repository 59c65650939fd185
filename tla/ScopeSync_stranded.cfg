SPECIFICATION Spec
CONSTANTS
  Turnovers = {x, y}
  Starts = {{x}}
  ScopePulls = {resync}
  ListPulls = {}
  MaxClock = 1
  MaxUpsets = 2
CHECK_DEADLOCK FALSE
INVARIANTS
  NothingSevered
