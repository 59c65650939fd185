SPECIFICATION Spec
CONSTANTS
  Turnovers = {x, y}
  Starts = {{x}}
  ScopePulls = {resync}
  ListPulls = {checks}
  MaxClock = 2
  MaxUpsets = 2
CHECK_DEADLOCK FALSE
INVARIANTS
  TypeOK
  DeltaCovers
  WorkKeepsItsRows
PROPERTIES
  ScopeSettles
