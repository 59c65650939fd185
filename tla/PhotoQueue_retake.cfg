SPECIFICATION Spec
CONSTANTS
  N = 2
  Target <- OneTarget
  Tabs = {t1}
  Locks = TRUE
  MaxFaults = 1
PROPERTIES
  NewestWins
CHECK_DEADLOCK FALSE
