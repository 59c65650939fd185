SPECIFICATION Spec
CONSTANTS
  Callers = {c1, c2}
  Threshold = 2
  Window = 3
  ProbeTTL = 2
  CallTime = 4
  MaxCount = 3
  MaxFaults = 2
INVARIANTS
  OneProbe
  CounterExpires
PROPERTIES
  OpenTriesAgain
