SPECIFICATION Spec
CONSTANTS
  Clicks = {q1}
  Workers = {w1, w2}
  Total = 1
  Surcharge = 0
  MaxRefunds = 1
  MaxFaults = 1
  None = None
INVARIANTS
  ThrownIsRetried
CHECK_DEADLOCK FALSE
