SPECIFICATION Spec
CONSTANTS
  Clicks = {q1}
  Workers = {w1}
  Total = 1
  Surcharge = 1
  MaxRefunds = 2
  MaxFaults = 0
  None = None
INVARIANTS
  CreditNets
CHECK_DEADLOCK FALSE
