SPECIFICATION Spec
CONSTANTS
  Clicks = {q1,q2}
  Workers = {w1, w2}
  Total = 1
  Surcharge = 1
  MaxRefunds = 2
  MaxFaults = 1
  None = None
INVARIANTS
  CreditIsBacked
  PaymentsAreHeld
PROPERTIES
  RefundsOnlyGrow
  PaymentsAreMarked
CHECK_DEADLOCK FALSE
