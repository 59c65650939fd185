SPECIFICATION Spec
CONSTANTS
  Clicks = {q1}
  Workers = {w1}
  Total = 1
  Surcharge = 0
  MaxRefunds = 1
  MaxFaults = 1
  None = None
PROPERTIES
  PaidIsBooked
CHECK_DEADLOCK FALSE
