CONSTANTS
  Entities = {"turnovers", "work_orders"}
  ReconcileEvery = 2
  MaxChanges = 1
  MaxFaults = 0
SPECIFICATION FairSpec
CHECK_DEADLOCK FALSE
PROPERTIES ReassignmentArrives
