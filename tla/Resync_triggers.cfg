CONSTANTS
  Entities = {"turnovers", "work_orders"}
  ReconcileEvery = 2
  MaxChanges = 2
  MaxFaults = 1
SPECIFICATION FairSpec
CHECK_DEADLOCK FALSE
PROPERTIES MissedIsFetched BackstopArrives
