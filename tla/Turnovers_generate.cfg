SPECIFICATION Spec
CONSTANTS
  N = 2
  Handler = handler
  PmsSyncs = {pms}
  MaxTaken = 1
  MaxUpsets = 1
PROPERTIES
  WorkIsKept
  EveryStayIsServed
  RowsAreAnnounced
CHECK_DEADLOCK FALSE
