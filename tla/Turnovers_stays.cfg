SPECIFICATION Spec
CONSTANTS
  N = 2
  Handler = handler
  PmsSyncs = {}
  MaxTaken = 0
  MaxUpsets = 0
INVARIANTS
  OneTurnoverPerCheckout
CHECK_DEADLOCK FALSE
