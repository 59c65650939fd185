SPECIFICATION Spec
CONSTANTS
  Stays = {b1, b2}
  Known = {b1}
  Cron = cron
  Manual = manual
  FaultAt = {}
  MaxChanges = 2
  MaxFaults = 0
PROPERTIES
  CancelledOnlyWhenGone
