SPECIFICATION Spec
CONSTANTS
  Syncs = {s1, s2}
  Cron = cron
  User = user
  Free = free
  MaxFaults = 2
  FailsOpen = TRUE
INVARIANTS
  OneRefreshAtATime
  HoldsLiveToken
PROPERTIES
  RevokedForAReason
  RenewedOrReported
