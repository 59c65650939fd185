SPECIFICATION Spec
CONSTANTS
  Syncs = {s1, s2}
  Cron = cron
  User = user
  Free = free
  MaxFaults = 1
  FailsOpen = FALSE
PROPERTIES
  RevokedOnlyWhenDead
