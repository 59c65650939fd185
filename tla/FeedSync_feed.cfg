SPECIFICATION Spec
CONSTANTS
  Stays = {b1, b2}
  Known = {b1}
  Cron = cron
  Manual = manual
  FaultAt = {"absent", "result"}
  MaxChanges = 2
  MaxFaults = 1
PROPERTIES
  Converges
  Detected
  CrewIsTold
