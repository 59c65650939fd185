SPECIFICATION Spec
CONSTANTS
  Callers = {c1, c2}
  Threshold = 2
  Window = 2
  ProbeTTL = 1
  CallTime = 0
  MaxCount = 3
  MaxFaults = 0
PROPERTIES
  ProbeDecides
