SPECIFICATION Spec
CONSTANTS
  N = 2
  Target <- OneTarget
  Tabs = {t1, t2}
  Locks = FALSE
  MaxFaults = 1
INVARIANTS
  EvidenceIsKept
  PointersResolve
PROPERTIES
  PhotosArrive
  OrphansGo
CHECK_DEADLOCK FALSE
