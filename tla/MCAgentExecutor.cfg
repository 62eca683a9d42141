SPECIFICATION Spec
CONSTANTS
  Workloads = {w1, w2}
  Clients = {c1}
  MaxWorkloads = 1
  Guarded = {w1}
  MaxQueue = 1
  MaxCrashes = 1
  None = None
INVARIANTS
  NoRunningOrphan
  StoppedNotRunning
PROPERTIES
  NoSecondContainer
CHECK_DEADLOCK FALSE
