SPECIFICATION FairSpec
CONSTANTS
  Workloads = {w1}
  Workers = {k1}
  Providers = {p1}
  StopIds = {s1}
  MaxAttempts = 2
  Reserved <- MCReserved
  Capacity <- MCCapacity
  MaxWorkloads = 1
  Guarded = {}
  MaxQueue = 1
  MaxCrashes = 1
  None = None
  Overlay = TRUE
  MaxFaults = 1
INVARIANTS
  CompletedIsIdle
  StoppedIsGone
  RevokedBeforeCompletion
PROPERTIES
  LeasedStopSettles
CHECK_DEADLOCK FALSE
