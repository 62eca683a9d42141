SPECIFICATION Spec
CONSTANTS
  Workloads = {w1}
  Workers = {k1, k2}
  Providers = {p1}
  StopIds = {s1}
  MaxAttempts = 2
  Reserved <- MCReserved
  Capacity <- MCCapacity
  MaxWorkloads = 1
  Guarded = {}
  MaxQueue = 1
  MaxCrashes = 0
  None = None
  Overlay = FALSE
  MaxFaults = 1
SYMMETRY Symmetry
INVARIANTS
  LeaseBacksWork
  NeverRunsUnleased
PROPERTIES
  StoreIsImplemented
CHECK_DEADLOCK FALSE
