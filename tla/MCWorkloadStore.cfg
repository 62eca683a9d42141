SPECIFICATION Spec
CONSTANTS
  w1 = w1
  w2 = w2
  p1 = p1
  p2 = p2
  Workloads = {w1, w2}
  Workers = {k1, k2}
  Providers = {p1, p2}
  StopIds = {s1, s2}
  MaxAttempts = 2
  Reserved <- MCReserved
  Capacity <- MCCapacity
  None = None
SYMMETRY Symmetry
INVARIANTS
  TypeOK
  SnapshotIsExact
  StopIsFinal
  CapacityRespected
  AttemptBudget
PROPERTIES
  ImplementsLifecycle
CHECK_DEADLOCK FALSE
