SPECIFICATION FairSpec
CONSTANTS
  Workloads = {w1}
  Clients = {c1, c2}
  MaxWorkloads = 1
  Guarded = {w1}
  MaxQueue = 2
  MaxCrashes = 1
  None = None
PROPERTIES
  CallsAnswered
CHECK_DEADLOCK FALSE
