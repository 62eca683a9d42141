SPECIFICATION Spec
CONSTANTS
  p1 = p1
  p2 = p2
  Providers = {p1, p2}
  Starts <- MCStarts
  Begins = {b1}
  Joins = {j1, j2}
  Handlers = {h1, h2}
  Sweeper = sweeper
  MaxAttempts = 2
  MaxFaults = 1
  None = None
  Reports <- MCReports
  MaxSerial = 2
  MaxNonce = 1
SYMMETRY Symmetry
INVARIANTS
  JoinIsSound
  CarriersAreRegistered
PROPERTIES
  HeartbeatsMonotone
  
CHECK_DEADLOCK FALSE
