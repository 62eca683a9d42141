SPECIFICATION FairSpec
CONSTANTS
  p1 = p1
  p2 = p2
  Providers = {p1}
  Starts <- Newcomers
  Begins = {b1}
  Joins = {j1}
  Handlers = {h1}
  Sweeper = sweeper
  MaxAttempts = 2
  MaxFaults = 0
  None = None
  Reports <- MCReports
  MaxSerial = 1
  MaxNonce = 0
PROPERTIES
  RegistrationSettles
CHECK_DEADLOCK FALSE
