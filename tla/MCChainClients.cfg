SPECIFICATION FairSpec
CONSTANTS
  None = None
  MaxFaults = 1
  Providers = {q1, q2}
  Capacities = {1, 2}
  MaxWithdrawAttempts = 1
  MaxChanges = 2
  v1 = v1
  v2 = v2
  p1 = p1
  Self = self
  Peers <- MCPeers
  Registry = {p1}
  Rounds <- MCRounds
  Dimensions = {"network", "compute"}
  Seed <- MCSeed
  TargetCommitteeSize = 2
  Responses <- MCResponses
  ProbeBits = 4
  ProbesPerRound = 2
  Claims <- MCClaims
  ToleranceBps = 7000
  MaxCloseAttempts = 2
  MaxCommands = 1
INVARIANTS
  RoundsAreSound
PROPERTIES
  
  AssignedIsSubmitted
CHECK_DEADLOCK FALSE
