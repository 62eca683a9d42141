SPECIFICATION Spec
CONSTANTS
  Accounts = {1, 2}
  Leases = {l1}
  None = None
  Payers = {1}
  Payees = {1}
  Candidates = {1, 2}
  Operators = {1}
  Treasuries = {}
  Pauses = {}
  Statuses = {"Verified", "Active"}
  Registered = {1}
  Endowment <- MCEndowment
  MaxBlock = 1
  MinEscrowAmount = 5
  MaxFeeBasisPoints = 2000
  RefundWindow = 1
  DisputeWindow = 1
  MaxMeteringPeriod = 1
  Caps = {10}
  Charges = {10}
  FeeRates = {}
  MaxSequence = 0
  MaxPeriodEnd = 1
  ValidatorMinStake = 5
  ValidatorUnbonding = 1
  MaxValidators = 2
  MinQuorum = 1
  TargetCommitteeSize = 1
  MaxSubmissionsPerRound = 1
  RoundDisputeWindow = 0
  ValidatorSlashAmount = 5
  Stakes = {5}
  Scores = {0}
  RoundIds = {1}
  ProviderMinStake = 5
  ProviderUnbonding = 1
  BreachRounds = 1
  BreachThreshold = 5000
  SlashConfidence = 8000
  SlashAppealWindow = 1
  ProviderSlashAmount = 6
  Bonds = {10}
  Dimensions = {d1, d2}
SYMMETRY Alike
INVARIANTS
  ReservedIsExplained
  OneRole
  NoRoundSlashedTwice
PROPERTIES
  PendingSlashHoldsBond
CHECK_DEADLOCK FALSE
