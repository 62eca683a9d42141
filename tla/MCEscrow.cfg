SPECIFICATION Spec
CONSTANTS
  Accounts = {1, 2}
  Leases = {l1, l2}
  None = None
  Payers = {1}
  Payees = {2}
  Candidates = {}
  Operators = {}
  Treasuries = {2}
  Pauses = {TRUE, FALSE}
  Statuses = {}
  Registered = {2}
  Endowment <- MCEndowment
  MaxBlock = 2
  MinEscrowAmount = 5
  MaxFeeBasisPoints = 2000
  RefundWindow = 1
  DisputeWindow = 1
  MaxMeteringPeriod = 1
  Caps = {10}
  Charges = {5, 10}
  FeeRates = {2000}
  MaxSequence = 2
  MaxPeriodEnd = 2
  ValidatorMinStake = 5
  ValidatorUnbonding = 1
  MaxValidators = 1
  MinQuorum = 1
  TargetCommitteeSize = 1
  MaxSubmissionsPerRound = 1
  RoundDisputeWindow = 1
  ValidatorSlashAmount = 5
  Stakes = {5}
  Scores = {0}
  RoundIds = {}
  ProviderMinStake = 5
  ProviderUnbonding = 1
  BreachRounds = 1
  BreachThreshold = 5000
  SlashConfidence = 8000
  SlashAppealWindow = 1
  ProviderSlashAmount = 5
  Bonds = {10}
  Dimensions = {}
SYMMETRY Symmetry
INVARIANTS
  CountIsExact
  NoSecondBilledTwice
PROPERTIES
  SettlementIsFinal
CHECK_DEADLOCK FALSE
