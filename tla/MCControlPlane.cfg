SPECIFICATION Spec
CONSTANTS
  None = None
  p1 = p1  w1 = w1
  Projects = {p1}
  Workloads = {w1}
  ProjectOf <- MCProjectOf
  Requests = {r1, r2}
  Users = {u1, u2}
  Accounts = {x1, x2}
  Keys = {k1, k2}
  Challenges = {c1, c2}
  Addresses = {here}
  Tenants = {t1}
  Limit = 2
  Providers = {h1, h2}
  Rates <- MCRates
  Usages <- MCUsages
  MaxSequence = 3
  MaxUint = 15
  MaxInt = 7
  Hosts = {1, 2}
  Jobs = {1, 2}
  Need <- MCNeed
  Total <- MCTotal
  Aspects <- MCAspects
  Reports <- MCReports
  Weights <- MCWeights
  MaxReputationScore = 10
  DefaultReputationScore = 5
  Bps = 100
  SignBit = 32768
  Word = 16384
  MTU = 25
  Overhead = 1
  MaxTries = 3
  MaxRelease = 3
  TrustedKey = trusted
  OtherKey = other
  Unknown = unknown
  TTL = 2
SYMMETRY Symmetry
INVARIANTS
  AccessIsSound
  BillingIsSound
  PlacementIsSound
PROPERTIES
  BilledInOrder
  ReleasesAreTrusted
