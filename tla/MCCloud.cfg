SPECIFICATION Spec
CONSTANTS
  None = None
  a = a  b = b  w1 = w1  w2 = w2  w3 = w3
  Projects = {a, b}
  Workloads = {w1, w2, w3}
  ProjectOf <- MCProjectOf
  Requests = {r1, r2}
  Networks = {n1}  Subnets = {s1}  Ports = {p1, p2}  Groups = {g1}
  Rules = {tcp}
  CIDRs <- Blocks
  Gateways = {None, 1}
  LegacyRange <- Legacy
  Images = {i1}
  Providers = {h1, h2}
  Dimensions <- MCDimensions
  Flavor <- MCFlavor
  Quotas <- MCQuotas
  Volumes = {v1, v2}
  Sizes = {1}
SYMMETRY Symmetry
INVARIANTS
  NetworkIsSound
  TenantsAreIsolated
  VolumesAreSound
PROPERTIES
  VolumesAreKept
