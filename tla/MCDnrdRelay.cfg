SPECIFICATION Spec
CONSTANTS
  s1 = s1
  s2 = s2
  s3 = s3
  d1 = d1
  d2 = d2
  c1 = c1
  i1 = i1
  i2 = i2
  Clients = {c1}
  Ids = {i1, i2}
  NULL = NULL
  ForwardTimeout = 1
  ReactivateInterval = 1
  Servers = {s1, s2, s3}
  Domains = {d1, d2}
  SrvNodes <- ThreeServers
  Dom <- TwoDomains
  RoundRobin = {d1}
  PoolSize = 1
  MaxSockets = 1
SYMMETRY IdSymmetry
INVARIANTS
  TypeOK
  CurrentIsActive
PROPERTIES
  NoQueryToInactive
