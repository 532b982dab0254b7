SPECIFICATION Spec
CONSTANTS
  s1 = s1
  s2 = s2
  s3 = s3
  d1 = d1
  d2 = d2
  c1 = c1
  i1 = i1
  i2 = i2
  Clients = {c1}
  Ids = {i1, i2}
  NULL = NULL
  ForwardTimeout = 1
  ReactivateInterval = 1
  Servers = {s1}
  Domains = {d1}
  SrvNodes <- OneServer
  Dom <- OneDomain
  RoundRobin = {}
  PoolSize = 2
  MaxSockets = 2
INVARIANT
  NoAssertFailure
