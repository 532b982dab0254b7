SPECIFICATION Spec
CONSTANTS
  cmd = cmd
  local = local
  res = res
  dom = dom
  q1 = q1
  q2 = q2
  i1 = i1
  i2 = i2
  NULL = NULL
  FREED = FREED
  NoCrc = NoCrc
  Ids = {i1, i2}
  ResolvServers = {res}
  Files <- ResFiles
  DomainOf <- Domains
  QDomain <- Asked
  ftabsize = 1
  TIMEOUT = 1
  RANDOM_SOCKS = 1
  MaxRef = 2
  CmdList <- TwoCmd
  Queries <- TwoQuestions
  Bound = {local}
  OptionSets <- Options
SYMMETRY IdSymmetry
INVARIANTS
  RefCountsExact
  AnswersCounted
  ResolvServersForgotten
