SPECIFICATION ConnectionsSpec
CONSTANTS
  Conns = {1, 2}
  bufferSpace = 2
  coFirst = 1
  RinetdConfs <- MCRinetdConfs
  TftpClients = {1, 2, 3, 4}
  TftpListeners = {1, 2}
  TftpLoads <- MCTftpLoads
  DiskFile <- MCDiskFile
  DefaultBlock = 2
  MaxBlock = 3
  BlockMod = 4
  tftp_max = 1
  PathMax = 2
  LogSetups <- MCLogSetups
  HavegedSetups <- MCHavegedSetups
  TestUnits <- MCTestUnits
  AisReps = 1
  FillTot = 2
  FillRun = 4
  poolSize = 3
  MaxRounds = 4
  Replies <- MCReplies
  Watchers = {1, 2, 3}
  WatchLoads <- MCWatchLoads
  Commands <- MCCommands
  MaxTries = 3
  MaxStarts = 2
  MaxSignals = 2
  PathLoads <- MCPathLoads
  JunkDomains <- MCJunkDomains
  EventLoads <- MCEventLoads
  TcpLoads <- MCTcpLoads
  PixelLoads <- MCPixelLoads
  k1 = k1
  k2 = k2
  Keys = {k1, k2}
  Params <- MCParams
  CACHE_TIME = 2
  CACHE_MAXTIME = 3
  CACHE_MINCYCLE = 2
  CACHE_HIGHWATER = 2
  CACHE_LOWWATER = 1
  Gap = 2
  MaxEntries = 3
INVARIANT RebindChecked
CHECK_DEADLOCK FALSE
