CONSTANTS
  NULL = NULL
  RaContexts <- MCRaContexts
  Soon = {1}
  ShortPeriod = 2
  RaShort = 1
  RaLong = 2
  Addrs4 <- MCAddrs4
  Addrs6 <- MCAddrs6
  Domain <- MCDomain
  Slaac <- MCSlaac
  Forever = 99
  Slop = 1
  LEASE_RETRY = 1
  BackoffMax = 2
  Ranges <- MCRanges
  NetOf <- MCNetOf
  IfaceNet <- MCIfaceNet
  Hash <- MCHash
  TagIf <- MCTagIf
  dhcp_ignore <- Ignore
  dhcp_ignore_names <- IgnoreNames
  dhcp_gen_names <- GenNames
  bootp_dynamic <- BootpDynamic
  GenName <- MCGenName
  MinTime = 1
  PING_CACHE_TIME = 1
  PingMax = 2
  DECLINE_BACKOFF = 2
  Ranges6 <- MCRanges6
  Client <- MCClient
  Options <- MCOptions
  Conf <- MCConf
  HostsFiles <- MCHostsFiles
  EthersFiles <- MCEthersFiles
  Iface <- MCIface
  if_addrs <- MCIfAddrs
  AddrIface <- MCAddrIface
  dhcp_max = 2
  Backlog = 2
  Links <- MCLinks
SPECIFICATION Spec
CHECK_DEADLOCK FALSE
INVARIANT NoTwoHolders
INVARIANT LeaseTable
INVARIANT SavedOrRetried
INVARIANT NamesExact
INVARIANT ScriptTable
INVARIANT HostsDistinct
INVARIANT RaKeepsGoing
