CONSTANTS
  Names <- MCNames
  Addrs <- MCAddrs
  NoName = "none"
  BigNames = {"long"}
  NULL = NULL
  Bucket <- MCBucket
  AddrBucket <- MCAddrBucket
  cachesize = 3
  Spares = 2
  BigMax = 2
  cnames <- MCcnames
  Qualified <- MCQualified
  max_cache_ttl = 0
  MaxTtl = 2
  Replies <- MCReplies
  Questions <- MCQuestions
  Probed = {"b"}
  HostsFiles <- MCHostsFiles
  LeaseSets <- MCLeaseSets
  Private <- MCPrivate
  bogus_addr = {}
  MxNames <- MCMxNames
  Config <- MCConfig
  Near = {"x"}
  neg_ttl = 0
  no_neg = FALSE
  localmx = TRUE
  filterwin2k = FALSE
  boguspriv = TRUE
SPECIFICATION Spec
INVARIANT StoreConsistent
INVARIANT LookupExact
INVARIANT RoomUnlessShadowed
INVARIANT AnswersTerminate
PROPERTY StoreImplemented
CHECK_DEADLOCK FALSE
