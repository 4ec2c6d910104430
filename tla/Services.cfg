CONSTANTS
  Peers = {p1, p2}
  Kinds = {"calls"}
  Config <- OneToken
  MaxEntries = 1
  MaxTime = 7
  MaxGrants = 3
  MaxClock = 3
  Proxies <- ProxyList
  Latency <- ProxyLatency
  Capacity <- ProxyCapacity
  Region <- ProxyRegion
  RecordTtl = 1
  Servers = {"server"}
  Threads = {"t1", "t2"}
  TicketTtl = 2
  MaxTickets = 2
  MaxIssued = 3
  Contacts = {"p", "q"}
  PeerTtl = 1
  Callees <- CalleeKinds
  LocalNats = {"Cone", "SymmetricSequential", "SymmetricRandom"}
  MaxProxies = 2
  Owners = {"p", "q"}
  Slots = {"r"}
  Bodies <- Requests
  SessionInfos <- UnknownEnums
  ExpirySecs = 1
  GateClock = 2
  MaxKeys = 2
  MaxTokens = 2
SPECIFICATION PartsSpec
INVARIANTS PartTypesOK BurstBounded RefusalDeserved DiscoveryHonest  CachesHonest
     RightPortsTried  GatewayHonest
