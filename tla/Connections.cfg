CONSTANTS
  IPv6 = {a1, a2}
  IPv4 = {b1, b2}
  Ports = {p1, p2, p3}
  Peers = {"a", "b"}
  NumAddrs = 2
  Reachable <- AllReachable
  Listening = {"a", "b"}
  Probers = {t1, t2}
  Paths = 3
  RefreshPaths = 2
  Callers = {caller}
  Creator = caller
  Refreshers = {r1, r2}
  None = None
  ChannelCap = 1
  NumRecords = 1
  MaxCalls = 2
SPECIFICATION Spec
CHECK_DEADLOCK FALSE
INVARIANTS TypeOK  LostOnlyAfterFailure NeverFromTooFew
PROPERTIES ImplementsRace Ends LoserClosed  NodeAnswers
