SPECIFICATION FairSpec
CONSTANTS
    alice = alice
    bob = bob
    carol = carol
    s1 = s1
    s2 = s2
    c1 = c1
    c2 = c2
    NoPeer = NoPeer
    NoSession = NoSession
    NoCall = NoCall
    Peer = {alice, bob}
    Session = {s1, s2}
    Call = {c1}
    Owner <- OneEach
    Capacity = 1
    MaxPeers = 2
    MaxCalls = 1
    HasProxy = FALSE
    AnyId = FALSE
    WsSendFails = FALSE
    RegStatus = {"ONLINE"}
    FailReasons = {}
    Traffic = {"register", "call_request", "call_accept", "call_reject"}
PROPERTIES HandlersReturn
CHECK_DEADLOCK FALSE
