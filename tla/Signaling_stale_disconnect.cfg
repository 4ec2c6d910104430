SPECIFICATION Spec
CONSTANTS
    alice = alice
    bob = bob
    carol = carol
    s1 = s1
    s2 = s2
    c1 = c1
    c2 = c2
    NoPeer = NoPeer
    NoSession = NoSession
    NoCall = NoCall
    Peer = {alice, bob}
    Session = {s1, s2}
    Call = {}
    Owner <- AliceOnly
    Capacity = 1
    MaxPeers = 2
    MaxCalls = 1
    HasProxy = FALSE
    AnyId = FALSE
    WsSendFails = FALSE
    RegStatus = {"ONLINE"}
    FailReasons = {}
    Traffic = {"register"}
PROPERTIES DisconnectsOwnSession
CHECK_DEADLOCK FALSE
