SPECIFICATION FairSpec
CONSTANTS
    alice = alice
    bob = bob
    carol = carol
    s1 = s1
    s2 = s2
    c1 = c1
    c2 = c2
    NoPeer = NoPeer
    NoSession = NoSession
    NoCall = NoCall
    Peer = {alice}
    Session = {s1, s2}
    Call = {c1}
    Owner <- AliceOnly
    Capacity = 1
    MaxPeers = 2
    MaxCalls = 1
    HasProxy = FALSE
    AnyId = FALSE
    WsSendFails = TRUE
    RegStatus = {"ONLINE"}
    FailReasons = {"final"}
    Traffic = {"refused", "register", "unregister", "rest_register", "rest_update", "rest_unregister", "call_failed", "call_ended"}
PROPERTIES ForwardTaskEnds
CHECK_DEADLOCK FALSE
