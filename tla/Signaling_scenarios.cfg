SPECIFICATION ScenarioSpec
CONSTANTS
    alice = alice
    bob = bob
    carol = carol
    s1 = s1
    s2 = s2
    c1 = c1
    c2 = c2
    Peer = {alice, bob, carol}
    Session = {s1, s2}
    Call = {c1, c2}
    NoPeer = NoPeer
    NoSession = NoSession
    NoCall = NoCall
    Owner <- OneEach
    Capacity = 1
    MaxPeers = 2
    MaxCalls = 1
    HasProxy = TRUE
    AnyId = TRUE
    WsSendFails = TRUE
    RegStatus = {"ONLINE"}
    FailReasons = {"relay", "final"}
    Traffic = {}
SYMMETRY Symmetry
INVARIANTS TypeOK RingsOrPending  DisconnectsOnce
PROPERTIES ParticipantsFixed
CHECK_DEADLOCK FALSE
