SPECIFICATION FairSpec
CONSTANTS
    Cid = {c1, c2}
    Listeners = {l1, l2}
    NoListener = NoListener
    TickDelayMs = 4
    TimeoutMs = 12
    PingLimit = 4
INVARIANTS
    TypeOK
    InterruptMeansPings
    RetriesBounded
PROPERTIES
    ConnectedHasSender
    StopIsAnnounced
    AttemptEnds
    SilentPeerIsLeft
CHECK_DEADLOCK FALSE
