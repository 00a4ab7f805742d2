SPECIFICATION Spec
CONSTANTS
    MinConf = 2
    MaxConf = 4
    Step = 1
    LimitPackets = 3
    StartPhase = 1
    FeedbackInterval = 1
    TimeoutInterval = 1
    IncreaseInterval = 1
    DecreaseInterval = 0
    Slots = 4
    Word = 4
    Epoch = 4
    Horizon = 6
    Wait = 1
    NotifyTimer = 2
    DelayRates = {3, 9}
    AckedRates = {0, 4}
    Fractions = {0, 40}
    PacketCounts = {2}
    Rtts = {1}
    Garbage <- MCGarbage
INVARIANTS
    CapsHold
    CutOncePerReport
    PacerFollows
PROPERTIES
    GrowthBounded
