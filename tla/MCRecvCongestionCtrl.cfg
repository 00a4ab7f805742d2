SPECIFICATION Spec
CONSTANTS
    MaxSeq = 4
    Half = 3
    BackWindow = 1
    MaxIds = 3
    MaxFeedback = 4
    MinDistance = 2
    Window = 1
    Delay = 1
INVARIANTS
    HighestAgree
    SamplesFit
PROPERTIES
    PassedOverOnlyAtZero
    PendingIsKept
    NoFalseLoss
CHECK_DEADLOCK FALSE
