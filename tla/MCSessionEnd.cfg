SPECIFICATION Spec
CONSTANTS
    Cid = {c1, c2}
    Listeners = {l1, l2}
    NoListener = NoListener
    TickDelayMs = 4
    TimeoutMs = 12
    PingLimit = 4
PROPERTIES
    EndIsTold
CHECK_DEADLOCK FALSE
