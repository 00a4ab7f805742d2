SPECIFICATION SenderSpec
CONSTANTS
    MaxFrame = 2
    Seqs = {1, 2, 3}
    Size <- SizeOf
    Rates = {1, 16}
    MinRates = {0}
    Garbage = {0, 5}
    MaxSpaceQueueMs = 3
    MinPacketLimitMs = 1
    MaxIntervalMs = 1
    IntervalWindowMs = 1
    IntMax = 1000000
INVARIANTS
    TypeOK
    HasUnsent
    SizeAccounted
    BudgetInWindow
    NothingForgotten
    FirstSentInOrder
PROPERTIES
    ImplementsPacer
CHECK_DEADLOCK FALSE
