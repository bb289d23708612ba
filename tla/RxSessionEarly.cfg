SPECIFICATION EarlySpec
CONSTANTS
    Node = {n1}
    Frames <- FramesOfTransfers
    Extents = {0, 1, 2}
    HeapBlocks = 3
    TidModulo = 4
    TidTimeout = 1
    ClockModulo = 4
    MaxClock = 6
    NoSession = NoSession
    NoTransfer = NoTransfer
INVARIANTS HeapIsConserved DeliveredWhole NoOverrun IntactIsDelivered
PROPERTY TimeoutReadmits
CHECK_DEADLOCK FALSE
