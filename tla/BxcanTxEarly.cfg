SPECIFICATION EarlySpec
CONSTANTS
    Subject = {1, 2, 3}
    Response = {}
    FramesOf <- FramesOfPort
    Capacity = 4
    HeapBlocks = 4
    CounterModulo = 4
    TidModulo = 2
    MaxPushes = 1
    Timeout = 1
    ClockModulo = 4
INVARIANTS BusKeepsOrder NoFrameVanishes HolesAreAborted
PROPERTIES NoEarlyAbort StaleFramesAreAborted EventuallyDrained
