SPECIFICATION Spec
CONSTANTS
    Period = 9
    FirstBeat = 1
    ListPeriod = 20
    FirstList = 9
    OfflineTimeout = 27
    MaxGap = 2
    ClockModulo = 44
    MaxClock = 90
INVARIANT NodeStaysOnline
CHECK_DEADLOCK FALSE
