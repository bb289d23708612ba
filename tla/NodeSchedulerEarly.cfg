SPECIFICATION EarlySpec
CONSTANTS
    Period = 9
    FirstBeat = 1
    ListPeriod = 20
    FirstList = 9
    OfflineTimeout = 27
    MaxGap = 2
    ClockModulo = 64
    MaxClock = 40
INVARIANTS HeartbeatOnSchedule PortListOnSchedule UpdateIsAnnounced
CHECK_DEADLOCK FALSE
