SPECIFICATION FairSpec
CONSTANTS
    SourceIds = {"dash1", "dash2"}
    Tokens = {"t1"}
    CommandTimeout = 1
    SourceTimeout = 2
    StopHeartbeat = 2
    ActionDelay = 1
    ActionGuard = 2
    HoldTimes = {2}
    VMax = 1
    SourceMemory = 2
    TickPeriod = 1
    MaxTick = 1
    MaxSeq = 1
INVARIANTS
    ActionNotInterrupted
    MotionOwned
    MotionTracked
    BridgeWatchdogBound
PROPERTIES
    SilenceStops
