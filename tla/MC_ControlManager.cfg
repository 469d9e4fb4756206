SPECIFICATION FairSpec
CONSTANTS
    HumanSources = {"keyboard"}
    Sessions = {"ws1"}
    LeaseBind = 3
    LeaseHeartbeat = 2
    CommandTimeout = 1
    NavCommandTimeout = 2
    BridgeStale = 2
    LowstateStale = 1
    GuardTimes = {2}
    VLimit = 1
    SlewRate = 1
    FirstElapsed = 0
    MaxElapsed = 1
    TickPeriod = 1
    MaxLeases = 2
    MaxSeq = 1
    MaxOutputs = 2
INVARIANTS
    DriveHasOwner
    WatchdogBound
PROPERTIES
    RampBounded
    KeepsPromise
    SilenceStops
