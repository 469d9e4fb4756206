SPECIFICATION Spec
CONSTANTS
    dash1 = dash1
    Dashboards = {dash1}
    Modes = {TRUE, FALSE}
    RetiredMemory = 2
    HeardFirst = TRUE
    Counts = {0, 1, 3}
    MaxEpoch = 2
    MaxSeq = 4
    MaxLeases = 2
INVARIANTS
    HandoffBeforeReady
    EndedLeaseStaysEnded
    TerminalStopIsLast
    LeaseHasNoGap
PROPERTIES
    EpochForward
CHECK_DEADLOCK FALSE
