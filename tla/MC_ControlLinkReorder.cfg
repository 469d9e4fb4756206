SPECIFICATION Spec
CONSTANTS
    dash1 = dash1
    Dashboards = {dash1}
    Modes = {TRUE}
    RetiredMemory = 2
    HeardFirst = FALSE
    Counts = {3}
    MaxEpoch = 2
    MaxSeq = 4
    MaxLeases = 1
PROPERTIES
    EpochForward
CHECK_DEADLOCK FALSE
