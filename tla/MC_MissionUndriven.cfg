SPECIFICATION Spec
CONSTANTS
    m1 = m1
    Missions = {m1}
    Visits = 2
    ConfirmBefore = {}
    ConfirmAfter = {1, 2}
    MaxRequests = 4
    MaxGoals = 1
    MaxFaults = 1
    MaxCrashes = 0
INVARIANT CompletedWasReached
CHECK_DEADLOCK FALSE
