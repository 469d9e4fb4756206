SPECIFICATION Spec
CONSTANTS
    m1 = m1
    m2 = m2
    Missions = {m1, m2}
    Visits = 2
    ConfirmBefore = {2}
    ConfirmAfter = {2}
    MaxRequests = 3
    MaxGoals = 2
    MaxFaults = 1
    MaxCrashes = 1
INVARIANTS
    TypeOK
    StoredIsLoadable
    FenceCoversGoal
    CompletedIsExplained
PROPERTIES
    EndedStaysEnded
    GoalEndIsNoticed
CHECK_DEADLOCK FALSE
