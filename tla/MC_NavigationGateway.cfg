\* Two sessions, two goals, one fault of the environment.
CONSTANTS
    MaxSessions = 2
    MaxGoals = 2
    MaxFaults = 1
SPECIFICATION Spec
INVARIANTS
    TypeOK
    MotionHasActiveGoal
    NoOrphanGoal
PROPERTIES
    GoalNeverRevives
    LostLeaseCloses
