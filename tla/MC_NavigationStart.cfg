CONSTANTS
    MaxStarts = 2
    MaxOperator = 1
    MaxFaults = 1
SPECIFICATION Spec
INVARIANTS
    TypeOK
    ArmedIsOwned
PROPERTIES
    ForeignMappingSpared
    TerminalSparesReplacement
    StopSettles
    FailedJobDisarms
