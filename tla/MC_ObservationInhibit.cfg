\* One inhibit, three statuses per epoch (admission, acknowledgement, release),
\* one lease with one drive command, one restart of the bridge.
CONSTANTS
    MaxTokens = 1
    MaxStatuses = 3
    MaxDrives = 1
    MaxRestarts = 1
SPECIFICATION Spec
INVARIANTS
    TypeOK
    HeldIsInhibited
    ReceiptIsTrue
PROPERTIES
    LostInhibitInvalidates
