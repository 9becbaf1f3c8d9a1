SPECIFICATION Spec
CONSTANTS
    MaxAttempts = 2
    MaxLaunches = 2
    MaxTrouble = 1
    MaxWaiting = 1
CHECK_DEADLOCK FALSE
INVARIANTS
    CommandRunsOnce
PROPERTIES
    ImplementsRunSlot
