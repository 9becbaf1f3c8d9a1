SPECIFICATION FairSpec
CONSTANTS
    MaxOrders = 1
    MaxTrouble = 2
CHECK_DEADLOCK FALSE
INVARIANTS
    Dormant
    AwakeWhenRunning
    ResultIsTold
PROPERTIES
    NoLimbo
