SPECIFICATION FairSpec
CONSTANTS
    MaxAttempts = 1
    MaxLaunches = 1
    MaxTrouble = 2
    MaxWaiting = 1
CHECK_DEADLOCK FALSE
PROPERTIES
    EndIsTold
    LossIsTold
