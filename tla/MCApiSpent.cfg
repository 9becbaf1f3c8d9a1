SPECIFICATION FairSpec
CONSTANTS
    a = a
    b = b
    auto = auto
    person = person
    unk = unk
    None = None
    Handlers <- MCHandlers
    Automatic <- MCAutomatic
    Operator <- MCOperator
    Unknown <- MCUnknown
    MaxTurns = 1
    MaxTime = 2
    MaxFaults = 0
    MaxRestarts = 0
    MaxEdits = 0
    MaxUpdates = 0
    MaxEvents = 0
CHECK_DEADLOCK FALSE
PROPERTIES
    RefusalIsHandedOver
