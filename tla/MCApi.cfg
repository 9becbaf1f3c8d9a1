SPECIFICATION FairSpec
CONSTANTS
    a = a
    b = b
    auto = auto
    person = person
    unk = unk
    None = None
    Handlers <- MCHandlers
    Automatic <- MCAutomatic
    Operator <- MCOperator
    Unknown <- MCUnknown
    MaxTurns = 2
    MaxTime = 2
    MaxFaults = 1
    MaxRestarts = 1
    MaxEdits = 1
    MaxUpdates = 1
    MaxEvents = 1
CHECK_DEADLOCK FALSE
INVARIANTS
    OneInFlight
PROPERTIES
    NewerIncidentKept
    ResumesTheLast
    OneFallback
    AutomaticFailureResumes
    OperatorIsTold
