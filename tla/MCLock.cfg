SPECIFICATION FairSpec
CONSTANTS
    a = a
    b = b
    d = d
    p1 = p1
    p2 = p2
    p3 = p3
    h1 = h1
    h2 = h2
    Free = Free
    Calls <- MCCalls
    Processes <- MCPair
    Hosts <- MCHosts
    Process <- MCProcessPair
    Host <- MCOneHost
    MaxTries = 2
    Mortal <- MCMortal
CHECK_DEADLOCK FALSE
INVARIANTS
    TypeOK
    HolderKeepsLock
PROPERTIES
    StaleLockGivesWay
