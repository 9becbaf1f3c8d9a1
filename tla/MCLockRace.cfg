SPECIFICATION Spec
CONSTANTS
    a = a
    b = b
    d = d
    p1 = p1
    p2 = p2
    p3 = p3
    h1 = h1
    h2 = h2
    Free = Free
    Calls <- MCCalls
    Processes <- MCProcesses
    Hosts <- MCHosts
    Process <- MCProcess
    Host <- MCOneHost
    MaxTries = 4
    Mortal <- MCMortal
CHECK_DEADLOCK FALSE
PROPERTIES
    TakesOverOnlyTheDead
