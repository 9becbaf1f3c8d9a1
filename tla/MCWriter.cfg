SPECIFICATION FairSpec
CONSTANTS
    p1 = p1
    p2 = p2
    p3 = p3
    h = h
    a1 = a1
    a2 = a2
    k1 = k1
    k2 = k2
    Processes <- MCProcesses
    NoProcess = NoProcess
    Hosts <- MCHosts
    Host <- MCHost
    Pid <- MCPid
    Start <- MCStart
    Agents <- MCAgents
    Tickets <- MCOneTicket
    MaxBoot = 1
    MaxFence = 3
CHECK_DEADLOCK FALSE
INVARIANTS
    HolderOwnsRow
PROPERTIES
    KeptWhileInUse
    TakeoverNeedsDeath
    DeadWriterGivesWay
