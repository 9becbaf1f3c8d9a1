SPECIFICATION FairRelaySpec
CONSTANTS
    r = r
    i1 = i1
    i2 = i2
    p = p
    q = q
    m = m
    n = n
    NoInstance = NoInstance
    Sessions <- MCSessions
    Instances <- MCInstances
    Principals <- MCPrincipals
    Messages <- MCMessages
    Texts <- MCMessages
    Recipient <- MCRecipient
    SentBy <- MCSentBy
    SentTo <- MCSentTo
    Home = r
    Revocable <- MCRevocable
    PresenceTtl = 2
    LeaseTtl = 1
    MessageTtl = 2
    MaxAttempts = 2
    RetryDelay = 1
    MaxLag = 0
    MaxTime = 3
    MaxFence = 2
    MaxFailures = 1
CHECK_DEADLOCK FALSE
INVARIANTS
    ExpiryNeedsFailedFlush
    DeliveryKeepsLease
PROPERTIES
    QueueSettles
    ClaimIsRecorded
    RevokedLeavesInbox
