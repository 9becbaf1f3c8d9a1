SPECIFICATION Spec
CONSTANTS
    r = r
    i1 = i1
    i2 = i2
    p = p
    q = q
    m = m
    k = k
    NoInstance = NoInstance
    Sessions <- MCSessions
    Instances <- MCInstances
    Principals <- MCPrincipals
    Messages <- MCMessages
    Texts <- MCTexts
    Recipient <- MCRecipient
    SentBy <- MCSentBy
    SentTo <- MCSentTo
    PresenceTtl = 1
    LeaseTtl = 1
    MessageTtl = 2
    MaxAttempts = 2
    RetryDelay = 1
    MaxLag = 1
    MaxTime = 2
    MaxFence = 3
SYMMETRY Symmetry
CONSTRAINT RelevantPolicy
INVARIANTS
    StrictFifo
    AckFencing
    OutcomeMatchesRow
    NoRevokedBacklog
PROPERTIES
    ImplementsLifecycle
