SPECIFICATION FairSpec
CONSTANTS
    MaxTries = 2
    MaxTurns = 3
    MaxTrouble = 2
CHECK_DEADLOCK FALSE
INVARIANTS
    JudgeSeesFrozenWork
    HeldMeansHeld
    ResolutionHasEffect
PROPERTIES
    ReviewProceeds
