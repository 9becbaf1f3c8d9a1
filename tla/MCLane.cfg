SPECIFICATION Spec
CONSTANTS
    h1 = h1
    h2 = h2
    x = x
    y = y
    Calls <- MCCalls
    Ids <- MCIds
    MaxReviews = 2
    MaxFixes = 1
    MaxTrouble = 2
SYMMETRY Symmetry
CHECK_DEADLOCK FALSE
INVARIANTS
    SchemaRefusesOnlyReuse
    TrialsAreReviewable
    AppliedGoalIsDurable
    PostflightLostOnlyBySupersede
PROPERTIES
    RetiredStaysRetired
