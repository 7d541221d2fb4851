SPECIFICATION FairSpec
CONSTANTS
    c1 = c1
    w1 = w1
    None = None
    Checks <- OneCheck
    Writes <- OneWrite
    Offers <- Offer
    Limits <- Rounds
    Enforce = TRUE
    Background = FALSE
    MaxRetries = 2
    MaxPhases = 1
    MaxBatch = 2
    MaxCalls = 3
    MaxTurns = 2
INVARIANTS
    AnswerRanItsChecks
    OnlyFailuresAreUndone
    OnlyReadersOverlap
    SignOffFollowsItsEvidence
PROPERTIES
    TurnReturns
CHECK_DEADLOCK FALSE
