SPECIFICATION FairSpec
CONSTANTS
    Sessions = {s1}
    MaxCalls = 4
    MaxAsks = 2
    Patient = TRUE
INVARIANTS
    RanOnlyIfAllowed
    NothingLeftOpen
    CancelIsWired
PROPERTIES
    ServeReturns
CHECK_DEADLOCK FALSE
