SPECIFICATION Spec
CONSTANTS
    MaxMessages = 4
    MaxPaths = 2
    MaxCommands = 3
    MaxCrashes = 1
    Width = 2
    Naming = {TRUE}
    Held = TRUE
INVARIANTS
    SentIsPaired
    ResultsFollowCalls
    AtMostOnePromptAtRisk
    OneConversationPerFile
PROPERTIES
    DroppedIsKept
CHECK_DEADLOCK FALSE
