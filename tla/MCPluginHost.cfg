SPECIFICATION FairSpec
CONSTANTS
    s1 = s1
    c1 = c1
    c2 = c2
    None = None
    Sessions <- OneSession
    Calls <- TwoCalls
    SessionOf <- SameSession
    MaxClients = 2
    MaxCommands = 2
    Users <- OneSession
INVARIANTS
    OneHandshake
    EveryProcessIsHeld
    ReadyToolsAreConnected
PROPERTIES
    CallReturns
CHECK_DEADLOCK FALSE
