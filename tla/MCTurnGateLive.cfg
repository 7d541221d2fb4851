CONSTANTS
    FgCalls = {f1, f2}
    BgCalls = {}
    PlanGate = plan
    Keys = {k1}
    PlanKey = exit_plan_mode
    None = None
    MaxTurns = 1
    MaxPrompts = 2
SPECIFICATION FairSpec
PROPERTIES
    CancelEndsTurn
    BypassReleases
