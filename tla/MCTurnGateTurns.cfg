CONSTANTS
    FgCalls = {f1}
    BgCalls = {}
    PlanGate = plan
    Keys = {k1}
    PlanKey = exit_plan_mode
    None = None
    MaxTurns = 2
    MaxPrompts = 2
SPECIFICATION Spec
INVARIANTS
    CancelIsWired
    AutoApproveEnds
    PlansRunWhenApproved
