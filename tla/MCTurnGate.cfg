CONSTANTS
    FgCalls = {f1}
    BgCalls = {b1}
    PlanGate = plan
    Keys = {k1}
    PlanKey = exit_plan_mode
    None = None
    MaxTurns = 1
    MaxPrompts = 2
SPECIFICATION Spec
INVARIANTS
    OnePromptAtATime
    BypassLeavesNothingPending
    PromptsAreAnsweredOnce
