CONSTANTS
    Files = {f}
    Values = {a, b}
    Absent = Absent
    None = None
    Summary = Summary
    MaxTurns = 3
SPECIFICATION Spec
SYMMETRY Symmetry
INVARIANTS
    RestoreIsExact
    LiveTurnsKeepTheirCheckpoint
    BoundaryCutsAtStart
