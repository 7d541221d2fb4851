SPECIFICATION Spec
CONSTANTS
    Tabs = {t1, t2}
    Holders = {c1, c2, c3}
    None = None
    MaxEntries = 2
    MaxPaths = 3
    MaxCommands = 2
SYMMETRY Symmetry
INVARIANTS
    WritersHoldTheirLease
    TurnsAreSaved
    NothingOutlivesItsTab
    KitIsShared
    LiveControllersHaveTheirKit
    WaitersAreWoken
CHECK_DEADLOCK FALSE
