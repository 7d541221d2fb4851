CONSTANTS
    BashJobs = {b1}
    TaskJobs = {t1}
    Waiters = {w1}
    MaxOut = 1
SPECIFICATION FairSpec
INVARIANT
    OneTrueNote
PROPERTIES
    ReportsAreFinal
    ImplementsContract
    StoppedJobEnds
    WaitEnds
