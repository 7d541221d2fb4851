CONSTANTS
    BashJobs = {b1}
    TaskJobs = {t1}
    Waiters = {w1}
    MaxOut = 0
SPECIFICATION Spec
PROPERTY
    KilledStaysKilled
