\* Days of six ticks, three attempts: the documented retry at the cutoff is not granted.
SPECIFICATION Spec
CONSTANTS
    DayLength = 6
    Today = 1
    Retentions = {1}
    InitialWait = 1
    MaxWait = 2
    MaxAttempts = 3
    Horizon = 20
    None = None
CHECK_DEADLOCK FALSE
INVARIANTS CutoffRetryKept
