\* A pool of two threads, three tasks; a claim may fail once.
SPECIFICATION TimedSpec
CONSTANTS
    Task = {t1, t2, t3}
    MaxWorkers = 2
    None = None
    MaxErrors = 1
CHECK_DEADLOCK FALSE
INVARIANT DispatchSafe
PROPERTIES ShutdownEnds EverythingExecuted
