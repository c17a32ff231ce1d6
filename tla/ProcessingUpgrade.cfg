\* Two datasets, the second one upgraded, one thread, a fault and a retry.
SPECIFICATION FairSpec
CONSTANTS
    b1 = b1
    b2 = b2
    master = master
    core = core
    extra = extra
    Batch <- OneBatch
    Dataset <- TwoDatasets
    Affected <- AffectsAll
    Needs <- Chain
    Scope <- Dates
    LastCode = 2
    Revision <- DerivedRevisions
    Worker = {w1}
    None = None
    MaxRunning = 1
    MaxAttempts = 2
    MaxFaults = 1
    MaxRetries = 1
    MaxStops = 0
CHECK_DEADLOCK FALSE
INVARIANTS OldTasksRetired
PROPERTIES QueuedEnds WakeUp
