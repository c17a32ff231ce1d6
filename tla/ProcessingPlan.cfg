\* A batch of three datasets, each needing the ones before it, and a repair of one of
\* them; two threads, a timeout, a retry and a skip.
SPECIFICATION Spec
CONSTANTS
    b1 = b1
    b2 = b2
    master = master
    core = core
    extra = extra
    Batch <- TwoBatches
    Dataset <- ThreeDatasets
    Affected <- AffectsCore
    Needs <- Chain
    Scope <- SameDate
    LastCode = 1
    Revision <- OneRevision
    Worker = {w1, w2}
    None = None
    MaxRunning = 2
    MaxAttempts = 1
    MaxFaults = 1
    MaxRetries = 1
    MaxStops = 1
CHECK_DEADLOCK FALSE
SYMMETRY Threads
INVARIANTS NoDegradedExecution NothingOverlooked ConcurrencyLimits
PROPERTIES PublishedByLeaseHolder ImplementsReleases
