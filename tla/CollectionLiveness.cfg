\* Liveness: one task, one thread, two faults (no symmetry).
SPECIFICATION FairSpec
CONSTANTS
    b1 = b1
    t1 = t1
    t2 = t2
    Batch <- OneBatch
    Task <- OneTask
    BatchOf <- SameBatch
    TypeOf <- Backfill
    Worker = {w1}
    Token = {k1, k2, k3}
    NoToken = NoToken
    NoTask = NoTask
    NoBatch = NoBatch
    MaxAttempts = 2
    MaxFaults = 2
PROPERTIES FrozenBatchEnds
