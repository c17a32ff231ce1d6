\* One task, two threads.
SPECIFICATION Spec
CONSTANTS
    b1 = b1
    t1 = t1
    t2 = t2
    Batch <- OneBatch
    Task <- OneTask
    BatchOf <- SameBatch
    TypeOf <- Daily
    Worker = {w1, w2}
    Token = {k1, k2, k3}
    NoToken = NoToken
    NoTask = NoTask
    NoBatch = NoBatch
    MaxAttempts = 2
    MaxFaults = 3
SYMMETRY Interchangeable
INVARIANTS ResultMatchesAsset RetryBudget
PROPERTIES OutcomeFinality RegisteredByLeaseHolder
