\* One batch of two tasks, one thread, one fault; the administrator may skip or cancel anything.
SPECIFICATION Spec
CONSTANTS
    b1 = b1
    t1 = t1
    t2 = t2
    Batch <- OneBatch
    Task <- TwoTasks
    BatchOf <- SameBatch
    TypeOf <- Daily
    Worker = {w1}
    Token = {k1, k2, k3}
    NoToken = NoToken
    NoTask = NoTask
    NoBatch = NoBatch
    MaxAttempts = 2
    MaxFaults = 1
SYMMETRY Interchangeable
INVARIANTS ClosedBatchSettled CancelledBatchDead LeaseDiscipline
PROPERTIES ImplementsLedger
