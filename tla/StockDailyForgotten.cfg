SPECIFICATION Spec
CONSTANTS
    CoreBatch <- MCCores
    LimitBatch <- MCLimits
    Sealed <- MCSealed
    Worker <- MCWorkers
    b1 = b1
    b2 = b2
    b3 = b3
    w1 = w1
    w2 = w2
    None = None
    MaxAttempts = 2
    MaxFaults = 0
    MaxCommands = 0
INVARIANT LimitNotForgotten
CHECK_DEADLOCK FALSE
