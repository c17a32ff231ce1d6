\* The daily data and two repairs, two of them with limits, and one fault or command.
SPECIFICATION MCSpec
CONSTANTS
    CoreBatch <- MCDeliveries
    LimitBatch <- MCLimits
    Sealed <- MCSealed
    Worker <- MCWorkers
    b1 = b1
    b2 = b2
    b3 = b3
    w1 = w1
    w2 = w2
    None = None
    MaxAttempts = 1
    MaxFaults = 1
    MaxCommands = 1
INVARIANT LimitsOfCores
PROPERTIES FreshestCarriesOn WithdrawnLimitReturns
CHECK_DEADLOCK FALSE
