SPECIFICATION PlanningSpec
CONSTANTS
    DayLength = 3
    Today = 1
    Retentions = {1}
    InitialWait = 1
    MaxWait = 2
    MaxAttempts = 2
    Horizon = 10
    None = None
    MaxFaults = 1
    Switched = {"plan-daily-final"}
    Workers = 2
    Commands = {"o1"}
    Dates = 2
    Codes = {"c1", "c2"}
    MaxRequests = 2
    MaxKeys = 2
    RepairScopes = {"s1"}
    MaxTasks = 3
    Audits = 1
    MaxPlans = 2
    Slots = {2, 6}
    RepairDays = {"d1"}
    Clients = {"c1", "c2"}
    LastDay = 2
    Watched = {"stock_suspend_daily"}
    MaxBatches = 2
CHECK_DEADLOCK FALSE
INVARIANTS AttemptsUsedInTime PlansInOrder NothingTwice CatalogFits
PROPERTIES NothingLeftOut StagesPlanned
