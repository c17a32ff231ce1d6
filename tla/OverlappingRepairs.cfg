\* One logical task, one batch, three commands: the first one waits for the lock while a repair
\* is made and fails, and the last one does not see the repair that it makes then.
SPECIFICATION Spec
CONSTANTS
    MaxRequests = 3
    MaxKeys = 3
    Scopes = {"s1"}
    MaxTasks = 4
    MaxFaults = 0
    Audits = 0
    MaxPlans = 1
    Slots = {1}
    Days = {"d1"}
    None = None
CHECK_DEADLOCK FALSE
INVARIANTS OneRepairAtATime
