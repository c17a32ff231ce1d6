SPECIFICATION Spec
CONSTANTS
    None = None
    Dates = {1, 2, 3, 4}
    TradeDays = {2, 4}
    FirstDays = {1, 3}
    Topics = {1, 2}
CHECK_DEADLOCK FALSE
INVARIANTS HistoryAsksForAll
