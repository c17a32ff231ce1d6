SPECIFICATION DataSpec
CONSTANTS
    Executions = {1, 2, 3}
    MaxFaults = 2
    None = None
    Files = {"f1"}
    MaxBackups = 3
    BackupFaults = 1
    Threads = {"t1", "t2"}
    Limited = {"e"}
    Unlimited = {}
    All = "all"
    Every <- MCEvery
    MaxAttempts = 2
    Wait = 1
    Horizon = 5
    MaxKeys = 6
    Limit = 2
    MaxChanges = 2
    Codes = {"a", "b"}
    Days = {1, 2}
    SecondMonth = 3
    MaxTasks = 3
    MaxRows = 1
    Families <- CheckedFamilies
    Main = {0, 1, 199, 200, 2100}
    Lost = {0, 1, 2, 21}
    Beijing = {0, 19, 20, 38}
    Gone <- MCGone
    StockCodes = {"a", "b", "c"}
    Times = {1, 2}
    Amounts <- MCAmounts
    KeyRows = 4
    Tables = {"t"}
    PartitionDates <- CalendarDates
    MonthsAhead = 2
    Years = {2023, 2024}
    MaxSteps = 3
    Dates = {1, 2, 3, 4}
    TradeDays = {2, 4}
    FirstDays = {1, 3}
    Topics = {1, 2}
CHECK_DEADLOCK FALSE
INVARIANTS AssetsKept SourceRead TablesConsistent RowsChecked
PROPERTIES LiveLeftAlone FilesKept AnswersSound
