SPECIFICATION Spec
CONSTANTS
    None = None
    Codes = {"a", "b"}
    Times = {1, 2}
    Amounts <- MCAmounts
    MaxRows = 3
CHECK_DEADLOCK FALSE
INVARIANTS ConflictsOut
