CONSTANTS
    Nothing = Nothing
    Years = {23}
    MonthDays = {"1001"}
    Digits = {1, 2}
    Texts = {}
    MaxLines = 2

SPECIFICATION Spec
CHECK_DEADLOCK FALSE

INVARIANTS
    FormatIsRead
