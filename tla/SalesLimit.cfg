CONSTANTS
    None = None
    Users = {u1}
    Numbers = {n1, n2}
    Fold <- MCFoldDistinct
    DueDates = {None}
    Contents <- MCContents
    Limit <- MCLimit
    MonthLength = 3
    Handlers = {h1}
    MaxInvoices = 2
    MaxSessions = 1
    MaxFaults = 0
    MaxTime = 5
SPECIFICATION Spec
CHECK_DEADLOCK FALSE
INVARIANTS
    MonthlyLimit
