CONSTANTS
    None = None
    Boot = Boot
    plain = plain
    attached = attached
    number = number
    Users = {u1}
    Emails = {attached}
    Numbers = {number}
    Keywords = 2
    Matching <- MCMatching
    Pdfs <- MCPdfs
    LooksLike = {attached}
    Intervals = {hourly}
    Allowed <- MCAllowed
    Limit <- MCLimit
    Trials = {}
    Period = 2
    DayLength = 2
    Jobs = {j1}
    Requests = {}
    Handlers = {h1}
    MaxInvoices = 2
    MaxFaults = 1
    MaxTime = 1
SPECIFICATION FairSpec
CHECK_DEADLOCK FALSE
INVARIANTS
    TypeOK
PROPERTIES
    WindowIsImported
    RestartRestoresCron
