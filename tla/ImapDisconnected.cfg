CONSTANTS
    None = None
    Boot = Boot
    plain = plain
    attached = attached
    number = number
    Users = {u1}
    Emails = {plain}
    Numbers = {}
    Keywords = 1
    Matching <- MCMatching
    Pdfs <- MCPdfs
    LooksLike = {plain}
    Intervals = {hourly}
    Allowed <- MCAllowed
    Limit <- MCLimit
    Trials = {}
    Period = 1
    DayLength = 2
    Jobs = {j1}
    Requests = {}
    Handlers = {h1}
    MaxInvoices = 3
    MaxFaults = 0
    MaxTime = 1
SPECIFICATION Spec
CHECK_DEADLOCK FALSE
PROPERTIES
    DisconnectedIsNotSynced
