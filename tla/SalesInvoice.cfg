CONSTANTS
    None = None
    Users = {u1}
    Numbers = {n1}
    Fold <- MCFold
    DueDates = {None, 1}
    Contents <- MCContents
    Limit <- MCLimit
    MonthLength = 3
    Handlers = {h1, h2}
    MaxInvoices = 1
    MaxSessions = 2
    MaxFaults = 1
    MaxTime = 2
SPECIFICATION FairSpec
CHECK_DEADLOCK FALSE
INVARIANTS
    TypeOK
    PaidThroughLink
    CreateKeepsLimit
PROPERTIES
    PaidIsUndoneOnlyByRepublication
    PaymentIsRecorded
