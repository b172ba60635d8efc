CONSTANTS
    None = None
    trial = trial
    full = full
    TrialDays <- MCTrialDays
    PeriodDays <- MCPeriodDays
    Offers = {trial, full}
    Users = {u1}
    Slots = {k1}
    Activators = {i1}
    Enablers = {}
    Deactivators = {i1, i2}
    MaxHistories = 1
    MaxSessions = 1
    MaxDeliveries = 1
    MaxFaults = 1
    MaxTime = 1
SPECIFICATION FairSpec
INVARIANTS
    InactiveOnlyAfterExpiry
PROPERTIES
    ImplementsEntitlement
    ExpiredIsDeactivated
