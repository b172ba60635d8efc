CONSTANTS
    None = None
    trial = trial
    full = full
    TrialDays <- MCTrialDays
    PeriodDays <- MCPeriodDays
    Offers = {trial}
    Users = {u1, u2}
    Slots = {k1}
    Activators = {i1}
    Enablers = {i1}
    Deactivators = {}
    MaxHistories = 2
    MaxSessions = 0
    MaxDeliveries = 1
    MaxFaults = 1
    MaxTime = 0
SPECIFICATION FairSpec
INVARIANTS
    ImapRequiresPlan
PROPERTIES
    TrialIsActivated
