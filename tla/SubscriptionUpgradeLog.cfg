CONSTANTS
    None = None
    trial = trial
    full = full
    TrialDays <- MCTrialDays
    PeriodDays <- MCPeriodDays
    Offers = {trial, full}
    Users = {u1}
    Slots = {k1}
    Activators = {}
    Enablers = {}
    Deactivators = {}
    MaxHistories = 1
    MaxSessions = 1
    MaxDeliveries = 1
    MaxFaults = 0
    MaxTime = 1
SPECIFICATION Spec
INVARIANTS
    FirstPaymentIsNoUpgrade
