CONSTANTS
    None = None
    trial = trial
    full = full
    TrialDays <- MCTrialDays
    PeriodDays <- MCPeriodDays
    Offers = {trial, full}
    Users = {u1}
    Slots = {k1, k2}
    Activators = {}
    Enablers = {}
    Deactivators = {}
    MaxHistories = 1
    MaxSessions = 2
    MaxDeliveries = 2
    MaxFaults = 0
    MaxTime = 1
SPECIFICATION Spec
SYMMETRY Symmetry
INVARIANTS
    TypeOK
    PaidHasCompletedCheckout
    GrantIsBacked
