CONSTANTS
    None = None
    Gone = Gone
    Nothing = Nothing
    h1 = h1
    h2 = h2
    a = a
    b = b
    c = c
    d = d
    Handlers = {h1, h2}
    MaxFaults = 1

    Addresses = {a, b}
    MaxCodes = 2
    MaxTokens = 1
    OtpAttempts = 1
    OtpLife = 1
    TokenLife = 2

    Members = {c}
    MaxLoginCodes = 1
    MaxSwitchCodes = 1
    LoginAttempts = 2
    LoginLife = 1

    Owners = {a, b}
    MaxResetCodes = 2
    MaxCryptoTokens = 1
    ResetLife = 1

    Clients = {c}
    Accountants = {a, b}
    MaxRequests = 1

    Details = {a, b}
    MaxMethods = 3

    PlanNames = {c}
    Amounts = {a, b}
    MaxPlans = 1
    MaxRows = 2
    MaxPrices = 2
    MaxHistories = 1

    Priority = {"MEDIUM", "HIGH"}
    MaxTickets = 2

    Offered = {a, b}
    MaxQuotations = 2

    AccountHolders = {a, b}
    Keys = {c, d}

    Years = {23}
    MonthDays = {c}
    Digits = {1, 2}
    Texts = {a, b}
    MaxLines = 3

SPECIFICATION Spec
CHECK_DEADLOCK FALSE
SYMMETRY Symmetry

INVARIANTS
    BackOfficeTypeOK
    AccountIsConfirmed
    OtpGuessesBounded
    LoginGuessesBounded
    OpenedBounded
    SwitchedBounded
    ResetIsConfirmed
    ResetsBounded
    ApprovalLinks
    DefaultsBounded
    SessionChargesHistory
    PricingReplaced
    TicketsHaveCodes
    SentIsMailed
    ReportedIsStored
    StatementIsRead

PROPERTIES
    DeletedKeepsTwoFactor
    LinkIsRespected
    PreviewIsAllowed
    PriorityIsKept
    MailIsCurrent
