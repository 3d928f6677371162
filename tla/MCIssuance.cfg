CONSTANTS
    DAY = 3
    DEFAULT_CLOCK_SKEW = 2
    MAX_CERTIFICATE_LIFETIME_DAYS = 3
    SOCKET_TIMEOUT = 2
    Loaders = {"renewer", "executor"}
    Policies <- MCPolicies
    NameLists <- MCNameLists
    MaxEdits = 1
    MaxBackdate = 3
    RenewBefore = {1, 2}
    Start = 3
    MaxTicks = 4
    MaxRuns = 1
    None = None
SPECIFICATION Spec
INVARIANTS
    WholePolicy
    KeyMatches
    InstalledAsRequested
    NoInstallAfterGiveUp
    RenewNeverWastes
CHECK_DEADLOCK FALSE
