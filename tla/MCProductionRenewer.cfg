SPECIFICATION FairSpec
CONSTANTS
    Runs = {r1, r2}
    Old = Old
    None = None
    Backlog = 2
    MaxFaults = 2
INVARIANTS
    NothingUnderstated
    NothingOverstated
    ResultHolds
    RetrySafe
    SignsForSettledKeystore
    RenewalSettles
PROPERTIES
    RunsEnd
CHECK_DEADLOCK FALSE
