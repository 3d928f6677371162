SPECIFICATION FairSpec
CONSTANT Policies <- MCPolicies
INVARIANTS
    WithinDeadline
    ReadyIsVerified
PROPERTY VerificationEnds
CHECK_DEADLOCK FALSE
