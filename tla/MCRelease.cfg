CONSTANTS
    MAX_EXCEPTION_DAYS = 1
    TagObjects <- MCTagObjects
    MainCommits = {"c1", "c2"}
    Reports <- MCReports
    Exceptions <- MCExceptions
    Upstream <- MCUpstream
    MaxPushes = 2
    MaxAttempts = 2
    MaxDay = 1
    None = None
SPECIFICATION Spec
INVARIANTS
    PublishedSound
    OneBuild
PROPERTY
    TagNeverMoves
CHECK_DEADLOCK FALSE
