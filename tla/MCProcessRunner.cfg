SPECIFICATION FairSpec
CONSTANTS
    MAX_IO = 2
    Data = 2
    PipeSize = 1
INVARIANTS
    ChildExcludes
    LeavesNobody
    WholeOutput
PROPERTIES
    NoPipeDeadlock
    DeadlineEnds
CHECK_DEADLOCK FALSE
