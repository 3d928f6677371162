SPECIFICATION FairSpec
CONSTANT Procs = {p1, p2}
INVARIANTS
    NothingOverlooked
    NoChildLeft
PROPERTY ScanEnds
CHECK_DEADLOCK FALSE
