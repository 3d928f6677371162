SPECIFICATION BootFairSpec
CONSTANTS
    Inodes = {i1, i2}
    Certs = {c1, c2}
    Junk = Junk
    None = None
    MaxFaults = 2
PROPERTIES
    OperationsEnd
    BootOpens
CHECK_DEADLOCK FALSE
