SPECIFICATION Spec
CONSTANTS
    Inodes = {i1, i2}
    Certs = {c1, c2}
    Junk = Junk
    None = None
    MaxFaults = 1
SYMMETRY Symmetry
PROPERTY PendingVerifiable
CHECK_DEADLOCK FALSE
