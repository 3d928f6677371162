SPECIFICATION Spec
CONSTANTS
    Inodes = {i1, i2}
    Certs = {c1, c2}
    Junk = Junk
    None = None
    MaxFaults = 2
SYMMETRY Symmetry
INVARIANT LiveVerifiedAlone
CHECK_DEADLOCK FALSE
