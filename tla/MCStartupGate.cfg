SPECIFICATION BootSpec
CONSTANTS
    Inodes = {i1, i2}
    Certs = {c1, c2}
    Junk = Junk
    None = None
    MaxFaults = 4
SYMMETRY Symmetry
INVARIANTS
    StrictBehindGate
    PassesConverge
PROPERTY SecondRecoveryAgrees
CHECK_DEADLOCK FALSE
