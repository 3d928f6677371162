SPECIFICATION Spec
CONSTANTS
    Inodes = {i1, i2}
    Certs = {c1, c2}
    Junk = Junk
    None = None
    MaxFaults = 3
SYMMETRY Symmetry
INVARIANTS
    Recoverable
    Attributed
    JournalAccepted
    ReturnsDurably
    Inductive
PROPERTIES
    CanonicalUntouched
    NoLostUpdate
    RollbackGivenUp
    ImplementsTransaction
CHECK_DEADLOCK FALSE
