SPECIFICATION Spec
CONSTANTS
    Procs = {p1, p2, p3}
    Gone = {p3}
    None = None
    EmptyGrace = 1
    LeaseMs = 2
    StaleMs = 3
    MaxLag = 1
    MaxFaults = 2
INVARIANTS TypeOK HolderIsSeen
PROPERTY LockRecovers
