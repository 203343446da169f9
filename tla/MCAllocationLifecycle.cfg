CONSTANTS
    c1 = c1
    c2 = c2
    r1 = r1
    o1 = o1
    o2 = o2
    None = None
    Crons <- MCCrons
    Requests <- MCRequests
    Keys <- MCKeys
    Ops <- MCOps
    Configured = TRUE
    TtlMs = 1
    RetainMs = 2
    WriteTime = 1
    MaxLag = 1
    PageLimit = 1
    MaxTime = 3
    MaxCounted = 2
SYMMETRY Symmetry
SPECIFICATION Spec
INVARIANTS
    TypeOK
    TombstoneIsEmpty
PROPERTIES
    DeletionFencesWork
    TombstoneStands
CHECK_DEADLOCK FALSE
