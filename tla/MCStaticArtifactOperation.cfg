CONSTANTS
    o1 = o1
    w1 = w1
    w2 = w2
    None = None
    Site = Site
    Ops <- MCOps
    Workers <- MCWorkers
    AttemptLimit = 3
    MaxClaims = 3
    MaxRevisions = 4
    MaxVersion = 3
SYMMETRY Symmetry
SPECIFICATION Spec
INVARIANTS
    TypeOK
    ImportedOnce
    ReceiptIsOwnCommit
    CommitIsPrepared
PROPERTY OutcomeStands
CHECK_DEADLOCK FALSE
