CONSTANTS
    c1 = c1
    c2 = c2
    t1 = t1
    t2 = t2
    t3 = t3
    r1 = r1
    r2 = r2
    s1 = s1
    None = None
    Callers <- MCCallers
    Tokens <- MCTokens
    Revisions <- MCRevisions
    Stamps <- MCStamps
    LeaseTtls <- MCLeaseTtls
    FenceTtls <- MCFenceTtls
    MaxTime = 3
    MaxVersion = 2
SYMMETRY Symmetry
SPECIFICATION Spec
INVARIANTS
    TypeOK
    ReceiptForCurrent
    FenceExcludesLease
PROPERTIES
    ResetSticks
    NoOverwrite
    FenceFreezes
    PastReceiptsStand
