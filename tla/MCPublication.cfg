CONSTANTS
    d1 = d1
    d2 = d2
    None = None
    Site = Site
    Operator = Operator
    Drainers <- MCDrainers
    Routes <- MCRoutes
    Mutations <- MCMutations
    MaxRevisions = 3
    MaxVersion = 3
    MaxEditions = 3
    MaxFaults = 1
SYMMETRY Symmetry
SPECIFICATION Spec
INVARIANTS
    TypeOK
    PublishedRendered
    OutcomeIsReceipt
    DeletedIsAnswered
PROPERTY PromotionAdvances
CHECK_DEADLOCK FALSE
