CONSTANTS
    d1 = d1
    d2 = d2
    None = None
    Site = Site
    Operator = Operator
    Drainers <- MCDrainers
    Routes <- MCRoutes
    Mutations <- MCEdits
    MaxRevisions = 3
    MaxVersion = 3
    MaxEditions = 3
    MaxFaults = 0
SYMMETRY Symmetry
SPECIFICATION Spec
INVARIANT PublishedIsFresh
CHECK_DEADLOCK FALSE
