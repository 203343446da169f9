CONSTANTS
    d1 = d1
    d2 = d2
    p1 = p1
    q1 = q1
    k1 = k1
    k2 = k2
    None = None
    Dispatches <- MCDispatches
    Publications <- MCPublications
    Principals <- MCPrincipals
    PrincipalOf <- MCPrincipalOf
    MaxActive = 1
    MaxActivePerPrincipal = 1
    Consumers <- OneConsumer
    Producers <- MCProducers
    DeadAttempts = 2
    MaxDeliveries = 3
    MaxFaults = 2
    Fencing = FALSE
SPECIFICATION Spec
PROPERTIES
    DispatchEnds
CHECK_DEADLOCK FALSE
