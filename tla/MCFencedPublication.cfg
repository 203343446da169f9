CONSTANTS
    d1 = d1
    d2 = d2
    p1 = p1
    q1 = q1
    k1 = k1
    k2 = k2
    None = None
    Dispatches <- OneDispatch
    Publications <- OnePublication
    Principals <- MCPrincipals
    PrincipalOf <- OnePrincipalOf
    MaxActive = 1
    MaxActivePerPrincipal = 1
    Consumers <- OneConsumer
    Producers <- MCProducers
    DeadAttempts = 3
    MaxDeliveries = 4
    MaxFaults = 0
    Fencing = TRUE
SPECIFICATION Spec
PROPERTY WorkSettles
CHECK_DEADLOCK FALSE
