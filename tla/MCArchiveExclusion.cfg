SPECIFICATION Spec
CONSTANTS
    Procs = {p1, p2}
    Gone = {}
    None = None
    EmptyGrace = 0
    LeaseMs = 2
    StaleMs = 2
    MaxLag = 1
    MaxFaults = 0
INVARIANT Exclusive
