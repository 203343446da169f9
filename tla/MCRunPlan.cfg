SPECIFICATION Spec
CONSTANTS
    N = 4
    None = None
INVARIANTS TypeOK SlotsBound SkipsHaveCause OutcomeComplete
PROPERTY PlanEnds
CHECK_DEADLOCK FALSE
