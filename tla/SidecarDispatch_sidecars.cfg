SPECIFICATION Spec
CONSTANTS
    reader = reader
    pinned = pinned
    writer = writer
    m1 = m1
    m2 = m2
    Order <- PlanOrder
    Required <- PlanRequired
    Writable <- PlanWritable
    Pinned <- PlanPinned
    Policy <- PolicyModels
    Limit = 2
    Recovery = TRUE
INVARIANTS
    WriterHandsBack
    SlotsFollowRuns
    AnswerIsHonest
PROPERTIES
    
    LateResultsPersisted
CHECK_DEADLOCK FALSE
