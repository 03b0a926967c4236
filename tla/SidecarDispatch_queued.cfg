SPECIFICATION Spec
CONSTANTS
    reader = reader
    pinned = pinned
    writer = writer
    m1 = m1
    m2 = m2
    Order <- PlanOrder
    Required <- PlanRequired
    Writable <- PlanWritable
    Pinned <- PlanPinned
    Policy <- PolicyModels
    Limit = 1
    Recovery = TRUE
PROPERTIES
    QueuedDefaultRechecked
CHECK_DEADLOCK FALSE
