SPECIFICATION Spec
CONSTANTS
    c1 = c1
    c2 = c2
    c3 = c3
    c4 = c4
    c5 = c5
    Calls <- FiveCalls
    MaxOf <- MixedLimits
INVARIANTS
    SlotsHold
PROPERTIES
    ImplementsPool
CHECK_DEADLOCK FALSE
