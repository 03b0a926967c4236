SPECIFICATION ScanSpec
CONSTANTS
    a1 = a1
    a2 = a2
    b1 = b1
    b2 = b2
    ProcessA = ProcessA
    ProcessB = ProcessB
    Requests = {a1, a2, b1, b2}
    Processes = {ProcessA, ProcessB}
    Home <- TwoByTwo
    Forced <- ForcedLast
    Reclaims = TRUE
    NoOne = NoOne
CHECK_DEADLOCK FALSE
PROPERTIES
    Cooldown
