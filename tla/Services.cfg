SPECIFICATION ServicesSpec
CONSTANTS
    Timeout = 3
    KillAfter = 3
    GiveUp = 3
    MaxLate = 1
    Horizon = 16
    BoundedCalls = {c1}
    Policies = {"one", "two", "bad"}
    Usable = {"one", "two"}
    MaxFaults = 1
    MaxChanges = 2
    Documents = {d1}
    MaxEdits = 1
    Clean = {0}
    Refreshes = {p1, p3}
    Revokers = {p2}
    Readers = {rd}
    MaxOperations = 3
    MaxTrouble = 2
    a1 = a1
    a2 = a2
    b1 = b1
    b2 = b2
    ProcessA = ProcessA
    ProcessB = ProcessB
    Requests = {a1, a2, b1}
    Processes = {ProcessA, ProcessB}
    Home <- TwoAndOne
    Forced <- ForcedOnly
    Reclaims = TRUE
    NoOne = NoOne
INVARIANTS
    ScansAreSound
    ResultIsTrue
    StopIsFinal
    ServiceIsAsTold
PROPERTIES
    EveryRequestSettles
    AlwaysSettles
    ReservationsHold
    BoundedCallsEnd
    ChangesAreIndexed
    AdmissionHolds
CHECK_DEADLOCK FALSE
