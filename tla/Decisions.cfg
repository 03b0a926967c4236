SPECIFICATION DecisionsSpec
CONSTANTS
    codex = codex
    review = review
    Recorders = {w1, w2, w3}
    RecordedRuns <- AllRuns
    Runners = {codex}
    Kinds = {review}
    MinRuns <- Twice
    MinTasks <- Twice
    MinUseful <- Once
    MaxFailurePercent = 0
    FailureThreshold = 2
    TimeoutThreshold = 3
    QuarantineHours = 2
    TimeoutHours = 1
    MaxHours = 2
    Reporters = {p1, p2}
    Repairers = {a1, a2}
    Canaries = {k1}
    HealthTargets = {"orders", "check"}
    Sources = {"orders"}
    Quarantinable = {"orders"}
    Corrected = {"check"}
    Check = "check"
    MinObserved = 2
    MinCreated = 1
    MinValidated = 1
    RepeatedFailure = 2
    Projects = {"allsorted", "site"}
    ProtectedProjects = {"allsorted"}
    Replays = {a1, a2}
    Comparisons = {l1, l2}
    Cases = {q1, q2}
    MinCases = 2
    MinSafe = 1
    MinLive = 2
    MinUses = 1
    Indexable = {f1, f2}
    Parsed = {f2}
    MaxStamp = 1
    MaxPasses = 1
INVARIANTS
    PolicyIsEarned
    HealthIsEarned
    AuthorityIsEarned
    IndexHolds
PROPERTIES
    PlansAreSafe
CHECK_DEADLOCK FALSE
