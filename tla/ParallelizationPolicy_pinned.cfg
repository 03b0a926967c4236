SPECIFICATION PolicySpec
CONSTANTS
    codex = codex
    review = review
    Recorders = {c1, c2, c3}
    RecordedRuns <- StageRuns
    Runners = {codex}
    Kinds = {review}
    MinRuns <- Once
    MinTasks <- Once
    MinUseful <- Once
    MaxFailurePercent = 0
    FailureThreshold = 2
    TimeoutThreshold = 3
    QuarantineHours = 2
    TimeoutHours = 1
    MaxHours = 1
CHECK_DEADLOCK FALSE
PROPERTIES
    PinnedRunNeverRegresses
