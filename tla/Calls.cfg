SPECIFICATION CallersSpec
CONSTANTS
    Calls = {c1, c2}
    Sessions = {}
    Conversation = chat
    Kinds = {"taskId", "chatId"}
    Overlap = TRUE
    MaxFaults = 1
    r1 = r1
    r2 = r2
    ModelRuns = {r1, r2}
    Requests <- RequestsOf
    Environments <- AllEnvironments
    Routes <- AllRoutes
    Cap = 1
    MaxFailedFlushes = 1
    MaxChanges = 1
    MaxPrompts = 3
    LanePlans <- EitherLane
    Deliverable <- DesktopLanes
    LanesPerPrompt = 1
    HourlyCap = 2
    MaxTrouble = 1
    Footers = {f1, f2}
    Every = 3
    MaxAnswers = 7
    Commands = {sh1, sh2}
    MaxLost = 1
    Askers = {ask1, ask2}
    Desktops = {ask1}
    Owners = {portal, shop}
    Movable = {portal}
    Dirs = {desk, lab}
INVARIANTS
    ScheduledIffPaused
    LanesHold
    HooksHold
    FooterHolds
PROPERTIES
    SpendIsCounted
    InheritsWhatStands
CHECK_DEADLOCK FALSE
