SPECIFICATION HookSpec
CONSTANTS
    MaxPrompts = 3
    LanePlans <- OneLane
    Deliverable <- DesktopLanes
    LanesPerPrompt = 2
    HourlyCap = 6
    MaxTrouble = 0
PROPERTIES
    ResultsArrive
CHECK_DEADLOCK FALSE
