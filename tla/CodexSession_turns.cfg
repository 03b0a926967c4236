SPECIFICATION Spec
CONSTANTS
    Calls = {c1, c2}
    Sessions = {s1, s2}
    Conversation = chat
    Kinds = {"background", "taskId", "chatId"}
    Overlap = FALSE
    MaxFaults = 2
INVARIANTS
    RunsBounded
PROPERTIES
    CheckpointIsTrue
    EveryCallEnds
