SPECIFICATION SceneSpec
CONSTANTS
    None = None
    Window = 1
    Reader = {}
    Scene = {"runtime"}
    Event <- OrderAndRefund
    World <- OfflineWorld
    MaxTime = 1
    MaxReplays = 0
INVARIANTS
    FactsReachTheGraph
CHECK_DEADLOCK FALSE
