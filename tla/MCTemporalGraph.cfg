SPECIFICATION SceneSpec
CONSTANTS
    None = None
    Window = 1
    Reader = {r1}
    Scene = {"runtime", "twice", "load", "beside"}
    Event <- AllFacts
    World <- OfflineWorld
    MaxTime = 1
    MaxReplays = 1
INVARIANTS
    TypeOK
    OnlyEarlyDependentsAreLost
    DecisionIgnoresTheFuture
    LoadedIsWhole
PROPERTIES
    NothingIsForgotten
CHECK_DEADLOCK FALSE
