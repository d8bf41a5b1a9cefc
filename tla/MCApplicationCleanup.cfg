SPECIFICATION Spec
CONSTANTS
    core1 = core1
    core2 = core2
    fiber1 = fiber1
    fiber2 = fiber2
    Shards <- Cores
    Callers <- OneFiber
    Operations <- StartStop
    MaxModules = 1
    ServerModule = 1
    FailingPhases <- HandlerPhases
PROPERTY StopPossible
