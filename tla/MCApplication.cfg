SPECIFICATION FairSpec
CONSTANTS
    core1 = core1
    core2 = core2
    fiber1 = fiber1
    fiber2 = fiber2
    Shards <- Cores
    Callers <- TwoFibers
    Operations <- AllOperations
    MaxModules = 1
    ServerModule = 1
    FailingPhases <- HandlerPhases
INVARIANTS OneDriver ModulesInStep
PROPERTY CallsReturn
