SPECIFICATION Spec
CONSTANTS
    None = None
    Objects = {o1, o2, o3, o4}
    Capacity = 3
    MayThrow = TRUE
    Buffer = 3
    Size = 12
    Requests <- SmallRequests
    MaxUpstream = 1
    Low = 2
    Mid = 2
    High = 2
    MaxClockId = 1
    NodeId = 6
    MaxNodeId = 3
    MaxTime = 7
    MaxMade = 4
    Keys = {k1, k2, k3}
    Values = {v1, v2}
    Nodes = {n1, n2, n3}
    MaxSize = 2
    Services <- ServiceTypes
    Implementations <- SomeImplementations
    Instances = {"handler"}
    Patches = {"keeps"}
    Storages = {"builtin", "request"}
    MaxDescriptors = 3
    MaxInstances = 2
    MaxClears = 1
    SizeMax = 9
    MinCapacityForGrow = 3
    MaxReservedCapacity = 5
    IntMax = 127
    Characters <- BuilderCharacters
    Views <- SomeViews
    SampleIntegers <- EdgeIntegers
    Sizes = {0, 1, 2, 6, 9}
    MaxReads = 2
    MaxText = 4
    Methods <- GetAndPut
    Fragments <- PathFragments
    Patterns <- AllPatterns
    Paths <- RequestPaths
    Handlers = {"h1", "h2"}
    MaxRoutes = 2
INVARIANTS ListSound NoOverlap Reclaimed UUIDsSound InstancesRight BuilderHolds RightHandler
PROPERTY ImplementsLRU
