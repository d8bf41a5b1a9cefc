SPECIFICATION Spec
CONSTANTS
    Data <- AllData
    Wires <- FaultWires
    ConnectionNames <- ConnectionSpelt
    KeepaliveValues <- KeepaliveSpelt
    Responses <- FixedOrUnframed
    RequestQueueSize = 1
    RequestBodyQueueSize = 1
    MaxInitialRequestBytes = 8
    MaxInitialRequestPackets = 3
    MaxWrites = 1
    Environment = {"stop", "tick", "halfclosed", "reset"}
INVARIANT ResponsesInOrder
PROPERTIES ClosingIsFinal ImplementsLifecycle
