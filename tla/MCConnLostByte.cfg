SPECIFICATION Spec
CONSTANTS
    Data <- AllData
    Wires <- TwoRequests
    ConnectionNames <- ConnectionSpelt
    KeepaliveValues <- KeepaliveSpelt
    Responses <- OneFixed
    RequestQueueSize = 1
    RequestBodyQueueSize = 1
    MaxInitialRequestBytes = 100
    MaxInitialRequestPackets = 3
    MaxWrites = 1
    Environment = {"halfclosed"}
INVARIANTS RestOfBufferRemembered
